---------------------------- MODULE DataFacts ----------------------------
(***************************************************************************)
(* What the proofs about frames and payloads need of sequences and         *)
(* numbers: where the bytes of a concatenation, of a slice and of a        *)
(* beginning are, least and greatest members, and numbers by their digits. *)
(***************************************************************************)
EXTENDS Integers, Sequences, SequenceTheorems, WellFoundedInduction, TLAPS

(* The length and the bytes of a concatenation of two parts, and of five.  *)
LEMMA TwoParts ==
  ASSUME NEW S, NEW a \in Seq(S), NEW b \in Seq(S)
  PROVE  /\ a \o b \in Seq(S)
         /\ Len(a \o b) = Len(a) + Len(b)
         /\ \A i \in 1 .. Len(a) : (a \o b)[i] = a[i]
         /\ \A i \in 1 .. Len(b) : (a \o b)[Len(a) + i] = b[i]
<1>1. /\ a \o b \in Seq(S)
      /\ Len(a \o b) = Len(a) + Len(b)
      /\ \A i \in 1 .. Len(a) + Len(b) :
            (a \o b)[i] = IF i <= Len(a) THEN a[i] ELSE b[i - Len(a)]
  BY ConcatProperties
<1>2. Len(a) \in Nat /\ Len(b) \in Nat
  OBVIOUS
<1>3. ASSUME NEW i \in 1 .. Len(a) PROVE (a \o b)[i] = a[i]
  BY <1>1, <1>2
<1>4. ASSUME NEW i \in 1 .. Len(b) PROVE (a \o b)[Len(a) + i] = b[i]
  <2>1. Len(a) + i \in 1 .. Len(a) + Len(b)
    BY <1>2
  <2>2. ~(Len(a) + i <= Len(a)) /\ Len(a) + i - Len(a) = i
    BY <1>2
  <2>3. QED
    BY <1>1, <2>1, <2>2
<1>5. QED
  BY <1>1, <1>3, <1>4

IsLaidOut(s, a, b, c, d, e) ==
  /\ Len(s) = Len(a) + Len(b) + Len(c) + Len(d) + Len(e)
  /\ \A i \in 1 .. Len(a) : s[i] = a[i]
  /\ \A i \in 1 .. Len(b) : s[Len(a) + i] = b[i]
  /\ \A i \in 1 .. Len(c) : s[Len(a) + Len(b) + i] = c[i]
  /\ \A i \in 1 .. Len(d) : s[Len(a) + Len(b) + Len(c) + i] = d[i]
  /\ \A i \in 1 .. Len(e) : s[Len(a) + Len(b) + Len(c) + Len(d) + i] = e[i]

LEMMA FiveParts ==
  ASSUME NEW S, NEW a \in Seq(S), NEW b \in Seq(S), NEW c \in Seq(S),
         NEW d \in Seq(S), NEW e \in Seq(S),
         NEW s, s = a \o b \o c \o d \o e
  PROVE  s \in Seq(S) /\ IsLaidOut(s, a, b, c, d, e)
<1> DEFINE ab == a \o b
<1> DEFINE abc == ab \o c
<1> DEFINE abcd == abc \o d
<1>1. /\ Len(a) \in Nat /\ Len(b) \in Nat /\ Len(c) \in Nat
      /\ Len(d) \in Nat /\ Len(e) \in Nat
  OBVIOUS
<1>2. /\ ab \in Seq(S)
      /\ Len(ab) = Len(a) + Len(b)
      /\ \A i \in 1 .. Len(a) : ab[i] = a[i]
      /\ \A i \in 1 .. Len(b) : ab[Len(a) + i] = b[i]
  BY TwoParts
<1> HIDE DEF ab
<1>3. /\ abc \in Seq(S)
      /\ Len(abc) = Len(ab) + Len(c)
      /\ \A i \in 1 .. Len(ab) : abc[i] = ab[i]
      /\ \A i \in 1 .. Len(c) : abc[Len(ab) + i] = c[i]
  <2>1. ab \in Seq(S)
    BY <1>2
  <2>2. QED
    BY <2>1, TwoParts
<1> HIDE DEF abc
<1>4. /\ abcd \in Seq(S)
      /\ Len(abcd) = Len(abc) + Len(d)
      /\ \A i \in 1 .. Len(abc) : abcd[i] = abc[i]
      /\ \A i \in 1 .. Len(d) : abcd[Len(abc) + i] = d[i]
  <2>1. abc \in Seq(S)
    BY <1>3
  <2>2. QED
    BY <2>1, TwoParts
<1>5. s = abcd \o e
  BY DEF abcd, abc, ab
<1> HIDE DEF abcd
<1>6. /\ s \in Seq(S)
      /\ Len(s) = Len(abcd) + Len(e)
      /\ \A i \in 1 .. Len(abcd) : s[i] = abcd[i]
      /\ \A i \in 1 .. Len(e) : s[Len(abcd) + i] = e[i]
  <2>1. abcd \in Seq(S)
    BY <1>4
  <2>2. QED
    BY <1>5, <2>1, TwoParts
<1>7. Len(s) = Len(a) + Len(b) + Len(c) + Len(d) + Len(e)
  BY <1>1, <1>2, <1>3, <1>4, <1>6
<1>8. ASSUME NEW i \in 1 .. Len(a) PROVE s[i] = a[i]
  <2>1. i \in 1 .. Len(ab) /\ i \in 1 .. Len(abc) /\ i \in 1 .. Len(abcd)
    BY <1>1, <1>2, <1>3, <1>4
  <2>2. QED
    BY <1>2, <1>3, <1>4, <1>6, <2>1
<1>9. ASSUME NEW i \in 1 .. Len(b) PROVE s[Len(a) + i] = b[i]
  <2>1. /\ Len(a) + i \in 1 .. Len(ab)
        /\ Len(a) + i \in 1 .. Len(abc)
        /\ Len(a) + i \in 1 .. Len(abcd)
    BY <1>1, <1>2, <1>3, <1>4
  <2>2. QED
    BY <1>2, <1>3, <1>4, <1>6, <2>1
<1>10. ASSUME NEW i \in 1 .. Len(c) PROVE s[Len(a) + Len(b) + i] = c[i]
  <2>1. Len(ab) + i \in 1 .. Len(abc) /\ Len(ab) + i \in 1 .. Len(abcd)
    BY <1>1, <1>2, <1>3, <1>4
  <2>2. s[Len(ab) + i] = c[i]
    BY <1>3, <1>4, <1>6, <2>1
  <2>3. QED
    BY <1>2, <2>2
<1>11. ASSUME NEW i \in 1 .. Len(d) PROVE s[Len(a) + Len(b) + Len(c) + i] = d[i]
  <2>1. Len(abc) + i \in 1 .. Len(abcd)
    BY <1>1, <1>2, <1>3, <1>4
  <2>2. s[Len(abc) + i] = d[i]
    BY <1>4, <1>6, <2>1
  <2>3. Len(abc) = Len(a) + Len(b) + Len(c)
    BY <1>2, <1>3
  <2>4. QED
    BY <2>2, <2>3
<1>12. ASSUME NEW i \in 1 .. Len(e)
       PROVE  s[Len(a) + Len(b) + Len(c) + Len(d) + i] = e[i]
  <2>1. s[Len(abcd) + i] = e[i]
    BY <1>6
  <2>2. Len(abcd) = Len(a) + Len(b) + Len(c) + Len(d)
    BY <1>2, <1>3, <1>4
  <2>3. QED
    BY <2>1, <2>2
<1>13. QED
  BY <1>6, <1>7, <1>8, <1>9, <1>10, <1>11, <1>12 DEF IsLaidOut

(* A slice of a sequence. *)
LEMMA Slice ==
  ASSUME NEW S, NEW s \in Seq(S), NEW at \in Nat, NEW size \in Nat,
         at + size <= Len(s)
  PROVE  LET t == SubSeq(s, at + 1, at + size)
         IN  /\ t \in Seq(S)
             /\ Len(t) = size
             /\ \A i \in 1 .. size : t[i] = s[at + i]
<1> DEFINE m == at + 1
           n == at + size
           t == SubSeq(s, m, n)
<1>1. /\ m \in Int /\ n \in Int
      /\ n - m + 1 = size
      /\ m <= n <=> size # 0
  OBVIOUS
<1>2. \A i \in m .. n : s[i] \in S
  OBVIOUS
<1>3. \A i \in 1 .. size : m + i - 1 = at + i
  OBVIOUS
<1> HIDE DEF m, n
<1>4. /\ t \in Seq(S)
      /\ Len(t) = IF m <= n THEN n - m + 1 ELSE 0
      /\ \A i \in 1 .. n - m + 1 : t[i] = s[m + i - 1]
  BY <1>1, <1>2, SubSeqProperties
<1> HIDE DEF t
<1>5. Len(t) = size
  BY <1>1, <1>4
<1>6. ASSUME NEW i \in 1 .. size PROVE t[i] = s[at + i]
  <2>1. t[i] = s[m + i - 1]
    BY <1>1, <1>4
  <2>2. QED
    BY <1>3, <2>1
<1>7. QED
  BY <1>4, <1>5, <1>6 DEF t, m, n

(* The parts of a concatenation as slices of it. *)
LEMMA SecondPart ==
  ASSUME NEW S, NEW a \in Seq(S), NEW b \in Seq(S)
  PROVE  SubSeq(a \o b, Len(a) + 1, Len(a) + Len(b)) = b
<1> DEFINE s == a \o b
<1>1. /\ s \in Seq(S)
      /\ Len(s) = Len(a) + Len(b)
      /\ \A i \in 1 .. Len(b) : s[Len(a) + i] = b[i]
  BY TwoParts
<1>2. Len(a) \in Nat /\ Len(b) \in Nat
  OBVIOUS
<1> HIDE DEF s
<1> DEFINE t == SubSeq(s, Len(a) + 1, Len(a) + Len(b))
<1>3. t \in Seq(S) /\ Len(t) = Len(b) /\ \A i \in 1 .. Len(b) : t[i] = s[Len(a) + i]
  BY <1>1, <1>2, Slice
<1> HIDE DEF t
<1>4. t = b
  BY <1>1, <1>3, SeqEqual
<1>5. QED
  BY <1>4 DEF t, s

LEMMA MiddlePart ==
  ASSUME NEW S, NEW a \in Seq(S), NEW b \in Seq(S), NEW c \in Seq(S)
  PROVE  SubSeq(a \o (b \o c), Len(a) + 1, Len(a) + Len(b)) = b
<1> DEFINE r == b \o c
           s == a \o r
<1>1. /\ r \in Seq(S)
      /\ Len(r) = Len(b) + Len(c)
      /\ \A i \in 1 .. Len(b) : r[i] = b[i]
  BY TwoParts
<1>2. Len(a) \in Nat /\ Len(b) \in Nat /\ Len(c) \in Nat
  OBVIOUS
<1> HIDE DEF r
<1>3. r \in Seq(S)
  BY <1>1
<1>4. /\ s \in Seq(S)
      /\ Len(s) = Len(a) + Len(r)
      /\ \A i \in 1 .. Len(r) : s[Len(a) + i] = r[i]
  BY <1>3, TwoParts
<1> HIDE DEF s
<1> DEFINE t == SubSeq(s, Len(a) + 1, Len(a) + Len(b))
<1>5. Len(a) + Len(b) <= Len(s)
  BY <1>1, <1>2, <1>4
<1>6. t \in Seq(S) /\ Len(t) = Len(b) /\ \A i \in 1 .. Len(b) : t[i] = s[Len(a) + i]
  BY <1>2, <1>4, <1>5, Slice
<1>7. \A i \in 1 .. Len(b) : s[Len(a) + i] = b[i]
  BY <1>1, <1>2, <1>4
<1> HIDE DEF t
<1>8. t = b
  BY <1>6, <1>7, SeqEqual
<1>9. QED
  BY <1>8 DEF t, s, r

LEMMA PrefixKept ==
  ASSUME NEW S, NEW h \in Seq(S), NEW P \in Seq(S), NEW i \in 1 .. Len(h)
  PROVE  (h \o P)[i] = h[i]
BY TwoParts

LEMMA SamePrefix ==
  ASSUME NEW S, NEW h \in Seq(S), NEW P \in Seq(S), NEW Q \in Seq(S), h \o P = h \o Q
  PROVE  P = Q
<1>1. /\ Len(h \o P) = Len(h) + Len(P) /\ Len(h \o Q) = Len(h) + Len(Q)
      /\ \A i \in 1 .. Len(P) : (h \o P)[Len(h) + i] = P[i]
      /\ \A i \in 1 .. Len(Q) : (h \o Q)[Len(h) + i] = Q[i]
  BY TwoParts
<1>2. Len(P) \in Nat /\ Len(Q) \in Nat /\ Len(h) \in Nat
  OBVIOUS
<1>3. Len(P) = Len(Q)
  BY <1>1, <1>2
<1>4. \A i \in 1 .. Len(P) : P[i] = Q[i]
  BY <1>1, <1>3
<1>5. QED
  BY <1>3, <1>4, SeqEqual

(* A sequence and a beginning of it. *)
IsBeginning(part, all) == \E k \in 0 .. Len(all) : part = SubSeq(all, 1, k)

LEMMA BeginningFacts ==
  ASSUME NEW S, NEW all \in Seq(S), NEW k \in 0 .. Len(all)
  PROVE  /\ SubSeq(all, 1, k) \in Seq(S)
         /\ Len(SubSeq(all, 1, k)) = k
         /\ \A i \in 1 .. k : SubSeq(all, 1, k)[i] = all[i]
<1>1. k \in Nat /\ 0 + k <= Len(all)
  OBVIOUS
<1>2. LET t == SubSeq(all, 0 + 1, 0 + k)
      IN  t \in Seq(S) /\ Len(t) = k /\ \A i \in 1 .. k : t[i] = all[0 + i]
  BY <1>1, Slice
<1>3. 0 + 1 = 1 /\ 0 + k = k /\ \A i \in 1 .. k : 0 + i = i
  BY <1>1
<1>4. QED
  BY <1>2, <1>3

LEMMA BeginningOfBeginning ==
  ASSUME NEW S, NEW all \in Seq(S), NEW k \in 0 .. Len(all), NEW j \in 0 .. k
  PROVE  SubSeq(SubSeq(all, 1, k), 1, j) = SubSeq(all, 1, j)
<1> DEFINE s == SubSeq(all, 1, k)
           t == SubSeq(all, 1, j)
<1>1. s \in Seq(S) /\ Len(s) = k /\ \A i \in 1 .. k : s[i] = all[i]
  BY BeginningFacts
<1>2. j \in 0 .. Len(all) /\ j \in 0 .. Len(s) /\ j \in Nat /\ k \in Nat
  BY <1>1
<1>3. t \in Seq(S) /\ Len(t) = j /\ \A i \in 1 .. j : t[i] = all[i]
  BY <1>2, BeginningFacts
<1> HIDE DEF s, t
<1>4. LET u == SubSeq(s, 1, j)
      IN  u \in Seq(S) /\ Len(u) = j /\ \A i \in 1 .. j : u[i] = s[i]
  BY <1>1, <1>2, BeginningFacts
<1> DEFINE u == SubSeq(s, 1, j)
<1>5. \A i \in 1 .. Len(u) : u[i] = t[i]
  BY <1>1, <1>2, <1>3, <1>4
<1>6. u = t
  <2> HIDE DEF u
  <2>1. QED
    BY <1>3, <1>4, <1>5, SeqEqual DEF u
<1>7. QED
  BY <1>6 DEF s, t

LEMMA WholeIsBeginning ==
  ASSUME NEW S, NEW all \in Seq(S)
  PROVE  IsBeginning(all, all)
<1>1. SubSeq(all, 1, Len(all)) = all
  BY SubSeqFull
<1>2. Len(all) \in 0 .. Len(all)
  OBVIOUS
<1>3. QED
  BY <1>1, <1>2 DEF IsBeginning

LEMMA BeginningIsTransitive ==
  ASSUME NEW S, NEW all \in Seq(S), NEW part, IsBeginning(part, all),
         NEW piece, IsBeginning(piece, part)
  PROVE  IsBeginning(piece, all)
<1>1. PICK k \in 0 .. Len(all) : part = SubSeq(all, 1, k)
  BY DEF IsBeginning
<1>2. Len(part) = k
  BY <1>1, BeginningFacts
<1>3. PICK j \in 0 .. k : piece = SubSeq(part, 1, j)
  BY <1>2 DEF IsBeginning
<1>4. piece = SubSeq(all, 1, j)
  BY <1>1, <1>3, BeginningOfBeginning
<1>5. j \in 0 .. Len(all)
  OBVIOUS
<1>6. QED
  BY <1>4, <1>5 DEF IsBeginning
-----------------------------------------------------------------------------
(* A set of natural numbers has a least element, and a greatest one when   *)
(* it is bounded.                                                          *)
LEMMA HasLeast ==
  ASSUME NEW T, T \subseteq Nat, T # {}
  PROVE  \E x \in T : \A y \in T : x =< y
<1> DEFINE R == OpToRel(<, Nat)
<1>1. IsWellFoundedOn(R, Nat)
  BY NatLessThanWellFounded
<1>2. \A x, y \in Nat : <<x, y>> \in R <=> x < y
  BY DEF OpToRel
<1> HIDE DEF R
<1>3. PICK x \in T : \A y \in T : ~ (<<y, x>> \in R)
  BY <1>1, WFMin
<1>4. ASSUME NEW y \in T PROVE x =< y
  <2>1. x \in Nat /\ y \in Nat /\ ~ (<<y, x>> \in R)
    BY <1>3
  <2>2. QED
    BY <1>2, <2>1
<1>5. QED
  BY <1>4

LEMMA HasGreatest ==
  ASSUME NEW n \in Nat, NEW T, T \subseteq 0 .. n, T # {}
  PROVE  \E x \in T : \A y \in T : x >= y
<1> DEFINE U == {n - x : x \in T}
<1>1. U \subseteq Nat /\ U # {}
  <2>1. \A x \in T : n - x \in Nat
    OBVIOUS
  <2>2. PICK x \in T : TRUE
    OBVIOUS
  <2>3. n - x \in U
    OBVIOUS
  <2>4. QED
    BY <2>1, <2>3
<1>2. PICK u \in U : \A y \in U : u =< y
  BY <1>1, HasLeast
<1>3. PICK x \in T : u = n - x
  BY <1>2
<1>4. ASSUME NEW y \in T PROVE x >= y
  <2>1. n - y \in U
    OBVIOUS
  <2>2. n - x =< n - y
    BY <1>2, <1>3, <2>1
  <2>3. x \in Int /\ y \in Int
    OBVIOUS
  <2>4. QED
    BY <2>2, <2>3
<1>5. QED
  BY <1>4

(* A number and its lowest three bytes, and what is above them. *)
Digit == 0 .. 255

LEMMA Quotients ==
  ASSUME NEW m \in Int, NEW r \in Int, 0 =< r
  PROVE  /\ r < 65536 => (65536 * m + r) \div 65536 = m
         /\ r < 16777216 => (16777216 * m + r) \div 16777216 = m
BY SMT

LEMMA FourDigits ==
  ASSUME NEW n \in Int
  PROVE  \E b0 \in Digit, b1 \in Digit, b2 \in Digit, q \in Int :
           /\ n = b0 + 256 * b1 + 65536 * b2 + 16777216 * q
           /\ n % 256 = b0
           /\ (n \div 256) % 256 = b1
           /\ (n \div 65536) % 256 = b2
           /\ n \div 16777216 = q
<1> DEFINE b0 == n % 256
           n1 == n \div 256
           b1 == n1 % 256
           n2 == n1 \div 256
           b2 == n2 % 256
           q  == n2 \div 256
<1>1. b0 \in 0 .. 255 /\ n1 \in Int /\ n = 256 * n1 + b0
  BY SMT
<1>2. b1 \in 0 .. 255 /\ n2 \in Int /\ n1 = 256 * n2 + b1
  BY <1>1, SMT
<1>3. b2 \in 0 .. 255 /\ q \in Int /\ n2 = 256 * q + b2
  BY <1>2, SMT
<1> HIDE DEF b0, n1, b1, n2, b2, q
<1>4. n = b0 + 256 * b1 + 65536 * b2 + 16777216 * q
  BY <1>1, <1>2, <1>3, SMT
<1>5. n = 65536 * n2 + (b0 + 256 * b1) /\ 0 =< b0 + 256 * b1 /\ b0 + 256 * b1 < 65536
  BY <1>1, <1>2, SMT
<1>6. n \div 65536 = n2
  <2> DEFINE r == b0 + 256 * b1
  <2>1. r \in Int /\ 0 =< r /\ r < 65536 /\ n = 65536 * n2 + r
    BY <1>1, <1>2, <1>5, SMT
  <2> HIDE DEF r
  <2>2. QED
    BY <1>2, <2>1, Quotients, SMT
<1>7. n = 16777216 * q + (b0 + 256 * b1 + 65536 * b2)
      /\ 0 =< b0 + 256 * b1 + 65536 * b2 /\ b0 + 256 * b1 + 65536 * b2 < 16777216
  BY <1>1, <1>2, <1>3, <1>4, SMT
<1>8. n \div 16777216 = q
  <2> DEFINE r == b0 + 256 * b1 + 65536 * b2
  <2>1. r \in Int /\ 0 =< r /\ r < 16777216 /\ n = 16777216 * q + r
    BY <1>1, <1>2, <1>3, <1>7, SMT
  <2> HIDE DEF r
  <2>2. QED
    BY <1>3, <2>1, Quotients, SMT
<1>9. n % 256 = b0 /\ (n \div 256) % 256 = b1 /\ (n \div 65536) % 256 = b2
  BY <1>6, SMT DEF b0, n1, b1, b2
<1>10. b0 \in Digit /\ b1 \in Digit /\ b2 \in Digit /\ q \in Int
  BY <1>1, <1>2, <1>3 DEF Digit
<1>11. QED
  BY <1>4, <1>8, <1>9, <1>10, SMT
=============================================================================

------------------------------ MODULE Probing ------------------------------
(***************************************************************************)
(* Arithmetic that the proofs about open-addressed arrays and rings share: *)
(* remainders by a positive number, and the entry of least rank.           *)
(***************************************************************************)
EXTENDS Integers, WellFoundedInduction, TLAPS

\* The remainder by a positive number is below it.
LEMMA ModRange ==
  ASSUME NEW M \in Nat \ {0}, NEW a \in Int
  PROVE  a % M \in 0 .. M - 1
BY SMT

\* Quotient and remainder.
LEMMA DivMod ==
  ASSUME NEW M \in Nat \ {0}, NEW a \in Int
  PROVE  a \div M \in Int /\ a = M * (a \div M) + (a % M)
BY SMT

\* Two multiples of M less than M apart are the same.
LEMMA MultiplesApart ==
  ASSUME NEW M \in Nat \ {0}, NEW p \in Int, NEW q \in Int,
         M * p - M * q < M, M * q - M * p < M
  PROVE  p = q
BY SMTT(20)

\* Two numbers less than M apart with the same remainder are the same: the
\* places of an array of M entries have different ranks, and a ring of M
\* places does not overtake itself.
LEMMA ModInjective ==
  ASSUME NEW M \in Nat \ {0}, NEW a \in Int, NEW b \in Int,
         a % M = b % M, a - b < M, b - a < M
  PROVE  a = b
<1>1. PICK p \in Int, q \in Int : p = a \div M /\ q = b \div M
  BY DivMod
<1>2. a = M * p + (a % M) /\ b = M * q + (b % M)
  BY <1>1, DivMod
<1>3. a % M \in Int /\ M * p \in Int /\ M * q \in Int
  BY ModRange
<1>4. M * p - M * q < M /\ M * q - M * p < M
  BY <1>2, <1>3
<1>5. p = q
  BY <1>4, MultiplesApart
<1> QED
  BY <1>2, <1>5

\* A multiple of M changes no remainder.
LEMMA ModMultiple ==
  ASSUME NEW M \in Nat \ {0}, NEW q \in Int, NEW x \in Int
  PROVE  (M * q + x) % M = x % M
<1>1. M * q + x \in Int
  OBVIOUS
<1>2. PICK y \in Int : y = M * q + x
  BY <1>1
<1>3. PICK p \in Int, k \in Int : p = x \div M /\ k = y \div M
  BY DivMod
<1>4. x = M * p + (x % M) /\ y = M * k + (y % M)
  BY <1>3, DivMod
<1>5. x % M \in 0 .. M - 1 /\ y % M \in 0 .. M - 1
  BY ModRange
<1>6. p + q \in Int /\ M * (p + q) = M * p + M * q
      /\ M * p \in Int /\ M * q \in Int /\ M * k \in Int
  OBVIOUS
<1>7. M * k - M * (p + q) = (x % M) - (y % M)
  <2>1. PICK P \in Int, Q \in Int, K \in Int, R \in Int, S \in Int :
           P = M * p /\ Q = M * q /\ K = M * k /\ R = x % M /\ S = y % M
    BY <1>5, <1>6
  <2>2. y = Q + x /\ x = P + R /\ y = K + S /\ M * (p + q) = P + Q
    BY <1>2, <1>4, <1>6, <2>1
  <2>3. K - (P + Q) = R - S
    BY <2>2
  <2> QED BY <2>1, <2>2, <2>3
<1>8. M * k - M * (p + q) < M /\ M * (p + q) - M * k < M
  BY <1>5, <1>6, <1>7
<1>9. k = p + q
  BY <1>6, <1>8, MultiplesApart
<1>10. x % M = y % M
  BY <1>5, <1>6, <1>7, <1>9
<1> QED
  BY <1>2, <1>10

\* Steps along a ring of M places may be reduced one at a time.
LEMMA ModShift ==
  ASSUME NEW M \in Nat \ {0}, NEW a \in Int, NEW b \in Int
  PROVE  ((a % M) + b) % M = (a + b) % M
<1>1. PICK q \in Int, r \in Int : q = a \div M /\ r = a % M /\ a = M * q + r
  BY DivMod, ModRange
<1>2. r + b \in Int /\ M * q \in Int
  OBVIOUS
<1>3. (M * q + (r + b)) % M = (r + b) % M
  BY <1>2, ModMultiple
<1>4. M * q + (r + b) = a + b
  BY <1>1, <1>2
<1> QED
  BY <1>1, <1>3, <1>4

\* A place of the ring is its own remainder.
LEMMA ModSmall ==
  ASSUME NEW M \in Nat \ {0}, NEW a \in 0 .. M - 1
  PROVE  a % M = a
BY SMT

\* A nonempty set whose elements have natural ranks has one of least rank.
LEMMA LeastExists ==
  ASSUME NEW S, S # {}, NEW r, \A i \in S : r[i] \in Nat
  PROVE  \E i \in S : \A j \in S : r[i] <= r[j]
<1> DEFINE D == {r[i] : i \in S}
           Less == {ss \in Nat \X Nat : ss[1] < ss[2]}
<1>1. D \subseteq Nat /\ D # {}
  OBVIOUS
<1>2. IsWellFoundedOn(Less, Nat)
  BY NatLessThanWellFounded, Zenon DEF OpToRel
<1>3. PICK x \in D : \A y \in D : ~(<<y, x>> \in Less)
  <2> HIDE DEF D, Less
  <2> QED BY <1>1, <1>2, WFMin
<1>4. \A y \in D : x <= y
  <2> SUFFICES ASSUME NEW y \in D PROVE x <= y
    OBVIOUS
  <2>1. x \in Nat /\ y \in Nat /\ <<y, x>> \notin Less
    BY <1>1, <1>3
  <2> QED BY <2>1
<1>5. PICK i \in S : x = r[i]
  BY <1>3
<1> QED
  BY <1>4, <1>5

-----------------------------------------------------------------------------
(* A ring of M places: the i-th from place h on, counted from one *)

\* It is a place of the ring, and the first is h itself.
LEMMA RingPlace ==
  ASSUME NEW M \in Nat \ {0}, NEW h \in 0 .. M - 1, NEW i \in Int
  PROVE  (h + i - 1) % M \in 0 .. M - 1 /\ (h + 1 - 1) % M = h
<1>1. h + i - 1 \in Int /\ h + 1 - 1 = h
  OBVIOUS
<1>2. (h + i - 1) % M \in 0 .. M - 1
  BY <1>1, ModRange
<1>3. h % M = h
  BY ModSmall
<1> QED
  BY <1>1, <1>2, <1>3

\* The first M of them are different places, ...
LEMMA RingApart ==
  ASSUME NEW M \in Nat \ {0}, NEW h \in 0 .. M - 1, NEW i \in 1 .. M,
         NEW j \in 1 .. M, (h + i - 1) % M = (h + j - 1) % M
  PROVE  i = j
<1>1. /\ h + i - 1 \in Int /\ h + j - 1 \in Int
      /\ (h + i - 1) - (h + j - 1) < M /\ (h + j - 1) - (h + i - 1) < M
  OBVIOUS
<1>2. h + i - 1 = h + j - 1
  BY <1>1, ModInjective
<1> QED
  BY <1>2

\* ... and all the places there are.
LEMMA RingOnto ==
  ASSUME NEW M \in Nat \ {0}, NEW h \in 0 .. M - 1, NEW p \in 0 .. M - 1
  PROVE  \E i \in 1 .. M : (h + i - 1) % M = p
<1>1. PICK r \in 0 .. M - 1 : r = (p - h) % M
  BY ModRange
<1>2. h + (r + 1) - 1 = r + h /\ (p - h) + h = p /\ r + 1 \in 1 .. M
      /\ p - h \in Int /\ h \in Int
  OBVIOUS
<1>3. (((p - h) % M) + h) % M = ((p - h) + h) % M
  BY <1>2, ModShift
<1>4. (r + h) % M = p % M
  BY <1>1, <1>2, <1>3
<1>5. p % M = p
  BY ModSmall
<1>6. (h + (r + 1) - 1) % M = p
  BY <1>2, <1>4, <1>5
<1> QED
  BY <1>2, <1>6

\* From the place behind h they are the same ones, one further.
LEMMA RingShift ==
  ASSUME NEW M \in Nat \ {0}, NEW h \in 0 .. M - 1, NEW i \in Int
  PROVE  (((h + 1) % M) + i - 1) % M = (h + (i + 1) - 1) % M
<1>1. PICK r \in Int : r = (h + 1) % M
  BY ModRange
<1>2. /\ h + 1 \in Int /\ i - 1 \in Int /\ r + i - 1 = r + (i - 1)
      /\ (h + 1) + (i - 1) = h + (i + 1) - 1
  OBVIOUS
<1>3. (((h + 1) % M) + (i - 1)) % M = ((h + 1) + (i - 1)) % M
  BY <1>2, ModShift
<1> QED
  BY <1>1, <1>2, <1>3

\* Where the next one is written, and where the one after it, when n places
\* from h on are in use.
LEMMA RingEnd ==
  ASSUME NEW M \in Nat \ {0}, NEW h \in 0 .. M - 1, NEW n \in Nat
  PROVE  /\ (h + n) % M = (h + (n + 1) - 1) % M
         /\ (((h + n) % M) + 1) % M = (h + (n + 1)) % M
         /\ n > 0 => (((h + 1) % M) + (n - 1)) % M = (h + n) % M
<1>1. /\ h + n = h + (n + 1) - 1 /\ (h + n) + 1 = h + (n + 1)
      /\ (h + 1) + (n - 1) = h + n
      /\ h + n \in Int /\ h + 1 \in Int /\ n - 1 \in Int /\ 1 \in Int
  OBVIOUS
<1>2. (((h + n) % M) + 1) % M = ((h + n) + 1) % M
  BY <1>1, ModShift
<1>3. (((h + 1) % M) + (n - 1)) % M = ((h + 1) + (n - 1)) % M
  BY <1>1, ModShift
<1> QED
  BY <1>1, <1>2, <1>3

\* What holds of the place t behind the n places in use: it is the place
\* n + 1, and the others are elsewhere.
BehindAll(M, h, n, t) ==
    /\ (t + 1) % M \in 0 .. M - 1
    /\ (t + 1) % M = (h + (n + 1)) % M
    /\ t = (h + (n + 1) - 1) % M
    /\ \A i \in 1 .. M : /\ (h + i - 1) % M \in 0 .. M - 1
                         /\ i # n + 1 => (h + i - 1) % M # t

\* The next one is written there.
LEMMA RingSend ==
  ASSUME NEW M \in Nat \ {0}, NEW h \in 0 .. M - 1, NEW n \in Nat, n < M,
         NEW t, t = (h + n) % M
  PROVE  BehindAll(M, h, n, t)
<1>1. n + 1 \in 1 .. M /\ h + n \in Int
  OBVIOUS
<1>2. t \in 0 .. M - 1
  BY <1>1, ModRange
<1>3. t + 1 \in Int
  BY <1>2
<1>4. (t + 1) % M \in 0 .. M - 1
  BY <1>3, ModRange
<1>5. t = (h + (n + 1) - 1) % M /\ (t + 1) % M = (h + (n + 1)) % M
  BY RingEnd
<1>6. ASSUME NEW i \in 1 .. M
      PROVE  /\ (h + i - 1) % M \in 0 .. M - 1
             /\ i # n + 1 => (h + i - 1) % M # t
  <2>1. (h + i - 1) % M \in 0 .. M - 1
    BY RingPlace
  <2>2. i # n + 1 => (h + i - 1) % M # t
    BY <1>1, <1>5, RingApart
  <2> QED BY <2>1, <2>2
<1> QED
  BY <1>4, <1>5, <1>6 DEF BehindAll

\* What holds of the place g behind the oldest: from there on the others have
\* moved up, and the place of the oldest is the last.
BehindOldest(M, h, n, g) ==
    /\ g \in 0 .. M - 1
    /\ (g + (n - 1)) % M = (h + n) % M
    /\ \A i \in Int : (g + i - 1) % M = (h + (i + 1) - 1) % M
    /\ (g + M - 1) % M = h
    /\ \A i \in 1 .. M - 1 : /\ (g + i - 1) % M \in 0 .. M - 1
                             /\ (g + i - 1) % M # h

\* The ring begins there when the oldest is taken off.
LEMMA RingPop ==
  ASSUME NEW M \in Nat \ {0}, NEW h \in 0 .. M - 1, NEW n \in Nat, n > 0,
         NEW g, g = (h + 1) % M
  PROVE  BehindOldest(M, h, n, g)
<1>1. h + 1 \in Int /\ 1 \in 1 .. M /\ M \in Int
  OBVIOUS
<1>2. g \in 0 .. M - 1
  BY <1>1, ModRange
<1>3. (g + (n - 1)) % M = (h + n) % M
  BY RingEnd
<1>4. \A i \in Int : (g + i - 1) % M = (h + (i + 1) - 1) % M
  BY RingShift
<1>5. (g + M - 1) % M = h
  <2>1. M * 1 + h = h + (M + 1) - 1 /\ h \in Int /\ 1 \in Int
    OBVIOUS
  <2>2. (M * 1 + h) % M = h % M
    BY <2>1, ModMultiple
  <2>3. h % M = h
    BY ModSmall
  <2>4. (g + M - 1) % M = (h + (M + 1) - 1) % M
    BY <1>1, <1>4
  <2> QED BY <2>1, <2>2, <2>3, <2>4
<1>6. ASSUME NEW i \in 1 .. M - 1
      PROVE  (g + i - 1) % M \in 0 .. M - 1 /\ (g + i - 1) % M # h
  <2>1. i \in Int /\ i \in 1 .. M /\ M \in 1 .. M /\ i # M
    OBVIOUS
  <2>2. (g + i - 1) % M \in 0 .. M - 1
    BY <1>2, <2>1, RingPlace
  <2>3. (g + i - 1) % M # (g + M - 1) % M
    BY <1>2, <2>1, RingApart
  <2> QED BY <1>5, <2>2, <2>3
<1> QED
  BY <1>2, <1>3, <1>4, <1>5, <1>6 DEF BehindOldest
=============================================================================

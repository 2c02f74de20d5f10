------------------------------ MODULE WireProofs ------------------------------
(***************************************************************************)
(* What the three readers of frames need to know of the wire: that a       *)
(* number survives its digits, what bytes a frame has and where, and what  *)
(* pieces put together are.  For every width and base of a number.         *)
(*                                                                         *)
(* The recursive functions (readI32, Shifted, FlattenSeq) are reasoned     *)
(* about by sets of indices: one with 0 in it, and closed under successor, *)
(* has them all (AllIndices).                                              *)
(***************************************************************************)
EXTENDS Wire, FiniteSetTheorems, WellFoundedInduction, TLAPS

-----------------------------------------------------------------------------
(* Numbers and functions defined from the one before. *)

(* There is a least one among them: the interval below it has none of the  *)
(* others inside.                                                          *)
LEMMA LeastExists ==
    ASSUME NEW S, S \subseteq Nat, S # {}
    PROVE  \E n \in S : \A m \in S : n <= m
<1> DEFINE T == {1..n : n \in S}
<1>1. T \subseteq FiniteSubsetsOf(Nat) /\ T # {}
  <2>1. \A n \in S : 1..n \in SUBSET Nat /\ IsFiniteSet(1..n)
    BY FS_Interval
  <2>2. QED
    BY <2>1 DEF FiniteSubsetsOf
<1>2. PICK x \in T : \A y \in T : ~(<<y, x>> \in StrictSubsetOrdering(Nat))
  <2>1. IsWellFoundedOn(StrictSubsetOrdering(Nat), FiniteSubsetsOf(Nat))
    BY FS_StrictSubsetOrderingWellFounded
  <2> HIDE DEF T
  <2>2. QED
    BY <1>1, <2>1, WFMin
<1>3. PICK n \in S : x = 1..n
  OBVIOUS
<1>4. ASSUME NEW m \in S, ~(n <= m) PROVE FALSE
  <2>1. 1..m \in T /\ 1..m \subseteq 1..n /\ n \in Nat /\ m \in Nat
    BY <1>4
  <2>2. n \in 1..n /\ n \notin 1..m
    BY <1>4, <2>1
  <2>3. <<1..m, x>> \in StrictSubsetOrdering(Nat)
    BY <1>3, <2>1, <2>2 DEF StrictSubsetOrdering
  <2>4. QED
    BY <1>2, <2>1, <2>3
<1>5. QED
  BY <1>4

(* Induction, for a set of numbers. *)
LEMMA AllIndices ==
    ASSUME NEW N \in Nat, NEW T, 0 \in T, \A i \in 1..N : i - 1 \in T => i \in T
    PROVE  \A i \in 0..N : i \in T
<1> DEFINE Missing == {i \in 0..N : i \notin T}
<1>1. SUFFICES ASSUME Missing # {} PROVE FALSE
  OBVIOUS
<1>2. PICK n \in Missing : \A m \in Missing : n <= m
  <2>1. Missing \subseteq Nat
    OBVIOUS
  <2> HIDE DEF Missing
  <2>2. QED
    BY <1>1, <2>1, LeastExists
<1>3. n \in 1..N /\ n - 1 \in 0..N
  BY <1>2
<1>4. n - 1 \notin Missing
  BY <1>2, <1>3
<1>5. QED
  BY <1>2, <1>3, <1>4

(* A function can be given by its first value and a step. *)
Follows(f, N, b, g) == f[0] = b /\ \A i \in 1..N : f[i] = g[i][f[i - 1]]

LEMMA RecursionExists ==
    ASSUME NEW N \in Nat, NEW S, NEW b \in S, NEW g \in [1..N -> [S -> S]]
    PROVE  \E f \in [0..N -> S] : Follows(f, N, b, g)
<1> DEFINE Upto(n) == \E f \in [0..n -> S] : f[0] = b /\ \A i \in 1..n : f[i] = g[i][f[i - 1]]
           T == {n \in 0..N : Upto(n)}
<1>1. 0 \in T
  <2>1. [i \in 0..0 |-> b] \in [0..0 -> S] /\ [i \in 0..0 |-> b][0] = b
    OBVIOUS
  <2>2. 0 \in 0..N /\ \A i \in 1..0 : FALSE
    OBVIOUS
  <2>3. QED
    BY <2>1, <2>2
<1>2. ASSUME NEW n \in 1..N, n - 1 \in T PROVE n \in T
  <2>1. PICK f \in [0..(n - 1) -> S] : f[0] = b /\ \A i \in 1..(n - 1) : f[i] = g[i][f[i - 1]]
    BY <1>2
  <2> DEFINE h == [i \in 0..n |-> IF i = n THEN g[n][f[n - 1]] ELSE f[i]]
  <2>2. f[n - 1] \in S /\ g[n][f[n - 1]] \in S
    BY <2>1
  <2>3. h \in [0..n -> S]
    <3>1. \A i \in 0..n : i # n => i \in 0..(n - 1)
      OBVIOUS
    <3>2. QED
      BY <2>1, <2>2, <3>1
  <2>4. h[0] = b
    BY <2>1
  <2>5. ASSUME NEW i \in 1..n PROVE h[i] = g[i][h[i - 1]]
    <3>1. h[i - 1] = f[i - 1]
      OBVIOUS
    <3>2. CASE i = n
      <4>1. h[n] = g[n][f[n - 1]] /\ h[n - 1] = f[n - 1]
        BY <3>1, <3>2
      <4> HIDE DEF h
      <4>2. QED
        BY <3>2, <4>1
    <3>3. CASE i # n
      <4>1. i \in 1..(n - 1) /\ h[i] = f[i]
        BY <3>3
      <4>2. QED
        BY <2>1, <3>1, <4>1
    <3>4. QED
      BY <3>2, <3>3
  <2>6. Upto(n)
    <3> HIDE DEF h
    <3>1. QED
      BY <2>3, <2>4, <2>5
  <2>7. QED
    BY <2>6
<1>3. N \in T
  <2> HIDE DEF T
  <2>1. \A i \in 0..N : i \in T
    BY <1>1, <1>2, AllIndices
  <2>2. QED
    BY <2>1
<1>4. QED
  BY <1>3 DEF Follows

-----------------------------------------------------------------------------
(* The numbers on the wire. *)

LEMMA DivisionByBase ==
    ASSUME NEW n \in Nat
    PROVE  /\ n \div Base \in Nat /\ n % Base \in Byte
           /\ (n \div Base) * Base + (n % Base) = n
<1>1. Base \in Nat /\ Base > 0
  BY WireAssumption
<1>2. n \div Base \in Nat
  BY <1>1
<1>3. n % Base \in Byte
  BY <1>1 DEF Byte
<1>4. n % Base = n - Base * (n \div Base)
  BY <1>1
<1>5. (n \div Base) * Base + (n % Base) = n
  BY <1>1, <1>2, <1>4
<1>6. QED
  BY <1>2, <1>3, <1>5

LEMMA ShiftedIs ==
    ASSUME NEW n \in Nat
    PROVE  /\ Shifted(n) \in [0..Width -> Nat] /\ Shifted(n)[0] = n
           /\ \A i \in 1..Width : Shifted(n)[i] = Shifted(n)[i - 1] \div Base
<1> DEFINE g == [i \in 1..Width |-> [m \in Nat |-> m \div Base]]
<1>1. Width \in Nat
  BY WireAssumption
<1>2. g \in [1..Width -> [Nat -> Nat]]
  BY DivisionByBase
<1>3. PICK f \in [0..Width -> Nat] : f[0] = n /\ \A i \in 1..Width : f[i] = g[i][f[i - 1]]
  <2> HIDE DEF g
  <2>1. \E f \in [0..Width -> Nat] : Follows(f, Width, n, g)
    BY <1>1, <1>2, RecursionExists, Zenon
  <2>2. QED
    BY <2>1 DEF Follows
<1>4. \A i \in 1..Width : f[i] = f[i - 1] \div Base
  <2>1. \A i \in 1..Width : f[i - 1] \in Nat
    BY <1>1
  <2>2. QED
    BY <1>3, <2>1
<1>5. f = [i \in 0..Width |-> IF i = 0 THEN n ELSE f[i - 1] \div Base]
  <2>1. \A i \in 0..Width : i # 0 => i \in 1..Width
    BY <1>1
  <2>2. QED
    BY <1>3, <1>4, <2>1
<1> DEFINE s == Shifted(n)
<1>6. s = [i \in 0..Width |-> IF i = 0 THEN n ELSE s[i - 1] \div Base]
  BY <1>5 DEF Shifted
<1> HIDE DEF s
<1>7. s[0] = n /\ \A i \in 1..Width : s[i] = s[i - 1] \div Base
  <2>1. 0 \in 0..Width /\ \A i \in 1..Width : i \in 0..Width /\ i # 0
    BY <1>1
  <2>2. QED
    BY <1>6, <2>1, Zenon
<1>8. \A i \in 0..Width : s[i] = f[i]
  <2> DEFINE T == {i \in 0..Width : s[i] = f[i]}
  <2>1. 0 \in T
    BY <1>1, <1>3, <1>7
  <2>2. \A i \in 1..Width : i - 1 \in T => i \in T
    BY <1>1, <1>4, <1>7
  <2> HIDE DEF T
  <2>3. \A i \in 0..Width : i \in T
    BY <1>1, <2>1, <2>2, AllIndices
  <2>4. QED
    BY <2>3 DEF T
<1>9. s = f
  BY <1>6, <1>8
<1>10. QED
  BY <1>7, <1>9 DEF s

(* The value of bytes, by its recurrence. *)
LEMMA ValueIs ==
    ASSUME NEW bytes \in Seq(Byte), NEW f \in [0..Len(bytes) -> Nat], f[0] = 0,
           \A i \in 1..Len(bytes) : f[i] = f[i - 1] * Base + bytes[i]
    PROVE  readI32(bytes) = f[Len(bytes)]
<1> DEFINE N == Len(bytes)
           v == CHOOSE h : h = [i \in 0..N |-> IF i = 0 THEN 0 ELSE h[i - 1] * Base + bytes[i]]
<1>1. N \in Nat
  OBVIOUS
<1>2. f = [i \in 0..N |-> IF i = 0 THEN 0 ELSE f[i - 1] * Base + bytes[i]]
  <2>1. \A i \in 0..N : i # 0 => i \in 1..N
    BY <1>1
  <2>2. QED
    BY <2>1
<1>3. v = [i \in 0..N |-> IF i = 0 THEN 0 ELSE v[i - 1] * Base + bytes[i]]
  BY <1>2
<1>4. readI32(bytes) = v[N]
  BY DEF readI32
<1> HIDE DEF v
<1>5. v[0] = 0 /\ \A i \in 1..N : v[i] = v[i - 1] * Base + bytes[i]
  <2>1. 0 \in 0..N /\ \A i \in 1..N : i \in 0..N /\ i # 0
    BY <1>1
  <2>2. QED
    BY <1>3, <2>1, Zenon
<1>6. \A i \in 0..N : v[i] = f[i]
  <2> DEFINE T == {i \in 0..N : v[i] = f[i]}
  <2>1. 0 \in T
    BY <1>1, <1>5
  <2>2. \A i \in 1..N : i - 1 \in T => i \in T
    BY <1>1, <1>5
  <2> HIDE DEF T
  <2>3. \A i \in 0..N : i \in T
    BY <1>1, <2>1, <2>2, AllIndices
  <2>4. QED
    BY <2>3 DEF T
<1>7. QED
  BY <1>1, <1>4, <1>6

(* The value of the bytes up to each of them. *)
LEMMA ValueExists ==
    ASSUME NEW bytes \in Seq(Byte)
    PROVE  \E f \in [0..Len(bytes) -> Nat] :
               /\ f[0] = 0 /\ \A i \in 1..Len(bytes) : f[i] = f[i - 1] * Base + bytes[i]
               /\ readI32(bytes) = f[Len(bytes)]
<1> DEFINE g == [i \in 1..Len(bytes) |-> [m \in Nat |-> m * Base + bytes[i]]]
<1>1. Len(bytes) \in Nat /\ 0 \in Nat
  OBVIOUS
<1>2. g \in [1..Len(bytes) -> [Nat -> Nat]]
  <2>1. ASSUME NEW i \in 1..Len(bytes), NEW m \in Nat PROVE m * Base + bytes[i] \in Nat
    <3>1. bytes[i] \in Nat
      BY WireAssumption DEF Byte
    <3>2. m * Base \in Nat
      BY WireAssumption
    <3>3. QED
      BY <3>1, <3>2
  <2>2. QED
    BY <2>1
<1>3. PICK f \in [0..Len(bytes) -> Nat] : Follows(f, Len(bytes), 0, g)
  <2> HIDE DEF g
  <2>1. QED
    BY <1>1, <1>2, RecursionExists, Zenon
<1>4. f[0] = 0 /\ \A i \in 1..Len(bytes) : f[i] = f[i - 1] * Base + bytes[i]
  <2>1. \A i \in 1..Len(bytes) : f[i - 1] \in Nat
    BY <1>1
  <2>2. QED
    BY <1>3, <2>1 DEF Follows
<1>5. readI32(bytes) = f[Len(bytes)]
  BY <1>4, ValueIs
<1>6. QED
  BY <1>4, <1>5

LEMMA ValueIsNat ==
    ASSUME NEW bytes \in Seq(Byte)
    PROVE  readI32(bytes) \in Nat
<1>1. PICK f \in [0..Len(bytes) -> Nat] : readI32(bytes) = f[Len(bytes)]
  BY ValueExists
<1>2. QED
  BY <1>1

(* Smaller digits make a smaller number. *)
LEMMA ValueGrows ==
    ASSUME NEW s \in Seq(Byte), NEW t \in Seq(Byte), Len(s) = Len(t), \A i \in 1..Len(s) : s[i] <= t[i]
    PROVE  readI32(s) <= readI32(t)
<1>1. PICK f \in [0..Len(s) -> Nat] :
          /\ f[0] = 0 /\ \A i \in 1..Len(s) : f[i] = f[i - 1] * Base + s[i]
          /\ readI32(s) = f[Len(s)]
  BY ValueExists
<1>2. PICK g \in [0..Len(t) -> Nat] :
          /\ g[0] = 0 /\ \A i \in 1..Len(t) : g[i] = g[i - 1] * Base + t[i]
          /\ readI32(t) = g[Len(t)]
  BY ValueExists
<1> DEFINE N == Len(s)
           T == {i \in 0..N : f[i] <= g[i]}
<1>3. N \in Nat /\ 0 \in T /\ N \in 0..N
  BY <1>1, <1>2
<1>4. ASSUME NEW i \in 1..N, i - 1 \in T PROVE i \in T
  <2> DEFINE a == f[i - 1]
             b == g[i - 1]
  <2>1. /\ a \in Nat /\ b \in Nat /\ a <= b /\ s[i] <= t[i] /\ s[i] \in Nat /\ t[i] \in Nat
        /\ i \in 0..N
    <3>1. i \in 0..N /\ i - 1 \in 0..N /\ a <= b
      BY <1>3, <1>4
    <3>2. a \in Nat /\ b \in Nat
      BY <3>1
    <3>3. s[i] \in Byte /\ t[i] \in Byte /\ s[i] <= t[i]
      OBVIOUS
    <3>4. QED
      BY <3>1, <3>2, <3>3, WireAssumption DEF Byte
  <2>2. f[i] = a * Base + s[i] /\ g[i] = b * Base + t[i]
    BY <1>1, <1>2
  <2> HIDE DEF a, b
  <2>3. a * Base <= b * Base /\ a * Base \in Nat /\ b * Base \in Nat
    <3>1. \A x, y, z \in Nat : x <= y => x * z <= y * z /\ x * z \in Nat /\ y * z \in Nat
      OBVIOUS
    <3>2. Base \in Nat
      BY WireAssumption
    <3>3. QED
      BY <2>1, <3>1, <3>2
  <2>4. f[i] <= g[i]
    BY <2>1, <2>2, <2>3
  <2>5. QED
    BY <2>1, <2>4
<1> HIDE DEF T
<1>5. N \in T
  BY <1>3, <1>4, AllIndices
<1>6. QED
  BY <1>1, <1>2, <1>5 DEF T

LEMMA DigitsAre ==
    ASSUME NEW n \in Nat
    PROVE  Digits(n) \in Seq(Byte) /\ Len(Digits(n)) = Width
<1>1. Width \in Nat
  BY WireAssumption
<1>2. \A i \in 1..Width : Shifted(n)[Width - i] % Base \in Byte
  <2>1. TAKE i \in 1..Width
  <2>2. Shifted(n)[Width - i] \in Nat
    BY <1>1, ShiftedIs
  <2>3. QED
    BY <2>2, DivisionByBase
<1>3. Digits(n) \in [1..Width -> Byte]
  BY <1>2 DEF Digits
<1>4. QED
  BY <1>1, <1>3

(* nsqd writes numbers and the readers read them: the same numbers.        *)
LEMMA RoundTrip ==
    ASSUME NEW n, Fits(n)
    PROVE  readI32(Digits(n)) = n
<1>1. n \in Nat /\ Shifted(n)[Width] = 0 /\ Width \in Nat
  BY WireAssumption DEF Fits
<1>2. Digits(n) \in Seq(Byte) /\ Len(Digits(n)) = Width
  BY <1>1, DigitsAre
<1> DEFINE f == [i \in 0..Width |-> Shifted(n)[Width - i]]
<1>3. f \in [0..Width -> Nat] /\ f[0] = 0 /\ f[Width] = n
  <2>1. Shifted(n) \in [0..Width -> Nat] /\ Shifted(n)[0] = n
    BY <1>1, ShiftedIs
  <2>2. \A i \in 0..Width : Width - i \in 0..Width
    BY <1>1
  <2>3. 0 \in 0..Width /\ Width \in 0..Width /\ Width - 0 = Width /\ Width - Width = 0
    BY <1>1
  <2>4. QED
    BY <1>1, <2>1, <2>2, <2>3
<1>4. ASSUME NEW i \in 1..Width PROVE f[i] = f[i - 1] * Base + Digits(n)[i]
  <2> DEFINE m == Shifted(n)[Width - i]
  <2>1. f[i] = m /\ Digits(n)[i] = m % Base
    BY <1>1 DEF Digits
  <2>2. m \in Nat
    BY <1>1, ShiftedIs
  <2>3. f[i - 1] = m \div Base
    <3>1. Width - (i - 1) \in 1..Width /\ Width - (i - 1) - 1 = Width - i /\ i - 1 \in 0..Width
      BY <1>1
    <3>2. Shifted(n)[Width - (i - 1)] = Shifted(n)[Width - i] \div Base
      BY <1>1, <3>1, ShiftedIs
    <3>3. QED
      BY <3>1, <3>2
  <2> HIDE DEF m, f
  <2>4. QED
    BY <2>1, <2>2, <2>3, DivisionByBase
<1> HIDE DEF f
<1>5. QED
  BY <1>2, <1>3, <1>4, ValueIs

LEMMA SizeRead ==
    ASSUME NEW n, Fits(n)
    PROVE  SizeIn(Digits(n)) = n
<1>1. Digits(n) \in Seq(Byte) /\ Len(Digits(n)) = Width
  BY DigitsAre DEF Fits
<1>2. Width - Len(Digits(n)) = 0
  BY <1>1, WireAssumption
<1>3. Zeros(0) = <<>>
  BY DEF Zeros
<1>4. Digits(n) \o Zeros(Width - Len(Digits(n))) = Digits(n)
  BY <1>1, <1>2, <1>3
<1>5. QED
  BY <1>4, RoundTrip DEF SizeIn

LEMMA ZerosAre ==
    ASSUME NEW n \in Nat
    PROVE  Zeros(n) \in Seq(Byte) /\ Len(Zeros(n)) = n /\ \A i \in 1..n : Zeros(n)[i] = 0
  BY WireAssumption DEF Zeros, Byte

LEMMA SizeIsNat ==
    ASSUME NEW bytes \in Seq(Byte), Len(bytes) <= Width
    PROVE  SizeIn(bytes) \in Nat
<1>1. Width - Len(bytes) \in Nat
  BY WireAssumption
<1>2. bytes \o Zeros(Width - Len(bytes)) \in Seq(Byte)
  BY <1>1, ZerosAre
<1>3. QED
  BY <1>2, ValueIsNat DEF SizeIn

(* Of a size that is not all there, the reader makes no larger one.       *)
LEMMA SizeOfFront ==
    ASSUME NEW n, Fits(n), NEW k \in 0..Width
    PROVE  SizeIn(SubSeq(Digits(n), 1, k)) <= n
<1>1. /\ n \in Nat /\ Width \in Nat /\ Digits(n) \in Seq(Byte) /\ Len(Digits(n)) = Width
      /\ readI32(Digits(n)) = n
  BY DigitsAre, RoundTrip, WireAssumption DEF Fits
<1> DEFINE front == SubSeq(Digits(n), 1, k)
           zeros == Zeros(Width - k)
<1>2. /\ front \in Seq(Byte) /\ Len(front) = k
      /\ \A i \in 1..k : front[i] = Digits(n)[i]
  BY <1>1
<1>3. zeros \in Seq(Byte) /\ Len(zeros) = Width - k /\ \A i \in 1..(Width - k) : zeros[i] = 0
  <2>1. Width - k \in Nat
    BY <1>1
  <2>2. QED
    BY <2>1, ZerosAre
<1>4. /\ front \o zeros \in Seq(Byte) /\ Len(front \o zeros) = Width
      /\ \A i \in 1..Width : (front \o zeros)[i] <= Digits(n)[i]
  <2> HIDE DEF front, zeros
  <2>1. /\ front \o zeros \in Seq(Byte) /\ Len(front \o zeros) = Width
        /\ \A i \in 1..k : (front \o zeros)[i] = front[i]
        /\ \A i \in 1..(Width - k) : (front \o zeros)[k + i] = zeros[i]
    BY <1>1, <1>2, <1>3
  <2>2. \A i \in 1..Width : Digits(n)[i] \in Nat
    <3>1. \A i \in 1..Width : Digits(n)[i] \in Byte
      BY <1>1
    <3>2. QED
      BY <3>1, WireAssumption DEF Byte
  <2>3. ASSUME NEW i \in 1..Width PROVE (front \o zeros)[i] <= Digits(n)[i]
    <3>1. CASE i <= k
      <4>1. i \in 1..k
        BY <3>1
      <4>2. (front \o zeros)[i] = Digits(n)[i] /\ Digits(n)[i] \in Nat
        BY <1>2, <2>1, <2>2, <4>1
      <4>3. QED
        BY <4>2
    <3>2. CASE ~(i <= k)
      <4> DEFINE m == i - k
      <4>1. m \in 1..(Width - k) /\ i = k + m
        BY <1>1, <3>2
      <4> HIDE DEF m
      <4>2. (front \o zeros)[i] = 0
        BY <1>3, <2>1, <4>1
      <4>3. QED
        BY <2>2, <4>2
    <3>3. QED
      BY <3>1, <3>2
  <2>4. QED
    BY <2>1, <2>3
<1> HIDE DEF front, zeros
<1>5. readI32(front \o zeros) <= n
  BY <1>1, <1>4, ValueGrows
<1>6. SizeIn(front) = readI32(front \o zeros)
  BY <1>2 DEF SizeIn, zeros
<1>7. QED
  BY <1>5, <1>6 DEF front

(* Nothing read is a size of zero. *)
LEMMA NoSize == SizeIn(<<>>) = 0
<1>1. Width \in Nat /\ Width - Len(<<>>) = Width
  BY WireAssumption
<1>2. Zeros(Width) \in Seq(Byte) /\ Len(Zeros(Width)) = Width /\ \A i \in 1..Width : Zeros(Width)[i] = 0
  BY <1>1, ZerosAre
<1>3. <<>> \o Zeros(Width) = Zeros(Width)
  BY <1>2
<1> DEFINE f == [i \in 0..Width |-> 0]
<1>4. f \in [0..Width -> Nat] /\ f[0] = 0 /\ f[Width] = 0
  BY <1>1
<1>5. \A i \in 1..Width : f[i] = f[i - 1] * Base + Zeros(Width)[i]
  <2>1. 0 * Base = 0
    BY WireAssumption
  <2>2. \A i \in 1..Width : f[i] = 0 /\ f[i - 1] = 0
    BY <1>1
  <2> HIDE DEF f
  <2>3. QED
    BY <1>2, <2>1, <2>2
<1>6. readI32(Zeros(Width)) = 0
  <2> HIDE DEF f
  <2>1. QED
    BY <1>2, <1>4, <1>5, ValueIs
<1>7. QED
  BY <1>1, <1>3, <1>6 DEF SizeIn

-----------------------------------------------------------------------------
(* Bytes and frames. *)

LEMMA BytesJoined ==
    ASSUME NEW s \in Seq(Byte), NEW t \in Seq(Byte)
    PROVE  /\ s \o t \in Seq(Byte) /\ Len(s \o t) = Len(s) + Len(t)
           /\ \A i \in 1..Len(s) : (s \o t)[i] = s[i]
           /\ \A i \in 1..Len(t) : (s \o t)[Len(s) + i] = t[i]
  OBVIOUS

LEMMA JoinedTwice ==
    ASSUME NEW a \in Seq(Byte), NEW b \in Seq(Byte), NEW c \in Seq(Byte)
    PROVE  (a \o b) \o c = a \o (b \o c)
  OBVIOUS

LEMMA NoneJoined == \A a \in Seq(Byte) : <<>> \o a = a /\ a \o <<>> = a /\ <<>> \in Seq(Byte)
  OBVIOUS

(* Pieces of what has arrived. *)
LEMMA Piece ==
    ASSUME NEW s \in Seq(Byte), NEW m \in 1..(Len(s) + 1), NEW n \in 0..Len(s)
    PROVE  /\ SubSeq(s, m, n) \in Seq(Byte)
           /\ Len(SubSeq(s, m, n)) = IF m <= n THEN n - m + 1 ELSE 0
           /\ \A i \in 1..Len(SubSeq(s, m, n)) : SubSeq(s, m, n)[i] = s[m + i - 1]
<1>1. Len(s) \in Nat /\ m \in Nat /\ n \in Nat
  OBVIOUS
<1>2. CASE m <= n
  <2>1. SubSeq(s, m, n) = [i \in 1..(n - m + 1) |-> s[m + i - 1]]
    BY <1>1, <1>2
  <2>2. \A i \in 1..(n - m + 1) : m + i - 1 \in 1..Len(s)
    BY <1>1, <1>2
  <2>3. SubSeq(s, m, n) \in Seq(Byte) /\ Len(SubSeq(s, m, n)) = n - m + 1
    BY <1>1, <1>2, <2>1, <2>2
  <2>4. QED
    BY <1>2, <2>1, <2>3
<1>3. CASE m > n
  <2>1. SubSeq(s, m, n) = <<>>
    BY <1>1, <1>3
  <2>2. QED
    BY <1>1, <1>3, <2>1
<1>4. QED
  BY <1>1, <1>2, <1>3

(* Two readings of one sequence. *)
LEMMA SameBytes ==
    ASSUME NEW s \in Seq(Byte), NEW t \in Seq(Byte), Len(s) = Len(t), \A i \in 1..Len(s) : s[i] = t[i]
    PROVE  s = t
  OBVIOUS

(* What is read, and what is left. *)
LEMMA CutInTwo ==
    ASSUME NEW s \in Seq(Byte), NEW n \in 0..Len(s)
    PROVE  /\ SubSeq(s, 1, n) \in Seq(Byte) /\ Len(SubSeq(s, 1, n)) = n
           /\ SubSeq(s, n + 1, Len(s)) \in Seq(Byte) /\ Len(SubSeq(s, n + 1, Len(s))) = Len(s) - n
           /\ s = SubSeq(s, 1, n) \o SubSeq(s, n + 1, Len(s))
<1> DEFINE a == SubSeq(s, 1, n)
           b == SubSeq(s, n + 1, Len(s))
<1>1. n \in Nat /\ Len(s) \in Nat /\ n <= Len(s) /\ 1 \in 1..(Len(s) + 1) /\ n + 1 \in 1..(Len(s) + 1) /\ Len(s) \in 0..Len(s)
  OBVIOUS
<1>2. /\ a \in Seq(Byte) /\ Len(a) = IF 1 <= n THEN n - 1 + 1 ELSE 0
      /\ \A i \in 1..Len(a) : a[i] = s[1 + i - 1]
  BY <1>1, Piece
<1>3. /\ b \in Seq(Byte) /\ Len(b) = IF n + 1 <= Len(s) THEN Len(s) - (n + 1) + 1 ELSE 0
      /\ \A i \in 1..Len(b) : b[i] = s[(n + 1) + i - 1]
  BY <1>1, Piece
<1> HIDE DEF a, b
<1>4. Len(a) = n /\ Len(b) = Len(s) - n
  BY <1>1, <1>2, <1>3
<1>5. /\ a \o b \in Seq(Byte) /\ Len(a \o b) = n + Len(b)
      /\ \A i \in 1..n : (a \o b)[i] = a[i]
      /\ \A i \in 1..Len(b) : (a \o b)[n + i] = b[i]
  BY <1>2, <1>3, <1>4, BytesJoined
<1>6. \A i \in 1..Len(s) : s[i] = (a \o b)[i]
  <2>1. ASSUME NEW i \in 1..Len(s) PROVE s[i] = (a \o b)[i]
    <3>1. CASE i <= n
      <4>1. i \in 1..n /\ 1 + i - 1 = i
        BY <1>1, <3>1
      <4>2. QED
        BY <1>2, <1>4, <1>5, <4>1
    <3>2. CASE ~(i <= n)
      <4> DEFINE j == i - n
      <4>1. j \in 1..Len(b) /\ i = n + j /\ (n + 1) + j - 1 = i
        BY <1>1, <1>4, <3>2
      <4> HIDE DEF j
      <4>2. QED
        BY <1>3, <1>5, <4>1
    <3>3. QED
      BY <3>1, <3>2
  <2>2. QED
    BY <2>1
<1>7. s = a \o b
  <2>1. Len(s) = Len(a \o b)
    BY <1>1, <1>4, <1>5
  <2>2. QED
    BY <1>5, <1>6, <2>1, SameBytes
<1>8. QED
  BY <1>2, <1>3, <1>4, <1>7 DEF a, b

(* Where two cuts are at the same place, both parts are the same.          *)
LEMMA SameParts ==
    ASSUME NEW a \in Seq(Byte), NEW x \in Seq(Byte), NEW b \in Seq(Byte), NEW y \in Seq(Byte),
           Len(a) = Len(b), a \o x = b \o y
    PROVE  a = b /\ x = y
<1>1. /\ Len(a \o x) = Len(a) + Len(x)
      /\ \A i \in 1..Len(a) : (a \o x)[i] = a[i]
      /\ \A i \in 1..Len(x) : (a \o x)[Len(a) + i] = x[i]
  BY BytesJoined
<1>2. /\ Len(b \o y) = Len(b) + Len(y)
      /\ \A i \in 1..Len(b) : (b \o y)[i] = b[i]
      /\ \A i \in 1..Len(y) : (b \o y)[Len(b) + i] = y[i]
  BY BytesJoined
<1>3. Len(a) \in Nat /\ Len(x) \in Nat /\ Len(y) \in Nat
  OBVIOUS
<1>4. Len(x) = Len(y)
  BY <1>1, <1>2, <1>3
<1>5. a = b
  BY <1>1, <1>2, SameBytes
<1>6. \A i \in 1..Len(x) : x[i] = y[i]
  BY <1>1, <1>2, <1>4
<1>7. QED
  BY <1>4, <1>5, <1>6, SameBytes

LEMMA EncodingIs ==
    ASSUME NEW f, IsFrame(f)
    PROVE  /\ f.type \in 0..2 /\ f.data \in Seq(Byte) /\ FrameSize(f) \in Nat /\ FrameSize(f) >= Width
           /\ Fits(f.type) /\ Fits(FrameSize(f))
           /\ Encode(f) \in Seq(Byte) /\ Len(Encode(f)) = Width + FrameSize(f)
           /\ \A i \in 1..Width : Encode(f)[i] = Digits(FrameSize(f))[i]
           /\ \A i \in 1..Width : Encode(f)[Width + i] = Digits(f.type)[i]
           /\ \A i \in 1..Len(f.data) : Encode(f)[Width + Width + i] = f.data[i]
<1>1. f.type \in 0..2 /\ f.data \in Seq(Byte) /\ Fits(f.type) /\ Fits(FrameSize(f)) /\ Width \in Nat
  BY WireAssumption DEF IsFrame
<1>2. Len(f.data) \in Nat /\ FrameSize(f) = Width + Len(f.data)
  BY <1>1 DEF FrameSize
<1>3. FrameSize(f) \in Nat /\ FrameSize(f) >= Width
  BY <1>1, <1>2
<1> DEFINE a == Digits(FrameSize(f))
           b == Digits(f.type)
<1>4. a \in Seq(Byte) /\ Len(a) = Width /\ b \in Seq(Byte) /\ Len(b) = Width
  BY <1>1, <1>3, DigitsAre DEF Fits
<1>5. Encode(f) = a \o b \o f.data
  BY DEF Encode
<1> HIDE DEF a, b
<1> DEFINE ab == a \o b
<1>6. /\ ab \in Seq(Byte) /\ Len(ab) = Len(a) + Len(b)
      /\ \A i \in 1..Len(a) : ab[i] = a[i]
      /\ \A i \in 1..Len(b) : ab[Len(a) + i] = b[i]
  BY <1>4, BytesJoined, Zenon
<1>7. Encode(f) = ab \o f.data
  BY <1>5
<1> HIDE DEF ab
<1>8. /\ Encode(f) \in Seq(Byte) /\ Len(Encode(f)) = Len(ab) + Len(f.data)
      /\ \A i \in 1..Len(ab) : Encode(f)[i] = ab[i]
      /\ \A i \in 1..Len(f.data) : Encode(f)[Len(ab) + i] = f.data[i]
  <2> DEFINE data == f.data
  <2>1. data \in Seq(Byte)
    BY <1>1
  <2> HIDE DEF data
  <2>2. /\ ab \o data \in Seq(Byte) /\ Len(ab \o data) = Len(ab) + Len(data)
        /\ \A i \in 1..Len(ab) : (ab \o data)[i] = ab[i]
        /\ \A i \in 1..Len(data) : (ab \o data)[Len(ab) + i] = data[i]
    BY <1>6, <2>1, BytesJoined, Zenon
  <2>3. QED
    BY <1>7, <2>2, Zenon DEF data
<1>9. Len(ab) = Width + Width /\ Len(Encode(f)) = Width + FrameSize(f)
  <2>1. Len(ab) = Width + Width
    BY <1>4, <1>6
  <2>2. Len(Encode(f)) = Width + Width + Len(f.data)
    BY <1>8, <2>1
  <2> DEFINE n == Len(f.data)
             e == Len(Encode(f))
             z == FrameSize(f)
  <2>3. Width \in Nat /\ n \in Nat /\ z = Width + n /\ e = Width + Width + n
    BY <1>1, <1>2, <2>2
  <2> HIDE DEF n, e, z
  <2>4. e = Width + z
    BY <2>3
  <2>5. QED
    BY <2>1, <2>4 DEF e, z
<1>10. ASSUME NEW i \in 1..Width PROVE Encode(f)[i] = a[i] /\ Encode(f)[Width + i] = b[i]
  <2>1. i \in 1..Len(ab) /\ Width + i \in 1..Len(ab) /\ i \in 1..Len(a) /\ i \in 1..Len(b)
    BY <1>1, <1>4, <1>9
  <2>2. Encode(f)[i] = ab[i] /\ Encode(f)[Width + i] = ab[Width + i]
    BY <1>8, <2>1
  <2>3. ab[i] = a[i] /\ ab[Width + i] = b[i]
    BY <1>4, <1>6, <2>1
  <2>4. QED
    BY <2>2, <2>3
<1>11. \A i \in 1..Len(f.data) : Encode(f)[Width + Width + i] = f.data[i]
  BY <1>8, <1>9
<1>12. QED
  BY <1>1, <1>3, <1>8, <1>9, <1>10, <1>11 DEF a, b

-----------------------------------------------------------------------------
(* Sequences put together. *)

LEMMA FlattenIs ==
    ASSUME NEW A, NEW n \in Nat, NEW s \in [1..n -> Seq(A)], NEW f \in [0..n -> Seq(A)],
           f[0] = <<>>, \A i \in 1..n : f[i] = f[i - 1] \o s[i]
    PROVE  FlattenSeq(s) = f[n]
<1>1. s \in Seq(Seq(A)) /\ Len(s) = n
  OBVIOUS
<1>2. CASE n = 0
  <2>1. s = <<>>
    BY <1>1, <1>2
  <2>2. QED
    BY <1>1, <1>2, <2>1 DEF FlattenSeq
<1>3. CASE n # 0
  <2> DEFINE v == CHOOSE h : h = [i \in 1..n |-> IF i = 1 THEN s[i] ELSE h[i - 1] \o s[i]]
             h0 == [i \in 1..n |-> f[i]]
  <2>1. f[1] = s[1]
    <3>1. 1 \in 1..n /\ f[1 - 1] = <<>> /\ s[1] \in Seq(A)
      BY <1>3
    <3>2. <<>> \o s[1] = s[1]
      BY <3>1
    <3>3. QED
      BY <3>1, <3>2
  <2>2. h0 = [i \in 1..n |-> IF i = 1 THEN s[i] ELSE h0[i - 1] \o s[i]]
    <3>1. ASSUME NEW i \in 1..n PROVE h0[i] = IF i = 1 THEN s[i] ELSE h0[i - 1] \o s[i]
      <4>1. CASE i = 1
        BY <2>1, <4>1
      <4>2. CASE i # 1
        <5>1. i - 1 \in 1..n /\ h0[i - 1] = f[i - 1]
          BY <4>2
        <5>2. QED
          BY <4>2, <5>1
      <4>3. QED
        BY <4>1, <4>2
    <3>2. QED
      BY <3>1
  <2>3. v = [i \in 1..n |-> IF i = 1 THEN s[i] ELSE v[i - 1] \o s[i]]
    <3> HIDE DEF h0
    <3>1. QED
      BY <2>2
  <2>4. FlattenSeq(s) = v[n]
    BY <1>1, <1>3 DEF FlattenSeq
  <2> HIDE DEF v
  <2>5. v[1] = s[1] /\ \A i \in 2..n : v[i] = v[i - 1] \o s[i]
    <3>1. 1 \in 1..n /\ \A i \in 2..n : i \in 1..n /\ i # 1
      BY <1>3
    <3>2. QED
      BY <2>3, <3>1, Zenon
  <2>6. \A i \in 0..n : i = 0 \/ v[i] = f[i]
    <3> DEFINE T == {i \in 0..n : i = 0 \/ v[i] = f[i]}
    <3>1. 0 \in T
      OBVIOUS
    <3>2. ASSUME NEW i \in 1..n, i - 1 \in T PROVE i \in T
      <4>1. CASE i = 1
        BY <2>1, <2>5, <4>1
      <4>2. CASE i # 1
        <5>1. i \in 2..n /\ i - 1 # 0
          BY <4>2
        <5>2. v[i - 1] = f[i - 1] /\ v[i] = v[i - 1] \o s[i] /\ f[i] = f[i - 1] \o s[i]
          BY <2>5, <3>2, <5>1
        <5>3. v[i] = f[i]
          BY <5>2, Zenon
        <5>4. i \in 0..n
          OBVIOUS
        <5>5. QED
          BY <5>3, <5>4
      <4>3. QED
        BY <4>1, <4>2
    <3> HIDE DEF T
    <3>3. \A i \in 0..n : i \in T
      BY <3>1, <3>2, AllIndices
    <3>4. QED
      BY <3>3 DEF T
  <2>7. QED
    BY <1>3, <2>4, <2>6
<1>4. QED
  BY <1>2, <1>3

(* It is put together from the left. *)
LEMMA FlattenLast ==
    ASSUME NEW A, NEW n \in Nat, NEW s \in [1..n -> Seq(A)]
    PROVE  /\ FlattenSeq(s) \in Seq(A)
           /\ n = 0 => FlattenSeq(s) = <<>>
           /\ n # 0 => FlattenSeq(s) = FlattenSeq([i \in 1..(n - 1) |-> s[i]]) \o s[n]
<1> DEFINE g == [i \in 1..n |-> [t \in Seq(A) |-> t \o s[i]]]
<1>1. g \in [1..n -> [Seq(A) -> Seq(A)]] /\ <<>> \in Seq(A)
  OBVIOUS
<1>2. PICK f \in [0..n -> Seq(A)] : Follows(f, n, <<>>, g)
  <2> HIDE DEF g
  <2>1. QED
    BY <1>1, RecursionExists, Zenon
<1>3. f[0] = <<>> /\ \A i \in 1..n : f[i] = f[i - 1] \o s[i]
  <2>1. \A i \in 1..n : f[i - 1] \in Seq(A)
    OBVIOUS
  <2>2. QED
    BY <1>2, <2>1 DEF Follows
<1> HIDE DEF g
<1>4. FlattenSeq(s) = f[n]
  BY <1>3, FlattenIs
<1>5. ASSUME n # 0 PROVE FlattenSeq([i \in 1..(n - 1) |-> s[i]]) = f[n - 1]
  <2> DEFINE m == n - 1
             s0 == [i \in 1..m |-> s[i]]
             f0 == [i \in 0..m |-> f[i]]
  <2>1. m \in Nat /\ s0 \in [1..m -> Seq(A)] /\ f0 \in [0..m -> Seq(A)]
    BY <1>5
  <2>2. f0[0] = <<>> /\ \A i \in 1..m : f0[i] = f0[i - 1] \o s0[i]
    <3>1. f0[0] = <<>>
      BY <1>3, <2>1
    <3>2. ASSUME NEW i \in 1..m PROVE f0[i] = f0[i - 1] \o s0[i]
      <4>1. i \in 1..n /\ i \in 0..m /\ i - 1 \in 0..m
        BY <1>5
      <4>2. f0[i] = f[i] /\ f0[i - 1] = f[i - 1] /\ s0[i] = s[i] /\ f[i] = f[i - 1] \o s[i]
        BY <1>3, <4>1, Zenon
      <4>3. QED
        BY <4>2, Zenon
    <3>3. QED
      BY <3>1, <3>2
  <2>3. f0[m] = f[m]
    BY <2>1
  <2> HIDE DEF m, s0, f0
  <2>4. FlattenSeq(s0) = f0[m]
    BY <2>1, <2>2, FlattenIs
  <2>5. QED
    BY <2>3, <2>4 DEF m, s0
<1>6. f[n] \in Seq(A) /\ (n # 0 => f[n] = f[n - 1] \o s[n])
  <2>1. n \in 0..n /\ (n # 0 => n \in 1..n)
    OBVIOUS
  <2>2. QED
    BY <1>3, <2>1, Zenon
<1>7. QED
  BY <1>3, <1>4, <1>5, <1>6

(* One more piece. *)
OneMore(n, s, e, t) ==
    /\ n \in Nat /\ s \in [1..n -> Seq(Byte)] /\ e \in Seq(Byte) /\ t \in [1..(n + 1) -> Seq(Byte)]
    /\ \A i \in 1..n : t[i] = s[i]
    /\ t[n + 1] = e

LEMMA FlattenMore ==
    ASSUME NEW n, NEW s, NEW e, NEW t, OneMore(n, s, e, t)
    PROVE  FlattenSeq(t) = FlattenSeq(s) \o e /\ FlattenSeq(t) \in Seq(Byte) /\ FlattenSeq(s) \in Seq(Byte)
<1> USE DEF OneMore
<1> DEFINE m == n + 1
<1>1. m \in Nat /\ m # 0 /\ m - 1 = n /\ t \in [1..m -> Seq(Byte)]
  OBVIOUS
<1>2. [i \in 1..n |-> t[i]] = s
  OBVIOUS
<1>3. FlattenSeq(s) \in Seq(Byte)
  BY FlattenLast
<1> HIDE DEF m
<1>4. FlattenSeq(t) \in Seq(Byte) /\ FlattenSeq(t) = FlattenSeq([i \in 1..(m - 1) |-> t[i]]) \o t[m]
  BY <1>1, FlattenLast, Zenon
<1>5. t[m] = e
  BY DEF m
<1>6. QED
  BY <1>1, <1>2, <1>3, <1>4, <1>5

LEMMA NothingFlat == FlattenSeq([i \in 1..0 |-> <<>>]) = <<>>
<1>1. [i \in 1..0 |-> <<>>] \in [1..0 -> Seq(Byte)] /\ 0 \in Nat
  OBVIOUS
<1>2. QED
  BY <1>1, FlattenLast, Zenon

(* The first piece is at the front. *)
LEMMA FlattenFirst ==
    ASSUME NEW n \in Nat \ {0}, NEW s \in [1..n -> Seq(Byte)]
    PROVE  /\ FlattenSeq(s) = s[1] \o FlattenSeq([i \in 1..(n - 1) |-> s[i + 1]])
           /\ FlattenSeq([i \in 1..(n - 1) |-> s[i + 1]]) \in Seq(Byte)
<1> DEFINE Upto(k) == [i \in 1..k |-> s[i]]
           Rest(k) == [i \in 1..k |-> s[i + 1]]
           T == {k \in 0..(n - 1) : FlattenSeq(Upto(k + 1)) = s[1] \o FlattenSeq(Rest(k))}
<1>0. n \in Nat /\ n >= 1 /\ s[1] \in Seq(Byte) /\ n - 1 \in Nat
  OBVIOUS
<1>1. ASSUME NEW k \in 0..n PROVE Upto(k) \in [1..k -> Seq(Byte)] /\ k \in Nat
  BY <1>0
<1>2. ASSUME NEW k \in 0..(n - 1) PROVE Rest(k) \in [1..k -> Seq(Byte)] /\ k \in Nat
  <2>1. \A i \in 1..k : i + 1 \in 1..n
    BY <1>0
  <2>2. QED
    BY <1>0, <2>1
<1>3. 0 \in T
  <2>1. Upto(0) = [i \in 1..0 |-> <<>>] /\ Rest(0) = [i \in 1..0 |-> <<>>]
    OBVIOUS
  <2>2. /\ Upto(0) \in [1..0 -> Seq(Byte)] /\ Upto(0 + 1) \in [1..(0 + 1) -> Seq(Byte)] /\ 0 \in Nat
        /\ \A i \in 1..0 : Upto(0 + 1)[i] = Upto(0)[i]
        /\ Upto(0 + 1)[0 + 1] = s[1] /\ 0 \in 0..(n - 1)
    BY <1>0, <1>1
  <2> HIDE DEF Upto, Rest
  <2>3. FlattenSeq(Upto(0 + 1)) = FlattenSeq(Upto(0)) \o s[1]
    <3>1. OneMore(0, Upto(0), s[1], Upto(0 + 1))
      BY <1>0, <2>2 DEF OneMore
    <3>2. QED
      BY <3>1, FlattenMore, Zenon
  <2>4. FlattenSeq(Upto(0 + 1)) = s[1] \o FlattenSeq(Rest(0))
    BY <1>0, <2>1, <2>3, NothingFlat, NoneJoined, Zenon
  <2>5. QED
    BY <2>2, <2>4
<1>4. ASSUME NEW k \in 1..(n - 1), k - 1 \in T PROVE k \in T
  <2>1. /\ k \in Nat /\ k + 1 \in 0..n /\ k \in 0..n /\ k \in 0..(n - 1) /\ k - 1 \in 0..(n - 1)
        /\ (k - 1) + 1 = k /\ k - 1 \in Nat /\ s[k + 1] \in Seq(Byte)
    BY <1>0
  <2>2. /\ Upto(k) \in [1..k -> Seq(Byte)] /\ Upto(k + 1) \in [1..(k + 1) -> Seq(Byte)]
        /\ \A i \in 1..k : Upto(k + 1)[i] = Upto(k)[i]
        /\ Upto(k + 1)[k + 1] = s[k + 1]
    BY <1>1, <2>1
  <2> DEFINE m == k - 1
  <2>3. /\ Rest(m) \in [1..m -> Seq(Byte)] /\ Rest(m + 1) \in [1..(m + 1) -> Seq(Byte)]
        /\ (\A i \in 1..m : Rest(m + 1)[i] = Rest(m)[i])
        /\ Rest(m + 1)[m + 1] = s[k + 1] /\ m \in Nat /\ m + 1 = k
    BY <1>2, <2>1
  <2>4. FlattenSeq(Upto(m + 1)) = s[1] \o FlattenSeq(Rest(m))
    BY <1>4
  <2>5. FlattenSeq(Upto(k + 1)) = FlattenSeq(Upto(k)) \o s[k + 1]
    <3> DEFINE x == Upto(k)
               y == Upto(k + 1)
               e == s[k + 1]
    <3>1. OneMore(k, x, e, y)
      BY <2>1, <2>2 DEF OneMore
    <3> HIDE DEF x, y, e
    <3>2. FlattenSeq(y) = FlattenSeq(x) \o e
      BY <3>1, FlattenMore, Zenon
    <3>3. QED
      BY <3>2 DEF x, y, e
  <2>6. FlattenSeq(Rest(m + 1)) = FlattenSeq(Rest(m)) \o s[k + 1] /\ FlattenSeq(Rest(m)) \in Seq(Byte)
    <3> DEFINE x == Rest(m)
               y == Rest(m + 1)
               e == s[k + 1]
    <3>1. OneMore(m, x, e, y)
      BY <2>1, <2>3 DEF OneMore
    <3> HIDE DEF x, y, e, m
    <3>2. FlattenSeq(y) = FlattenSeq(x) \o e /\ FlattenSeq(x) \in Seq(Byte)
      BY <3>1, FlattenMore, Zenon
    <3>3. QED
      BY <3>2 DEF x, y, e, m
  <2> HIDE DEF Upto, Rest, m
  <2>7. (s[1] \o FlattenSeq(Rest(m))) \o s[k + 1] = s[1] \o (FlattenSeq(Rest(m)) \o s[k + 1])
    BY <1>0, <2>1, <2>6, JoinedTwice, Zenon
  <2>8. FlattenSeq(Upto(k + 1)) = s[1] \o FlattenSeq(Rest(k))
    BY <2>3, <2>4, <2>5, <2>6, <2>7
  <2>9. QED
    BY <2>1, <2>8
<1> HIDE DEF T
<1>5. n - 1 \in T
  <2>1. \A k \in 0..(n - 1) : k \in T
    BY <1>0, <1>3, <1>4, AllIndices
  <2>2. QED
    BY <1>0, <2>1
<1>6. FlattenSeq(Upto((n - 1) + 1)) = s[1] \o FlattenSeq(Rest(n - 1))
  BY <1>5 DEF T
<1>7. Upto((n - 1) + 1) = s
  BY <1>0
<1>8. FlattenSeq(Rest(n - 1)) \in Seq(Byte)
  <2>1. Rest(n - 1) \in [1..(n - 1) -> Seq(Byte)] /\ n - 1 \in Nat
    BY <1>0, <1>2
  <2> HIDE DEF Rest
  <2>2. QED
    BY <2>1, FlattenLast
<1> HIDE DEF Upto
<1>9. QED
  BY <1>6, <1>7, <1>8

(* One piece, and what is behind it. *)
LEMMA FlattenFront ==
    ASSUME NEW x \in Seq(Byte), NEW t \in Seq(Seq(Byte))
    PROVE  /\ <<x>> \o t \in Seq(Seq(Byte)) /\ FlattenSeq(t) \in Seq(Byte)
           /\ FlattenSeq(<<x>> \o t) = x \o FlattenSeq(t)
<1> DEFINE s == <<x>> \o t
           n == Len(t) + 1
<1>1. /\ s \in Seq(Seq(Byte)) /\ n \in Nat \ {0} /\ Len(s) = n /\ s[1] = x
      /\ \A i \in 1..Len(t) : s[i + 1] = t[i]
  <2>1. Len(t) \in Nat /\ <<x>> \in Seq(Seq(Byte)) /\ Len(<<x>>) = 1 /\ <<x>>[1] = x
    OBVIOUS
  <2>2. s \in Seq(Seq(Byte)) /\ Len(s) = 1 + Len(t)
    OBVIOUS
  <2>3. s[1] = x /\ \A i \in 1..Len(t) : s[i + 1] = t[i]
    OBVIOUS
  <2>4. QED
    BY <2>1, <2>2, <2>3
<1>2. [i \in 1..(n - 1) |-> s[i + 1]] = t
  <2>1. n - 1 = Len(t) /\ t = [i \in 1..Len(t) |-> t[i]]
    OBVIOUS
  <2> HIDE DEF s, n
  <2>2. QED
    BY <1>1, <2>1
<1> HIDE DEF s, n
<1>3. s \in [1..n -> Seq(Byte)]
  BY <1>1
<1>4. FlattenSeq(s) = s[1] \o FlattenSeq(t) /\ FlattenSeq(t) \in Seq(Byte)
  BY <1>1, <1>2, <1>3, FlattenFirst
<1>5. QED
  BY <1>1, <1>4 DEF s
===============================================================================

----------------------------- MODULE EccProofs ------------------------------
(***************************************************************************)
(* The error correction does what nand.c relies on, for every half-page    *)
(* and every size up to the code's: it finds and repairs any single error, *)
(* in the data or in the ECC itself, takes no two errors for one or none,  *)
(* and never makes a good half-page bad.                                   *)
(*                                                                         *)
(* The proof is about parities: whether a set has an odd number of         *)
(* elements is linear in the symmetric difference, so what was written     *)
(* cancels out of the comparison and the flips alone are left.             *)
(***************************************************************************)
EXTENDS Ecc, FiniteSetTheorems, Induction, TLAPS

-----------------------------------------------------------------------------
(* Numbers and their digits                                                *)

\* The powers of two that occur.
LEMMA Powers ==
  /\ 2^0 = 1 /\ 2^1 = 2 /\ 2^2 = 4 /\ 2^3 = 8 /\ 2^4 = 16 /\ 2^5 = 32
  /\ 2^6 = 64 /\ 2^7 = 128 /\ 2^8 = 256 /\ 2^9 = 512 /\ 2^10 = 1024 /\ 2^11 = 2048
OBVIOUS

LEMMA EccSizes ==
  /\ RowBits \in 1 .. 8
  /\ Width \in 4 .. 11 /\ Width = RowBits + 3
  /\ Bytes \in Nat /\ Bytes >= 2 /\ Bytes <= 256
  /\ 2^Width = 8 * Bytes /\ 2^RowBits = Bytes
  /\ 8 * Bytes <= 2048
<1>1. RowBits \in 1 .. 8
  BY EccAssumption DEF EccAssumption
<1>2. CASE RowBits = 1
  <2>1. Width = 4 /\ Bytes = 2
    BY <1>2 DEF Width, Bytes
  <2> QED
    BY <1>1, <1>2, <2>1
<1>3. CASE RowBits = 2
  <2>1. Width = 5 /\ Bytes = 4
    BY <1>3 DEF Width, Bytes
  <2> QED
    BY <1>1, <1>3, <2>1
<1>4. CASE RowBits = 3
  <2>1. Width = 6 /\ Bytes = 8
    BY <1>4 DEF Width, Bytes
  <2> QED
    BY <1>1, <1>4, <2>1
<1>5. CASE RowBits = 4
  <2>1. Width = 7 /\ Bytes = 16
    BY <1>5 DEF Width, Bytes
  <2> QED
    BY <1>1, <1>5, <2>1
<1>6. CASE RowBits = 5
  <2>1. Width = 8 /\ Bytes = 32
    BY <1>6 DEF Width, Bytes
  <2> QED
    BY <1>1, <1>6, <2>1
<1>7. CASE RowBits = 6
  <2>1. Width = 9 /\ Bytes = 64
    BY <1>7 DEF Width, Bytes
  <2> QED
    BY <1>1, <1>7, <2>1
<1>8. CASE RowBits = 7
  <2>1. Width = 10 /\ Bytes = 128
    BY <1>8 DEF Width, Bytes
  <2> QED
    BY <1>1, <1>8, <2>1
<1>9. CASE RowBits = 8
  <2>1. Width = 11 /\ Bytes = 256
    BY <1>9 DEF Width, Bytes
  <2> QED
    BY <1>1, <1>9, <2>1
<1> QED
  BY <1>1, <1>2, <1>3, <1>4, <1>5, <1>6, <1>7, <1>8, <1>9

\* The powers themselves, and shifting by one more digit.
LEMMA PowerSteps ==
  ASSUME NEW i \in 0 .. 10
  PROVE  2^i \in Nat /\ 2^i >= 1 /\ 2^(i + 1) = 2 * 2^i
<1>1. \/ i = 0 \/ i = 1 \/ i = 2 \/ i = 3 \/ i = 4 \/ i = 5
      \/ i = 6 \/ i = 7 \/ i = 8 \/ i = 9 \/ i = 10
  OBVIOUS
<1>2. CASE i = 0
  BY <1>2
<1>3. CASE i = 1
  BY <1>3
<1>4. CASE i = 2
  BY <1>4
<1>5. CASE i = 3
  BY <1>5
<1>6. CASE i = 4
  BY <1>6
<1>7. CASE i = 5
  BY <1>7
<1>8. CASE i = 6
  BY <1>8
<1>9. CASE i = 7
  BY <1>9
<1>10. CASE i = 8
  BY <1>10
<1>11. CASE i = 9
  BY <1>11
<1>12. CASE i = 10
  BY <1>12
<1> QED
  BY <1>1, <1>2, <1>3, <1>4, <1>5, <1>6, <1>7, <1>8, <1>9, <1>10, <1>11, <1>12

LEMMA PowersGrow ==
  ASSUME NEW i \in 0 .. 11, NEW j \in 0 .. i
  PROVE  2^i \in Nat /\ 2^j \in Nat /\ 2^j <= 2^i
<1> DEFINE T == {k \in 0 .. 11 : 2^k \in Nat /\ \A l \in 0 .. k : 2^l \in Nat /\ 2^l <= 2^k}
<1>1. 0 \in T
  <2>1. ASSUME NEW l \in 0 .. 0 PROVE 2^l \in Nat /\ 2^l <= 2^0
    <3>1. l = 0
      OBVIOUS
    <3>2. 2^0 = 1
      OBVIOUS
    <3> QED
      BY <3>1, <3>2
  <2>2. 0 \in 0 .. 11 /\ 2^0 \in Nat
    BY Powers
  <2> HIDE DEF T
  <2> QED
    BY <2>1, <2>2 DEF T
<1>2. ASSUME NEW k \in 0 .. 11 - 1, k \in T PROVE k + 1 \in T
  <2>1. k \in 0 .. 10 /\ k + 1 \in 0 .. 11
    OBVIOUS
  <2>2. /\ 2^k \in Nat /\ 2^(k + 1) = 2 * 2^k
        /\ \A l \in 0 .. k : 2^l \in Nat /\ 2^l <= 2^k
    BY <1>2, <2>1, PowerSteps
  <2>3. ASSUME NEW l \in 0 .. k + 1 PROVE 2^l \in Nat /\ 2^l <= 2^(k + 1)
    <3>1. CASE l \in 0 .. k
      BY <2>2, <3>1
    <3>2. CASE l = k + 1
      BY <2>2, <3>2
    <3> QED
      BY <3>1, <3>2
  <2> QED
    BY <2>1, <2>2, <2>3
<1> HIDE DEF T
<1>3. 0 .. 11 \subseteq T
  BY <1>1, <1>2, BoundedInduction
<1> QED
  BY <1>3 DEF T

\* What is left of a number when it is shifted by one digit at a time.
LEMMA Halving ==
  ASSUME NEW n \in Nat, NEW i \in 0 .. 10
  PROVE  /\ n \div 2^i \in Nat /\ n \div 2^(i + 1) \in Nat
         /\ n \div 2^i = 2 * (n \div 2^(i + 1)) + ((n \div 2^i) % 2)
         /\ n < 2^i => n \div 2^i = 0
         /\ n < 2^(i + 1) => n \div 2^(i + 1) = 0
<1>1. \/ i = 0 \/ i = 1 \/ i = 2 \/ i = 3 \/ i = 4 \/ i = 5
      \/ i = 6 \/ i = 7 \/ i = 8 \/ i = 9 \/ i = 10
  OBVIOUS
<1>2. CASE i = 0
  BY <1>2
<1>3. CASE i = 1
  BY <1>3
<1>4. CASE i = 2
  BY <1>4
<1>5. CASE i = 3
  BY <1>5
<1>6. CASE i = 4
  BY <1>6
<1>7. CASE i = 5
  BY <1>7
<1>8. CASE i = 6
  BY <1>8
<1>9. CASE i = 7
  BY <1>9
<1>10. CASE i = 8
  BY <1>10
<1>11. CASE i = 9
  BY <1>11
<1>12. CASE i = 10
  BY <1>12
<1> QED
  BY <1>1, <1>2, <1>3, <1>4, <1>5, <1>6, <1>7, <1>8, <1>9, <1>10, <1>11, <1>12

\* The digits of an address are those of the byte's index and the bit's.
LEMMA AddressShifts ==
  ASSUME NEW n \in Nat, NEW b \in 0 .. 7, NEW i \in 0 .. 10
  PROVE  /\ i < 3 => ((8 * n + b) \div 2^i) % 2 = (b \div 2^i) % 2
         /\ i >= 3 => (8 * n + b) \div 2^i = n \div 2^(i - 3)
<1>1. \/ i = 0 \/ i = 1 \/ i = 2 \/ i = 3 \/ i = 4 \/ i = 5
      \/ i = 6 \/ i = 7 \/ i = 8 \/ i = 9 \/ i = 10
  OBVIOUS
<1>2. CASE i = 0
  BY <1>2
<1>3. CASE i = 1
  BY <1>3
<1>4. CASE i = 2
  BY <1>4
<1>5. CASE i = 3
  BY <1>5
<1>6. CASE i = 4
  BY <1>6
<1>7. CASE i = 5
  BY <1>7
<1>8. CASE i = 6
  BY <1>8
<1>9. CASE i = 7
  BY <1>9
<1>10. CASE i = 8
  BY <1>10
<1>11. CASE i = 9
  BY <1>11
<1>12. CASE i = 10
  BY <1>12
<1> QED
  BY <1>1, <1>2, <1>3, <1>4, <1>5, <1>6, <1>7, <1>8, <1>9, <1>10, <1>11, <1>12

LEMMA DigitsInjective ==
  ASSUME NEW m \in 0 .. 2^Width - 1, NEW n \in 0 .. 2^Width - 1, Digits(m) = Digits(n)
  PROVE  m = n
<1>1. m \in Nat /\ n \in Nat /\ m < 2^Width /\ n < 2^Width /\ m < 2048 /\ n < 2048
  BY EccSizes
<1>2. ASSUME NEW i \in 0 .. 10
      PROVE  (m \div 2^i) % 2 = (n \div 2^i) % 2
  <2>1. CASE i < Width
    <3>1. i \in Digits(m) <=> i \in Digits(n)
      OBVIOUS
    <3>2. i \in 0 .. Width - 1
      BY <2>1, EccSizes
    <3>3. (m \div 2^i) % 2 \in {0, 1} /\ (n \div 2^i) % 2 \in {0, 1}
      BY <1>1, Halving
    <3> QED
      BY <3>1, <3>2, <3>3 DEF Digits
  <2>2. CASE i >= Width
    <3>1. i \in 0 .. 11 /\ Width \in 0 .. i
      BY <2>2, EccSizes
    <3>2. 2^Width \in Nat /\ 2^i \in Nat /\ 2^Width <= 2^i
      BY <3>1, PowersGrow
    <3>3. m < 2^i /\ n < 2^i
      BY <1>1, <3>2
    <3>4. m \div 2^i = 0 /\ n \div 2^i = 0
      BY <1>1, <3>3, Halving
    <3> QED
      BY <3>4
  <2> QED
    BY <2>1, <2>2, EccSizes
<1> DEFINE T == {k \in 0 .. 11 : m \div 2^(11 - k) = n \div 2^(11 - k)}
<1>3. 0 \in T
  BY <1>1
<1>4. ASSUME NEW k \in 0 .. 11 - 1, k \in T PROVE k + 1 \in T
  <2> DEFINE i == 11 - (k + 1)
  <2>1. i \in 0 .. 10 /\ i + 1 = 11 - k /\ k + 1 \in 0 .. 11
    OBVIOUS
  <2>2. m \div 2^(i + 1) = n \div 2^(i + 1)
    BY <1>4, <2>1
  <2> HIDE DEF i
  <2>3. m \div 2^i = n \div 2^i
    BY <1>1, <1>2, <2>1, <2>2, Halving
  <2> QED
    BY <2>1, <2>3 DEF i
<1> HIDE DEF T
<1>5. 0 .. 11 \subseteq T
  BY <1>3, <1>4, BoundedInduction
<1>6. 11 \in T
  BY <1>5
<1>7. m \div 2^0 = n \div 2^0
  BY <1>6 DEF T
<1> QED
  BY <1>1, <1>7

\* The number with given digits is the one they are the digits of.
LEMMA ValueOfDigits ==
  ASSUME NEW n \in 0 .. 2^Width - 1
  PROVE  Value(Digits(n)) = n
<1>1. \E m \in 0 .. 2^Width - 1 : Digits(m) = Digits(n)
  OBVIOUS
<1>2. Value(Digits(n)) \in 0 .. 2^Width - 1 /\ Digits(Value(Digits(n))) = Digits(n)
  BY <1>1 DEF Value
<1> QED
  BY <1>2, DigitsInjective

LEMMA AddressDigits ==
  ASSUME NEW n \in ByteIndex, NEW b \in 0 .. 7
  PROVE  /\ 8 * n + b \in BitAddrs
         /\ (8 * n + b) % 8 = b /\ (8 * n + b) \div 8 = n
         /\ \A i \in Ones :
              /\ i < 3 => (i \in Digits(8 * n + b) <=> i \in Digits(b))
              /\ i >= 3 => (i \in Digits(8 * n + b) <=> i - 3 \in Digits(n))
<1>1. n \in Nat /\ n < Bytes /\ Bytes \in Nat /\ b \in Nat
  BY EccSizes DEF ByteIndex
<1>2. 8 * n + b \in BitAddrs /\ (8 * n + b) % 8 = b /\ (8 * n + b) \div 8 = n
  BY <1>1 DEF BitAddrs
<1>3. ASSUME NEW i \in Ones
      PROVE  /\ i < 3 => (i \in Digits(8 * n + b) <=> i \in Digits(b))
             /\ i >= 3 => (i \in Digits(8 * n + b) <=> i - 3 \in Digits(n))
  <2>1. i \in 0 .. 10 /\ i \in 0 .. Width - 1 /\ (i >= 3 => i - 3 \in 0 .. Width - 1)
    BY EccSizes DEF Ones
  <2>2. /\ i < 3 => ((8 * n + b) \div 2^i) % 2 = (b \div 2^i) % 2
        /\ i >= 3 => (8 * n + b) \div 2^i = n \div 2^(i - 3)
    BY <1>1, <2>1, AddressShifts
  <2> QED
    BY <2>1, <2>2 DEF Digits
<1> QED
  BY <1>2, <1>3

LEMMA AddressParts ==
  ASSUME NEW a \in BitAddrs
  PROVE  /\ a \div 8 \in ByteIndex /\ a % 8 \in 0 .. 7 /\ a = 8 * (a \div 8) + (a % 8)
         /\ a \in 0 .. 2^Width - 1
BY EccSizes DEF BitAddrs, ByteIndex

-----------------------------------------------------------------------------
(* Parities                                                                *)

LEMMA OddAdd ==
  ASSUME NEW S, NEW x, IsFiniteSet(S), x \notin S
  PROVE  IsOdd(S \cup {x}) <=> ~IsOdd(S)
<1>1. Cardinality(S) \in Nat /\ Cardinality(S \cup {x}) = Cardinality(S) + 1
  BY FS_CardinalityType, FS_AddElement
<1> QED
  BY <1>1 DEF IsOdd

LEMMA OddFew ==
  /\ ~IsOdd({})
  /\ \A x : IsOdd({x})
  /\ \A x, y : x # y => ~IsOdd({x, y})
<1>1. IsFiniteSet({}) /\ Cardinality({}) = 0
  BY FS_EmptySet
<1>2. ~IsOdd({})
  BY <1>1 DEF IsOdd
<1>3. ASSUME NEW x PROVE IsOdd({x}) /\ IsFiniteSet({x})
  <2>1. Cardinality({x}) = 1 /\ IsFiniteSet({x})
    BY FS_Singleton
  <2> QED
    BY <2>1 DEF IsOdd
<1>4. ASSUME NEW x, NEW y, x # y PROVE ~IsOdd({x, y})
  <2>1. IsOdd({x} \cup {y}) <=> ~IsOdd({x})
    BY <1>3, <1>4, OddAdd
  <2>2. {x} \cup {y} = {x, y}
    OBVIOUS
  <2> QED
    BY <1>3, <2>1, <2>2
<1> QED
  BY <1>2, <1>3, <1>4

LEMMA OddUnion ==
  ASSUME NEW S, NEW R, IsFiniteSet(S), IsFiniteSet(R), S \cap R = {}
  PROVE  IsFiniteSet(S \cup R) /\ (IsOdd(S \cup R) <=> (IsOdd(S) <=> ~IsOdd(R)))
<1>1. /\ Cardinality(S) \in Nat /\ Cardinality(R) \in Nat
      /\ IsFiniteSet(S \cup R)
      /\ Cardinality(S \cup R) = Cardinality(S) + Cardinality(R) - Cardinality(S \cap R)
  BY FS_CardinalityType, FS_Union
<1>2. Cardinality(S \cap R) = 0
  BY FS_EmptySet
<1>3. Cardinality(S \cup R) = Cardinality(S) + Cardinality(R)
  BY <1>1, <1>2
<1> QED
  BY <1>1, <1>3 DEF IsOdd

\* Parity is linear: elements of both sets cancel.
LEMMA OddSymDiff ==
  ASSUME NEW S, NEW R, IsFiniteSet(S), IsFiniteSet(R)
  PROVE  IsFiniteSet(SymDiff(S, R)) /\ (IsOdd(SymDiff(S, R)) <=> (IsOdd(S) <=> ~IsOdd(R)))
<1>1. /\ IsFiniteSet(S \ R) /\ IsFiniteSet(R \ S) /\ IsFiniteSet(S \cap R)
  BY FS_Subset
<1>2. IsOdd(S) <=> (IsOdd(S \ R) <=> ~IsOdd(S \cap R))
  <2>1. (S \ R) \cup (S \cap R) = S /\ (S \ R) \cap (S \cap R) = {}
    OBVIOUS
  <2> QED
    BY <1>1, <2>1, OddUnion
<1>3. IsOdd(R) <=> (IsOdd(R \ S) <=> ~IsOdd(S \cap R))
  <2>1. (R \ S) \cup (S \cap R) = R /\ (R \ S) \cap (S \cap R) = {}
    OBVIOUS
  <2> QED
    BY <1>1, <2>1, OddUnion
<1>4. /\ IsFiniteSet(SymDiff(S, R))
      /\ IsOdd(SymDiff(S, R)) <=> (IsOdd(S \ R) <=> ~IsOdd(R \ S))
  <2>1. (S \ R) \cap (R \ S) = {}
    OBVIOUS
  <2> QED
    BY <1>1, <2>1, OddUnion DEF SymDiff
<1> QED
  BY <1>2, <1>3, <1>4

LEMMA OddWithout ==
  ASSUME NEW S, NEW x, IsFiniteSet(S)
  PROVE  IsFiniteSet(S \ {x}) /\ (IsOdd(S) <=> (IsOdd(S \ {x}) <=> x \notin S))
<1>1. IsFiniteSet(S \ {x})
  BY FS_RemoveElement
<1>2. CASE x \in S
  <2>1. (S \ {x}) \cup {x} = S /\ x \notin S \ {x}
    BY <1>2
  <2> QED
    BY <1>1, <1>2, <2>1, OddAdd
<1>3. CASE x \notin S
  <2>1. S \ {x} = S
    BY <1>3
  <2> QED
    BY <1>1, <1>3, <2>1
<1> QED
  BY <1>2, <1>3

-----------------------------------------------------------------------------
(* The tables                                                              *)

LEMMA BitDigits ==
  ASSUME NEW b \in 0 .. 7
  PROVE  /\ 0 \in Digits(b) <=> b \in {1, 3, 5, 7}
         /\ 1 \in Digits(b) <=> b \in {2, 3, 6, 7}
         /\ 2 \in Digits(b) <=> b \in {4, 5, 6, 7}
<1>1. 0 \in 0 .. Width - 1 /\ 1 \in 0 .. Width - 1 /\ 2 \in 0 .. Width - 1
  BY EccSizes
<1>2. /\ 0 \in Digits(b) <=> (b \div 1) % 2 = 1
      /\ 1 \in Digits(b) <=> (b \div 2) % 2 = 1
      /\ 2 \in Digits(b) <=> (b \div 4) % 2 = 1
  BY <1>1, Powers DEF Digits
<1> QED
  BY <1>2

\* The number that a nibble stands for.
NibbleNumber(w) ==
  (IF 0 \in w THEN 1 ELSE 0) + (IF 1 \in w THEN 2 ELSE 0)
    + (IF 2 \in w THEN 4 ELSE 0) + (IF 3 \in w THEN 8 ELSE 0)

LEMMA NibbleValue ==
  ASSUME NEW w \in SUBSET {0, 1, 2, 3}
  PROVE  Value(w) = NibbleNumber(w)
<1> DEFINE n == NibbleNumber(w)
<1>1. n \in 0 .. 15
  BY DEF NibbleNumber
<1>2. n \in Nat /\ n \in 0 .. 2^Width - 1 /\ n < 16
  BY <1>1, EccSizes
<1>3. /\ (n \div 1) % 2 = 1 <=> 0 \in w
      /\ (n \div 2) % 2 = 1 <=> 1 \in w
      /\ (n \div 4) % 2 = 1 <=> 2 \in w
      /\ (n \div 8) % 2 = 1 <=> 3 \in w
  BY DEF NibbleNumber
<1> HIDE DEF n
<1>4. ASSUME NEW i \in 0 .. Width - 1
      PROVE  (n \div 2^i) % 2 = 1 <=> i \in w
  <2>1. i \in 0 .. 10
    BY EccSizes
  <2>2. CASE i >= 4
    <3> DEFINE j == 4
    <3>0. j \in 0 .. i /\ i \in 0 .. 11 /\ 2^j = 16
      BY <2>1, <2>2
    <3> HIDE DEF j
    <3>1. 16 <= 2^i /\ 2^i \in Nat
      BY <3>0, PowersGrow
    <3>2. n < 2^i
      BY <1>2, <3>1
    <3>3. n \div 2^i = 0
      BY <1>2, <2>1, <3>2, Halving
    <3>4. i \notin w
      BY <2>2
    <3> QED
      BY <3>3, <3>4
  <2>3. CASE i = 0
    BY <1>3, <2>3
  <2>4. CASE i = 1
    BY <1>3, <2>4
  <2>5. CASE i = 2
    BY <1>3, <2>5
  <2>6. CASE i = 3
    BY <1>3, <2>6
  <2> QED
    BY <2>1, <2>2, <2>3, <2>4, <2>5, <2>6
<1>5. w \subseteq 0 .. Width - 1
  BY EccSizes
<1>6. Digits(n) = w
  BY <1>4, <1>5 DEF Digits
<1> QED
  BY <1>2, <1>6, ValueOfDigits DEF n

\* 0x6996 is a table of parities, and 0x1BE4 one of the parities of pairs.
LEMMA Tables ==
  ASSUME NEW w \in SUBSET {0, 1, 2, 3}
  PROVE  /\ 0 \in Shr(Table6996, Value(w)) <=>
              ((0 \in w <=> ~(1 \in w)) <=> ~(2 \in w <=> ~(3 \in w)))
         /\ 0 \notin w =>
              /\ 0 \in Shr(Table1BE4, Value(w)) <=> (1 \in w <=> ~(3 \in w))
              /\ 1 \in Shr(Table1BE4, Value(w)) <=> (2 \in w <=> ~(3 \in w))
<1> DEFINE n == Value(w)
<1>1. n = NibbleNumber(w)
  BY NibbleValue
<1>2. n \in 0 .. 15
  BY <1>1 DEF NibbleNumber
<1> HIDE DEF n
<1>3. /\ 0 \in Shr(Table6996, n) <=> n \in Table6996
      /\ 0 \in Shr(Table1BE4, n) <=> n \in Table1BE4
      /\ 1 \in Shr(Table1BE4, n) <=> n + 1 \in Table1BE4
  BY <1>2 DEF Shr, Bit32
<1>4. n \in Table6996 <=> ((0 \in w <=> ~(1 \in w)) <=> ~(2 \in w <=> ~(3 \in w)))
  BY <1>1 DEF Table6996, NibbleNumber
<1>5. 0 \notin w =>
        /\ n \in Table1BE4 <=> (1 \in w <=> ~(3 \in w))
        /\ n + 1 \in Table1BE4 <=> (2 \in w <=> ~(3 \in w))
  BY <1>1 DEF Table1BE4, NibbleNumber
<1> QED
  BY <1>3, <1>4, <1>5 DEF n

\* Whether a byte has an odd number of ones, bit by bit.
Differ(p, q) == p <=> ~q

LEMMA OddOctet ==
  ASSUME NEW S \in Byte
  PROVE  /\ IsFiniteSet(S)
         /\ IsOdd(S) <=>
              Differ(Differ(Differ(0 \in S, 1 \in S), Differ(2 \in S, 3 \in S)),
                     Differ(Differ(4 \in S, 5 \in S), Differ(6 \in S, 7 \in S)))
<1> DEFINE S1 == S \ {0}   S2 == S1 \ {1}   S3 == S2 \ {2}   S4 == S3 \ {3}
           S5 == S4 \ {4}  S6 == S5 \ {5}   S7 == S6 \ {6}   S8 == S7 \ {7}
<1>1. IsFiniteSet(S)
  <2>1. IsFiniteSet(0 .. 7)
    <3>1. 0 \in Int /\ 7 \in Int
      OBVIOUS
    <3> QED
      BY ONLY <3>1, FS_Interval
  <2>2. S \subseteq 0 .. 7
    BY DEF Byte
  <2> QED
    BY <2>1, <2>2, FS_Subset
<1>2. S8 = {}
  BY DEF Byte
<1>3. /\ 1 \in S1 <=> 1 \in S
      /\ 2 \in S2 <=> 2 \in S
      /\ 3 \in S3 <=> 3 \in S
      /\ 4 \in S4 <=> 4 \in S
      /\ 5 \in S5 <=> 5 \in S
      /\ 6 \in S6 <=> 6 \in S
      /\ 7 \in S7 <=> 7 \in S
  OBVIOUS
<1> HIDE DEF S1, S2, S3, S4, S5, S6, S7, S8
<1>4. IsFiniteSet(S1) /\ (IsOdd(S) <=> (IsOdd(S1) <=> 0 \notin S))
  <2>1. S1 = S \ {0}
    BY DEF S1
  <2> QED
    BY <1>1, <2>1, OddWithout
<1>5. IsFiniteSet(S2) /\ (IsOdd(S1) <=> (IsOdd(S2) <=> 1 \notin S1))
  <2>1. S2 = S1 \ {1}
    BY DEF S2
  <2> QED
    BY <1>4, <2>1, OddWithout
<1>6. IsFiniteSet(S3) /\ (IsOdd(S2) <=> (IsOdd(S3) <=> 2 \notin S2))
  <2>1. S3 = S2 \ {2}
    BY DEF S3
  <2> QED
    BY <1>5, <2>1, OddWithout
<1>7. IsFiniteSet(S4) /\ (IsOdd(S3) <=> (IsOdd(S4) <=> 3 \notin S3))
  <2>1. S4 = S3 \ {3}
    BY DEF S4
  <2> QED
    BY <1>6, <2>1, OddWithout
<1>8. IsFiniteSet(S5) /\ (IsOdd(S4) <=> (IsOdd(S5) <=> 4 \notin S4))
  <2>1. S5 = S4 \ {4}
    BY DEF S5
  <2> QED
    BY <1>7, <2>1, OddWithout
<1>9. IsFiniteSet(S6) /\ (IsOdd(S5) <=> (IsOdd(S6) <=> 5 \notin S5))
  <2>1. S6 = S5 \ {5}
    BY DEF S6
  <2> QED
    BY <1>8, <2>1, OddWithout
<1>10. IsFiniteSet(S7) /\ (IsOdd(S6) <=> (IsOdd(S7) <=> 6 \notin S6))
  <2>1. S7 = S6 \ {6}
    BY DEF S7
  <2> QED
    BY <1>9, <2>1, OddWithout
<1>11. IsFiniteSet(S8) /\ (IsOdd(S7) <=> (IsOdd(S8) <=> 7 \notin S7))
  <2>1. S8 = S7 \ {7}
    BY DEF S8
  <2> QED
    BY <1>10, <2>1, OddWithout
<1>12. ~IsOdd(S8)
  BY <1>2, OddFew
<1> QED
  BY <1>1, <1>3, <1>4, <1>5, <1>6, <1>7, <1>8, <1>9, <1>10, <1>11, <1>12 DEF Differ

\* The ones of a byte whose index in the byte has a one in digit i.
Column(byte, i) == {b \in byte : i \in Digits(b)}

LEMMA ColumnParities ==
  ASSUME NEW byte \in Byte
  PROVE  /\ IsOdd(Column(byte, 0)) <=>
              Differ(Differ(1 \in byte, 3 \in byte), Differ(5 \in byte, 7 \in byte))
         /\ IsOdd(Column(byte, 1)) <=>
              Differ(Differ(2 \in byte, 3 \in byte), Differ(6 \in byte, 7 \in byte))
         /\ IsOdd(Column(byte, 2)) <=>
              Differ(Differ(4 \in byte, 5 \in byte), Differ(6 \in byte, 7 \in byte))
<1>1. \A b \in byte : b \in 0 .. 7
  BY DEF Byte
<1>2. /\ Column(byte, 0) = byte \cap {1, 3, 5, 7}
      /\ Column(byte, 1) = byte \cap {2, 3, 6, 7}
      /\ Column(byte, 2) = byte \cap {4, 5, 6, 7}
  BY <1>1, BitDigits DEF Column
<1>3. byte \cap {1, 3, 5, 7} \in Byte /\ byte \cap {2, 3, 6, 7} \in Byte
        /\ byte \cap {4, 5, 6, 7} \in Byte
  BY DEF Byte
<1>4. IsOdd(byte \cap {1, 3, 5, 7}) <=>
        Differ(Differ(1 \in byte, 3 \in byte), Differ(5 \in byte, 7 \in byte))
  <2> DEFINE S == byte \cap {1, 3, 5, 7}
  <2>1. /\ 0 \notin S /\ 2 \notin S /\ 4 \notin S /\ 6 \notin S
        /\ 1 \in S <=> 1 \in byte
        /\ 3 \in S <=> 3 \in byte
        /\ 5 \in S <=> 5 \in byte
        /\ 7 \in S <=> 7 \in byte
    OBVIOUS
  <2>2. S \in Byte
    BY <1>3
  <2> HIDE DEF S
  <2>3. IsOdd(S) <=> Differ(Differ(1 \in byte, 3 \in byte), Differ(5 \in byte, 7 \in byte))
    BY <2>1, <2>2, OddOctet DEF Differ
  <2> QED
    BY <2>3 DEF S
<1>5. IsOdd(byte \cap {2, 3, 6, 7}) <=>
        Differ(Differ(2 \in byte, 3 \in byte), Differ(6 \in byte, 7 \in byte))
  <2> DEFINE S == byte \cap {2, 3, 6, 7}
  <2>1. /\ 0 \notin S /\ 1 \notin S /\ 4 \notin S /\ 5 \notin S
        /\ 2 \in S <=> 2 \in byte
        /\ 3 \in S <=> 3 \in byte
        /\ 6 \in S <=> 6 \in byte
        /\ 7 \in S <=> 7 \in byte
    OBVIOUS
  <2>2. S \in Byte
    BY <1>3
  <2> HIDE DEF S
  <2>3. IsOdd(S) <=> Differ(Differ(2 \in byte, 3 \in byte), Differ(6 \in byte, 7 \in byte))
    BY <2>1, <2>2, OddOctet DEF Differ
  <2> QED
    BY <2>3 DEF S
<1>6. IsOdd(byte \cap {4, 5, 6, 7}) <=>
        Differ(Differ(4 \in byte, 5 \in byte), Differ(6 \in byte, 7 \in byte))
  <2> DEFINE S == byte \cap {4, 5, 6, 7}
  <2>1. /\ 0 \notin S /\ 1 \notin S /\ 2 \notin S /\ 3 \notin S
        /\ 4 \in S <=> 4 \in byte
        /\ 5 \in S <=> 5 \in byte
        /\ 6 \in S <=> 6 \in byte
        /\ 7 \in S <=> 7 \in byte
    OBVIOUS
  <2>2. S \in Byte
    BY <1>3
  <2> HIDE DEF S
  <2>3. IsOdd(S) <=> Differ(Differ(4 \in byte, 5 \in byte), Differ(6 \in byte, 7 \in byte))
    BY <2>1, <2>2, OddOctet DEF Differ
  <2> QED
    BY <2>3 DEF S
<1> QED
  BY <1>2, <1>4, <1>5, <1>6

\* What the tables say of a byte: its parity, and the parities of its columns.
Columns(byte) == Shl(Cp5(byte), 2) \cup Cp3Cp1(byte)

LEMMA TablesOfByte ==
  ASSUME NEW byte \in Byte
  PROVE  /\ 0 \in Rp(byte) <=> IsOdd(byte)
         /\ Columns(byte) \subseteq {0, 1, 2}
         /\ \A i \in {0, 1, 2} : i \in Columns(byte) <=> IsOdd(Column(byte, i))
<1> DEFINE t  == Folded(byte) \cap {0, 1, 2, 3}
           t1 == Folded(byte) \cap {1, 2, 3}
           h  == Shr(byte, 4)
<1>1. /\ 0 \in t <=> Differ(0 \in byte, 4 \in byte)
      /\ 1 \in t <=> Differ(1 \in byte, 5 \in byte)
      /\ 2 \in t <=> Differ(2 \in byte, 6 \in byte)
      /\ 3 \in t <=> Differ(3 \in byte, 7 \in byte)
      /\ t \in SUBSET {0, 1, 2, 3}
  BY DEF Folded, SymDiff, Shr, Bit32, Differ
<1>2. /\ 0 \notin t1 /\ t1 \in SUBSET {0, 1, 2, 3}
      /\ 1 \in t1 <=> 1 \in t
      /\ 2 \in t1 <=> 2 \in t
      /\ 3 \in t1 <=> 3 \in t
  OBVIOUS
<1>3. /\ 0 \in h <=> 4 \in byte
      /\ 1 \in h <=> 5 \in byte
      /\ 2 \in h <=> 6 \in byte
      /\ 3 \in h <=> 7 \in byte
      /\ h \in SUBSET {0, 1, 2, 3}
  BY DEF Shr, Bit32, Byte
<1>4. /\ Rp(byte) = Shr(Table6996, Value(t)) \cap {0}
      /\ Cp5(byte) = Shr(Table6996, Value(h)) \cap {0}
      /\ Cp3Cp1(byte) = Shr(Table1BE4, Value(t1)) \cap {0, 1}
  BY DEF Rp, Cp5, Cp3Cp1
<1> HIDE DEF t, t1, h
<1>5. 0 \in Rp(byte) <=> IsOdd(byte)
  <2>1. 0 \in Rp(byte) <=> Differ(Differ(0 \in t, 1 \in t), Differ(2 \in t, 3 \in t))
    BY <1>1, <1>4, Tables DEF Differ
  <2> QED
    BY <1>1, <2>1, OddOctet DEF Differ
<1>6. 0 \in Cp5(byte) <=> IsOdd(Column(byte, 2))
  <2>1. 0 \in Cp5(byte) <=> Differ(Differ(0 \in h, 1 \in h), Differ(2 \in h, 3 \in h))
    BY <1>3, <1>4, Tables DEF Differ
  <2> QED
    BY <1>3, <2>1, ColumnParities
<1>7. /\ 0 \in Cp3Cp1(byte) <=> IsOdd(Column(byte, 0))
      /\ 1 \in Cp3Cp1(byte) <=> IsOdd(Column(byte, 1))
  <2>1. /\ 0 \in Cp3Cp1(byte) <=> Differ(1 \in t1, 3 \in t1)
        /\ 1 \in Cp3Cp1(byte) <=> Differ(2 \in t1, 3 \in t1)
    BY <1>2, <1>4, Tables DEF Differ
  <2> QED
    BY <1>1, <1>2, <2>1, ColumnParities DEF Differ
<1>8. Cp5(byte) \subseteq {0} /\ Cp3Cp1(byte) \subseteq {0, 1}
  BY <1>4
<1>9. Shl(Cp5(byte), 2) \subseteq {2} /\ (2 \in Shl(Cp5(byte), 2) <=> 0 \in Cp5(byte))
  BY <1>8 DEF Shl, Bit32
<1> QED
  BY <1>5, <1>6, <1>7, <1>8, <1>9 DEF Columns

-----------------------------------------------------------------------------
(* One byte                                                                *)

\* The addresses of some bits of byte n.
At(n, bits) == {8 * n + b : b \in bits}

LEMMA OddAt ==
  ASSUME NEW n \in ByteIndex, NEW X \in Byte
  PROVE  IsFiniteSet(At(n, X)) /\ (IsOdd(At(n, X)) <=> IsOdd(X))
<1>1. n \in Nat /\ \A b \in X : b \in Nat
  BY EccSizes DEF ByteIndex, Byte
<1>2. ExistsBijection(X, At(n, X))
  <2> DEFINE f == [b \in X |-> 8 * n + b]
  <2>1. f \in [X -> At(n, X)]
    BY DEF At
  <2>2. \A b, c \in X : f[b] = f[c] => b = c
    BY <1>1
  <2>3. \A a \in At(n, X) : \E b \in X : f[b] = a
    BY DEF At
  <2> HIDE DEF f
  <2>4. f \in Bijection(X, At(n, X))
    BY <2>1, <2>2, <2>3 DEF Bijection, Injection, Surjection, IsInjective
  <2> QED
    BY <2>4 DEF ExistsBijection
<1>3. IsFiniteSet(X)
  BY OddOctet
<1>4. IsFiniteSet(At(n, X)) /\ Cardinality(At(n, X)) = Cardinality(X)
  BY <1>2, <1>3, FS_Bijection
<1> QED
  BY <1>4 DEF IsOdd

\* An index has no digits above those that tell the bytes apart.
LEMMA IndexDigits ==
  ASSUME NEW n \in ByteIndex
  PROVE  \A i \in Digits(n) : i \in 0 .. Width - 4
<1> SUFFICES ASSUME NEW i \in Digits(n) PROVE i \in 0 .. Width - 4
  OBVIOUS
<1>1. i \in 0 .. Width - 1 /\ i \in 0 .. 10 /\ (n \div 2^i) % 2 = 1
  BY EccSizes DEF Digits
<1>2. n \in Nat /\ n < 2^RowBits
  BY EccSizes DEF ByteIndex
<1>3. CASE i >= RowBits
  <2>1. i \in 0 .. 11 /\ RowBits \in 0 .. i
    BY <1>1, <1>3, EccSizes
  <2>2. 2^RowBits \in Nat /\ 2^i \in Nat /\ 2^RowBits <= 2^i
    BY <2>1, PowersGrow
  <2>3. n < 2^i
    BY <1>2, <2>2
  <2>4. n \div 2^i = 0
    BY <1>1, <1>2, <2>3, Halving
  <2> QED
    BY <1>1, <2>4
<1>4. CASE i < RowBits
  BY <1>1, <1>4, EccSizes
<1> QED
  BY <1>1, <1>3, <1>4, EccSizes

LEMMA HavingOfByte ==
  ASSUME NEW n \in ByteIndex, NEW byte \in Byte, NEW i \in Ones
  PROVE  /\ i < 3 => Having(At(n, byte), i, 1) = At(n, Column(byte, i))
         /\ i >= 3 /\ i - 3 \in Digits(n) => Having(At(n, byte), i, 1) = At(n, byte)
         /\ i >= 3 /\ i - 3 \notin Digits(n) => Having(At(n, byte), i, 1) = {}
<1>1. ASSUME NEW b \in byte
      PROVE  /\ i < 3 => (i \in Digits(8 * n + b) <=> i \in Digits(b))
             /\ i >= 3 => (i \in Digits(8 * n + b) <=> i - 3 \in Digits(n))
  <2>1. b \in 0 .. 7
    BY DEF Byte
  <2> QED
    BY <2>1, AddressDigits
<1>2. CASE i < 3
  BY <1>1, <1>2 DEF Having, At, Column
<1>3. i >= 3 /\ i - 3 \in Digits(n) => Having(At(n, byte), i, 1) = At(n, byte)
  BY <1>1 DEF Having, At
<1>4. i >= 3 /\ i - 3 \notin Digits(n) => Having(At(n, byte), i, 1) = {}
  BY <1>1 DEF Having, At
<1> QED
  BY <1>2, <1>3, <1>4

\* One byte flips the parities that its ones count for.
LEMMA ByteFlips ==
  ASSUME NEW n \in ByteIndex, NEW byte \in Byte, NEW p
  PROVE  /\ \A i \in Ones : i \in WithByte(p, byte, n) <=> Differ(i \in p, IsOdd(Having(At(n, byte), i, 1)))
         /\ \A i \in Ones : i + 16 \in WithByte(p, byte, n) <=> Differ(i + 16 \in p, IsOdd(At(n, byte)))
         /\ p \subseteq Ones \cup Shl(Ones, 16) => WithByte(p, byte, n) \subseteq Ones \cup Shl(Ones, 16)
<1> DEFINE columns == SymDiff(p, Columns(byte))
           bits    == Shl(Ones, 16) \cup Shl(Digits(n), 3)
<1>1. WithByte(p, byte, n) = IF 0 \in Rp(byte) THEN SymDiff(columns, bits) ELSE columns
  BY DEF WithByte, Columns
<1>2. 0 \in Rp(byte) <=> IsOdd(At(n, byte))
  BY TablesOfByte, OddAt
<1>3. Width \in 4 .. 11 /\ Ones = 0 .. Width - 1
  BY EccSizes DEF Ones
<1>4. Columns(byte) \subseteq {0, 1, 2} /\ {0, 1, 2} \subseteq Ones
  BY <1>3, TablesOfByte
<1>5. \A i \in Digits(n) : i \in 0 .. Width - 4
  BY IndexDigits
<1>6. ASSUME NEW i \in Ones
      PROVE  /\ i \in bits <=> i - 3 \in Digits(n)
             /\ i + 16 \in bits /\ i + 16 \notin Columns(byte)
  BY <1>3, <1>4, <1>5 DEF Shl, Bit32
<1>7. bits \subseteq Ones \cup Shl(Ones, 16)
  <2>1. ASSUME NEW i \in Shl(Digits(n), 3) PROVE i \in Ones
    <3>1. i \in 0 .. 31 /\ i - 3 \in 0 .. Width - 4
      BY <1>5, <2>1 DEF Shl, Bit32
    <3> QED
      BY <1>3, <3>1
  <2> QED
    BY <2>1
<1> HIDE DEF bits
<1>8. ASSUME NEW i \in Ones
      PROVE  i \in WithByte(p, byte, n) <=> Differ(i \in p, IsOdd(Having(At(n, byte), i, 1)))
  <2>1. CASE i < 3
    <3>1. i - 3 \notin Digits(n) /\ i \in {0, 1, 2}
      BY <1>3, <1>5, <2>1
    <3>2. Column(byte, i) \in Byte
      BY DEF Column, Byte
    <3>3. IsOdd(Having(At(n, byte), i, 1)) <=> IsOdd(Column(byte, i))
      BY <2>1, <3>2, HavingOfByte, OddAt
    <3>4. i \in Columns(byte) <=> IsOdd(Column(byte, i))
      BY <3>1, TablesOfByte
    <3>5. i \in WithByte(p, byte, n) <=> i \in columns
      BY <1>1, <1>6, <3>1 DEF SymDiff
    <3> QED
      BY <3>3, <3>4, <3>5 DEF SymDiff, Differ
  <2>2. CASE i >= 3
    <3>1. i \notin Columns(byte)
      BY <1>4, <2>2
    <3>2. i \in columns <=> i \in p
      BY <3>1 DEF SymDiff
    <3> HIDE DEF columns
    <3>3. i \in WithByte(p, byte, n) <=> Differ(i \in p, IsOdd(At(n, byte)) /\ i - 3 \in Digits(n))
      BY <1>1, <1>2, <1>6, <3>2 DEF SymDiff, Differ
    <3>4. IsOdd(Having(At(n, byte), i, 1)) <=> IsOdd(At(n, byte)) /\ i - 3 \in Digits(n)
      BY <2>2, HavingOfByte, OddFew
    <3> QED
      BY <3>3, <3>4 DEF Differ
  <2> QED
    BY <1>3, <2>1, <2>2
<1>9. ASSUME NEW i \in Ones
      PROVE  i + 16 \in WithByte(p, byte, n) <=> Differ(i + 16 \in p, IsOdd(At(n, byte)))
  <2>1. i + 16 \in columns <=> i + 16 \in p
    BY <1>6 DEF SymDiff
  <2> HIDE DEF columns
  <2> QED
    BY <1>1, <1>2, <1>6, <2>1 DEF SymDiff, Differ
<1>10. p \subseteq Ones \cup Shl(Ones, 16) => WithByte(p, byte, n) \subseteq Ones \cup Shl(Ones, 16)
  BY <1>1, <1>4, <1>7 DEF SymDiff
<1> QED
  BY <1>8, <1>9, <1>10

-----------------------------------------------------------------------------
(* A block                                                                 *)

LEMMA AddressesFinite ==
  ASSUME NEW A, A \subseteq BitAddrs
  PROVE  IsFiniteSet(A)
<1>1. 0 \in Int /\ 8 * Bytes - 1 \in Int
  BY EccSizes
<1>2. IsFiniteSet(0 .. 8 * Bytes - 1)
  BY ONLY <1>1, FS_Interval
<1> QED
  BY <1>2, FS_Subset DEF BitAddrs

LEMMA HavingUnion ==
  ASSUME NEW A, NEW B, IsFiniteSet(A), IsFiniteSet(B), A \cap B = {}, NEW i, NEW v
  PROVE  IsOdd(Having(A \cup B, i, v)) <=> Differ(IsOdd(Having(A, i, v)), IsOdd(Having(B, i, v)))
<1>1. Having(A, i, v) \subseteq A /\ Having(B, i, v) \subseteq B
  BY DEF Having
<1>2. Having(A \cup B, i, v) = Having(A, i, v) \cup Having(B, i, v)
  BY DEF Having
<1>3. Having(A, i, v) \cap Having(B, i, v) = {}
  BY <1>1
<1>4. IsFiniteSet(Having(A, i, v)) /\ IsFiniteSet(Having(B, i, v))
  BY <1>1, FS_Subset
<1> QED
  BY <1>2, <1>3, <1>4, OddUnion DEF Differ

LEMMA HavingSymDiff ==
  ASSUME NEW A, NEW B, IsFiniteSet(A), IsFiniteSet(B), NEW i, NEW v
  PROVE  IsOdd(Having(SymDiff(A, B), i, v)) <=> Differ(IsOdd(Having(A, i, v)), IsOdd(Having(B, i, v)))
<1>1. Having(A, i, v) \subseteq A /\ Having(B, i, v) \subseteq B
  BY DEF Having
<1>2. Having(SymDiff(A, B), i, v) = SymDiff(Having(A, i, v), Having(B, i, v))
  BY DEF Having, SymDiff
<1>3. IsFiniteSet(Having(A, i, v)) /\ IsFiniteSet(Having(B, i, v))
  BY <1>1, FS_Subset
<1> QED
  BY <1>2, <1>3, OddSymDiff DEF Differ

\* Every one has one or the other digit.
LEMMA HavingEither ==
  ASSUME NEW A, IsFiniteSet(A), NEW i
  PROVE  IsOdd(A) <=> Differ(IsOdd(Having(A, i, 1)), IsOdd(Having(A, i, 0)))
<1>1. /\ Having(A, i, 1) \cup Having(A, i, 0) = A
      /\ Having(A, i, 1) \cap Having(A, i, 0) = {}
      /\ Having(A, i, 1) \subseteq A /\ Having(A, i, 0) \subseteq A
  BY DEF Having
<1>2. IsFiniteSet(Having(A, i, 1)) /\ IsFiniteSet(Having(A, i, 0))
  BY <1>1, FS_Subset
<1> QED
  BY <1>1, <1>2, OddUnion DEF Differ

\* The ones from a byte on.
OnesFrom(block, n) == {a \in OnesIn(block) : a >= 8 * n}

LEMMA OnesFromByte ==
  ASSUME NEW block \in [ByteIndex -> Byte], NEW n \in 1 .. Bytes
  PROVE  /\ n - 1 \in ByteIndex /\ block[n - 1] \in Byte
         /\ OnesFrom(block, n - 1) = OnesFrom(block, n) \cup At(n - 1, block[n - 1])
         /\ OnesFrom(block, n) \cap At(n - 1, block[n - 1]) = {}
         /\ IsFiniteSet(OnesFrom(block, n)) /\ IsFiniteSet(At(n - 1, block[n - 1]))
<1>1. n - 1 \in ByteIndex /\ block[n - 1] \in Byte /\ n - 1 \in Nat
  BY EccSizes DEF ByteIndex
<1>2. \A b \in block[n - 1] : b \in 0 .. 7
  BY <1>1 DEF Byte
<1>3. OnesFrom(block, n) \subseteq BitAddrs
  BY DEF OnesFrom, OnesIn
<1>4. ASSUME NEW a \in At(n - 1, block[n - 1])
      PROVE  a \in OnesFrom(block, n - 1) /\ a \notin OnesFrom(block, n)
  <2>1. PICK b \in block[n - 1] : a = 8 * (n - 1) + b
    BY <1>4 DEF At
  <2>2. a \in BitAddrs /\ a % 8 = b /\ a \div 8 = n - 1
    BY <1>1, <1>2, <2>1, AddressDigits
  <2>3. a >= 8 * (n - 1) /\ ~(a >= 8 * n)
    BY <1>1, <1>2, <2>1
  <2> QED
    BY <2>2, <2>3 DEF OnesFrom, OnesIn
<1>5. ASSUME NEW a \in OnesFrom(block, n - 1), a \notin OnesFrom(block, n)
      PROVE  a \in At(n - 1, block[n - 1])
  <2>1. a \in BitAddrs /\ a % 8 \in block[a \div 8] /\ a >= 8 * (n - 1) /\ ~(a >= 8 * n)
    BY <1>5 DEF OnesFrom, OnesIn
  <2>2. a \div 8 \in ByteIndex /\ a % 8 \in 0 .. 7 /\ a = 8 * (a \div 8) + (a % 8)
    BY <2>1, AddressParts
  <2>3. a \div 8 = n - 1
    BY <1>1, <2>1, <2>2, EccSizes DEF ByteIndex
  <2> QED
    BY <2>1, <2>2, <2>3 DEF At
<1>6. OnesFrom(block, n) \subseteq OnesFrom(block, n - 1)
  BY <1>1, EccSizes DEF OnesFrom, OnesIn, BitAddrs
<1>7. IsFiniteSet(OnesFrom(block, n)) /\ IsFiniteSet(At(n - 1, block[n - 1]))
  BY <1>1, <1>3, AddressesFinite, OddAt
<1> QED
  BY <1>1, <1>4, <1>5, <1>6, <1>7

\* The parities of the bytes from n on are in the word.
AddedFrom(block, n, p) ==
  /\ \A i \in Ones : i \in p <=> ~IsOdd(Having(OnesFrom(block, n), i, 1))
  /\ \A i \in Ones : i + 16 \in p <=> IsOdd(OnesFrom(block, n))

LEMMA ByteAdded ==
  ASSUME NEW block \in [ByteIndex -> Byte], NEW n \in 1 .. Bytes, NEW p, AddedFrom(block, n, p)
  PROVE  AddedFrom(block, n - 1, WithByte(p, block[n - 1], n - 1))
<1> DEFINE A == OnesFrom(block, n)
           B == At(n - 1, block[n - 1])
           q == WithByte(p, block[n - 1], n - 1)
<1>1. /\ n - 1 \in ByteIndex /\ block[n - 1] \in Byte
      /\ OnesFrom(block, n - 1) = A \cup B
      /\ A \cap B = {} /\ IsFiniteSet(A) /\ IsFiniteSet(B)
  BY OnesFromByte
<1>2. /\ \A i \in Ones : i \in q <=> Differ(i \in p, IsOdd(Having(B, i, 1)))
      /\ \A i \in Ones : i + 16 \in q <=> Differ(i + 16 \in p, IsOdd(B))
  BY <1>1, ByteFlips
<1>3. /\ \A i \in Ones : i \in p <=> ~IsOdd(Having(A, i, 1))
      /\ \A i \in Ones : i + 16 \in p <=> IsOdd(A)
  BY DEF AddedFrom
<1> HIDE DEF A, B, q
<1>4. IsOdd(A \cup B) <=> Differ(IsOdd(A), IsOdd(B))
  BY <1>1, OddUnion DEF Differ
<1>5. \A i : IsOdd(Having(A \cup B, i, 1)) <=> Differ(IsOdd(Having(A, i, 1)), IsOdd(Having(B, i, 1)))
  BY <1>1, HavingUnion
<1>6. AddedFrom(block, n - 1, q)
  BY <1>1, <1>2, <1>3, <1>4, <1>5 DEF AddedFrom, Differ
<1> QED
  BY <1>6 DEF q

\* The parities of all ones at addresses with a one, and with a zero, in digit i.
AddedAll(block, p) ==
  /\ \A i \in Ones : i \in p <=> ~IsOdd(Having(OnesIn(block), i, 1))
  /\ \A i \in Ones : i + 16 \in p <=> ~IsOdd(Having(OnesIn(block), i, 0))

\* Before the first byte there are no ones, and the last one completes them.
LEMMA FirstAndLastByte ==
  ASSUME NEW block \in [ByteIndex -> Byte]
  PROVE  /\ AddedFrom(block, Bytes, Ones)
         /\ \A p : p \subseteq Ones \cup Shl(Ones, 16) /\ AddedFrom(block, 0, p)
                     => AddedAll(block, SymDiff(p, Shl(p, 16)))
<1>1. Width \in 4 .. 11 /\ Ones = 0 .. Width - 1
  BY EccSizes DEF Ones
<1>2. AddedFrom(block, Bytes, Ones)
  <2>1. OnesFrom(block, Bytes) = {}
    BY EccSizes DEF OnesFrom, OnesIn, BitAddrs
  <2>2. \A i : Having({}, i, 1) = {}
    BY DEF Having
  <2>3. \A i \in Ones : i + 16 \notin Ones
    BY <1>1
  <2> QED
    BY <2>1, <2>2, <2>3, OddFew DEF AddedFrom
<1>3. ASSUME NEW p, p \subseteq Ones \cup Shl(Ones, 16), AddedFrom(block, 0, p)
      PROVE  AddedAll(block, SymDiff(p, Shl(p, 16)))
  <2>1. OnesFrom(block, 0) = OnesIn(block)
    BY DEF OnesFrom, OnesIn, BitAddrs
  <2>2. IsFiniteSet(OnesIn(block))
    BY AddressesFinite DEF OnesIn
  <2>3. ASSUME NEW i \in Ones
        PROVE  /\ i \in SymDiff(p, Shl(p, 16)) <=> i \in p
               /\ i + 16 \in SymDiff(p, Shl(p, 16)) <=> Differ(i + 16 \in p, i \in p)
    <3>1. \A j \in p : j \in 0 .. 31
      BY <1>1, <1>3 DEF Shl, Bit32
    <3>2. i \notin Shl(p, 16)
      <4>1. i - 16 \notin 0 .. 31
        BY <1>1
      <4>2. i - 16 \notin p
        BY <3>1, <4>1
      <4> QED
        BY <4>2 DEF Shl
    <3>3. i + 16 \in Shl(p, 16) <=> i \in p
      BY <1>1 DEF Shl, Bit32
    <3> QED
      BY <3>2, <3>3 DEF SymDiff, Differ
  <2>4. \A i : IsOdd(OnesIn(block)) <=> Differ(IsOdd(Having(OnesIn(block), i, 1)),
                                               IsOdd(Having(OnesIn(block), i, 0)))
    BY <2>2, HavingEither
  <2> QED
    BY <1>3, <2>1, <2>3, <2>4 DEF AddedFrom, AddedAll, Differ
<1> QED
  BY <1>2, <1>3

-----------------------------------------------------------------------------
(* The comparison with the stored bits                                     *)

\* The stored bits below digit k have been added to the odd parities.
Compared(block, stored, k, p) ==
  /\ \A i \in Ones : i \in p <=> Differ(~IsOdd(Having(OnesIn(block), i, 1)),
                                        i < k /\ 2 * i + 1 \in stored)
  /\ \A i \in Ones : i + 16 \in p <=> ~IsOdd(Having(OnesIn(block), i, 0))

EvenBelow(stored, k) == {i \in Ones : i < k /\ 2 * i \in stored}
Rest(stored, k)      == {j \in EccBits : j + k \in stored}

LEMMA BitCompared ==
  ASSUME NEW block, NEW stored \in SUBSET EccBits, NEW k \in Ones,
         NEW p, Compared(block, stored, k, p)
  PROVE  /\ SymDiff(EvenBelow(stored, k), Rest(stored, k) \cap {k}) = EvenBelow(stored, k + 1)
         /\ Compared(block, stored, k + 1, SymDiff(p, Shr(Rest(stored, k), 1) \cap {k}))
         /\ Shr(Rest(stored, k), 1) = Rest(stored, k + 1)
         /\ Shl({k}, 1) = {k + 1}
<1>1. /\ Width \in 4 .. 11 /\ Ones = 0 .. Width - 1 /\ EccBits = 0 .. 2 * Width - 1
      /\ k \in Nat /\ k < Width
  BY EccSizes DEF Ones, EccBits
<1>2. Rest(stored, k) \cap {k} = IF 2 * k \in stored THEN {k} ELSE {}
  BY <1>1 DEF Rest
<1>3. Shr(Rest(stored, k), 1) = Rest(stored, k + 1)
  <2>1. ASSUME NEW j \in Shr(Rest(stored, k), 1) PROVE j \in Rest(stored, k + 1)
    <3>1. j \in 0 .. 31 /\ j + 1 \in EccBits /\ (j + 1) + k \in stored
      BY <2>1 DEF Shr, Rest, Bit32
    <3>2. j \in EccBits /\ (j + 1) + k = j + (k + 1)
      BY <1>1, <3>1
    <3> QED
      BY <3>1, <3>2 DEF Rest
  <2>2. ASSUME NEW j \in Rest(stored, k + 1) PROVE j \in Shr(Rest(stored, k), 1)
    <3>1. j \in EccBits /\ j + (k + 1) \in stored
      BY <2>2 DEF Rest
    <3>2. j \in 0 .. 31 /\ (j + 1) + k = j + (k + 1) /\ j + (k + 1) \in EccBits
      BY <1>1, <3>1
    <3>3. j + 1 \in EccBits
      BY <1>1, <3>1, <3>2
    <3> QED
      BY <3>1, <3>2, <3>3 DEF Shr, Rest, Bit32
  <2> QED
    BY <2>1, <2>2
<1>4. Shr(Rest(stored, k), 1) \cap {k} = IF 2 * k + 1 \in stored THEN {k} ELSE {}
  <2>1. k \in Rest(stored, k + 1) <=> 2 * k + 1 \in stored
    BY <1>1 DEF Rest
  <2> QED
    BY <1>3, <2>1
<1>5. SymDiff(EvenBelow(stored, k), Rest(stored, k) \cap {k}) = EvenBelow(stored, k + 1)
  <2>1. \A i \in Ones : i < k + 1 <=> (i < k \/ i = k)
    BY <1>1
  <2>2. k \in Ones /\ ~(k < k)
    BY <1>1
  <2> QED
    BY <1>2, <2>1, <2>2 DEF EvenBelow, SymDiff
<1>6. Compared(block, stored, k + 1, SymDiff(p, Shr(Rest(stored, k), 1) \cap {k}))
  <2> DEFINE q == SymDiff(p, Shr(Rest(stored, k), 1) \cap {k})
  <2>1. ASSUME NEW i \in Ones
        PROVE  i \in q <=> Differ(i \in p, i = k /\ 2 * k + 1 \in stored)
    BY <1>4 DEF SymDiff, Differ
  <2>2. ASSUME NEW i \in Ones PROVE i + 16 \in q <=> i + 16 \in p
    <3>1. i + 16 # k
      BY <1>1
    <3> QED
      BY <1>4, <3>1 DEF SymDiff
  <2> HIDE DEF q
  <2>3. ASSUME NEW i \in Ones
        PROVE  i \in q <=> Differ(~IsOdd(Having(OnesIn(block), i, 1)), i < k + 1 /\ 2 * i + 1 \in stored)
    <3>1. i \in p <=> Differ(~IsOdd(Having(OnesIn(block), i, 1)), i < k /\ 2 * i + 1 \in stored)
      BY DEF Compared
    <3>2. CASE i = k
      <4>1. ~(i < k) /\ i < k + 1
        BY <1>1, <3>2
      <4> QED
        BY <2>1, <3>1, <3>2, <4>1 DEF Differ
    <3>3. CASE i # k
      <4>1. i < k <=> i < k + 1
        BY <1>1, <3>3
      <4> QED
        BY <2>1, <3>1, <3>3, <4>1 DEF Differ
    <3> QED
      BY <3>2, <3>3
  <2>4. Compared(block, stored, k + 1, q)
    BY <2>2, <2>3 DEF Compared
  <2> QED
    BY <2>4 DEF q
<1>7. Shl({k}, 1) = {k + 1}
  <2>1. \A i \in Int : i - 1 \in {k} <=> i = k + 1
    BY <1>1
  <2>2. k + 1 \in 0 .. 31
    BY <1>1
  <2> QED
    BY <2>1, <2>2 DEF Shl, Bit32
<1> QED
  BY <1>3, <1>5, <1>6, <1>7

LEMMA NothingCompared ==
  ASSUME NEW block, NEW stored \in SUBSET EccBits, NEW p, AddedAll(block, p)
  PROVE  /\ Compared(block, stored, 0, p)
         /\ EvenBelow(stored, 0) = {} /\ Rest(stored, 0) = stored
<1>1. \A i \in Ones : ~(i < 0)
  BY DEF Ones
<1>2. Compared(block, stored, 0, p)
  BY <1>1 DEF AddedAll, Compared, Differ
<1>3. EvenBelow(stored, 0) = {}
  BY <1>1 DEF EvenBelow
<1>4. \A j \in EccBits : j + 0 = j
  BY DEF EccBits
<1> QED
  BY <1>2, <1>3, <1>4 DEF Rest

-----------------------------------------------------------------------------
(* What was written cancels out                                            *)

DataFlips(fs) == fs \cap BitAddrs

\* The addresses, or the place in the ECC, of the flips with v in digit i.
Syndrome(fs, v) ==
  {i \in Ones : Differ(IsOdd(Having(DataFlips(fs), i, v)), 8 * Bytes + 2 * i + v \in fs)}

LEMMA FlippedOnes ==
  ASSUME NEW block \in [ByteIndex -> Byte], NEW fs
  PROVE  /\ DataRead(block, fs) \in [ByteIndex -> Byte]
         /\ OnesIn(DataRead(block, fs)) = SymDiff(OnesIn(block), DataFlips(fs))
<1>1. DataRead(block, fs) \in [ByteIndex -> Byte]
  BY DEF DataRead, SymDiff, Byte
<1>2. ASSUME NEW a \in BitAddrs
      PROVE  a % 8 \in DataRead(block, fs)[a \div 8] <=> Differ(a % 8 \in block[a \div 8], a \in fs)
  <2>1. a \div 8 \in ByteIndex /\ a % 8 \in 0 .. 7 /\ a = 8 * (a \div 8) + (a % 8)
    BY AddressParts
  <2>2. DataRead(block, fs)[a \div 8]
          = SymDiff(block[a \div 8], {i \in 0 .. 7 : 8 * (a \div 8) + i \in fs})
    BY <2>1 DEF DataRead
  <2>3. a % 8 \in {i \in 0 .. 7 : 8 * (a \div 8) + i \in fs} <=> a \in fs
    BY <2>1
  <2> QED
    BY <2>2, <2>3 DEF SymDiff, Differ
<1>3. OnesIn(DataRead(block, fs)) = SymDiff(OnesIn(block), DataFlips(fs))
  BY <1>2 DEF OnesIn, SymDiff, DataFlips, Differ
<1> QED
  BY <1>1, <1>3

LEMMA SyndromeLeft ==
  ASSUME NEW block \in [ByteIndex -> Byte], NEW fs, NEW i \in Ones, NEW v \in {0, 1}
  PROVE  i \in Syndrome(fs, v) <=>
           Differ(~IsOdd(Having(OnesIn(DataRead(block, fs)), i, v)), 2 * i + v \in EccRead(block, fs))
<1>1. IsFiniteSet(OnesIn(block)) /\ IsFiniteSet(DataFlips(fs))
  BY AddressesFinite DEF OnesIn, DataFlips
<1>2. IsOdd(Having(OnesIn(DataRead(block, fs)), i, v))
        <=> Differ(IsOdd(Having(OnesIn(block), i, v)), IsOdd(Having(DataFlips(fs), i, v)))
  BY <1>1, FlippedOnes, HavingSymDiff
<1>3. 2 * i + v \in EccBits /\ (2 * i + v) \div 2 = i /\ (2 * i + v) % 2 = v
        /\ 8 * Bytes + (2 * i + v) = 8 * Bytes + 2 * i + v
  BY EccSizes DEF Ones, EccBits
<1>4. 2 * i + v \in StoredEcc(block) <=> ~IsOdd(Having(OnesIn(block), i, v))
  BY <1>3 DEF StoredEcc
<1>5. 2 * i + v \in EccRead(block, fs) <=>
        Differ(2 * i + v \in StoredEcc(block), 8 * Bytes + 2 * i + v \in fs)
  BY <1>3 DEF EccRead, SymDiff, Differ
<1> QED
  BY <1>2, <1>4, <1>5 DEF Syndrome, Differ

\* After the last bit the two halves of the word are the syndrome of the flips.
LEMMA LastBitCompared ==
  ASSUME NEW block \in [ByteIndex -> Byte], NEW fs, NEW p \in SUBSET (Ones \cup Shl(Ones, 16)),
         Compared(DataRead(block, fs), EccRead(block, fs), Width, p)
  PROVE  LET q == SymDiff(p, Shl(EvenBelow(EccRead(block, fs), Width), 16))
         IN  /\ q \cap Ones = Syndrome(fs, 1)
             /\ Shr(q, 16) = Syndrome(fs, 0)
             /\ q \subseteq Ones \cup Shl(Ones, 16)
<1> DEFINE E    == EccRead(block, fs)
           even == EvenBelow(E, Width)
           q    == SymDiff(p, Shl(even, 16))
<1>1. Width \in 4 .. 11 /\ Ones = 0 .. Width - 1
  BY EccSizes DEF Ones
<1>2. even \subseteq Ones /\ \A i \in Ones : i \in even <=> 2 * i \in E
  BY <1>1 DEF EvenBelow
<1> HIDE DEF even
<1>3. \A i \in Ones : i \notin Shl(even, 16) /\ (i + 16 \in Shl(even, 16) <=> i \in even)
  BY <1>1, <1>2 DEF Shl, Bit32
<1>4. Shl(even, 16) \subseteq Shl(Ones, 16)
  BY <1>2 DEF Shl
<1>5. \A i \in Ones : /\ i \in q <=> i \in p
                      /\ i + 16 \in q <=> Differ(i + 16 \in p, i \in even)
  BY <1>3 DEF SymDiff, Differ
<1>6. q \subseteq Ones \cup Shl(Ones, 16)
  BY <1>4 DEF SymDiff
<1> HIDE DEF q, E
<1>7. /\ \A i \in Ones : i \in Syndrome(fs, 1) <=>
              Differ(~IsOdd(Having(OnesIn(DataRead(block, fs)), i, 1)), 2 * i + 1 \in E)
      /\ \A i \in Ones : i \in Syndrome(fs, 0) <=>
              Differ(~IsOdd(Having(OnesIn(DataRead(block, fs)), i, 0)), 2 * i \in E)
  <2>1. ASSUME NEW i \in Ones PROVE 2 * i + 0 = 2 * i
    BY <1>1
  <2> QED
    BY <2>1, SyndromeLeft DEF E
<1>8. /\ \A i \in Ones : i \in p <=>
              Differ(~IsOdd(Having(OnesIn(DataRead(block, fs)), i, 1)), 2 * i + 1 \in E)
      /\ \A i \in Ones : i + 16 \in p <=> ~IsOdd(Having(OnesIn(DataRead(block, fs)), i, 0))
  <2>1. \A i \in Ones : i < Width
    BY <1>1
  <2> QED
    BY <2>1 DEF Compared, E
<1>9. Syndrome(fs, 1) \subseteq Ones /\ Syndrome(fs, 0) \subseteq Ones
  BY DEF Syndrome
<1>10. q \cap Ones = Syndrome(fs, 1)
  BY <1>5, <1>7, <1>8, <1>9
<1>11. ASSUME NEW i \in Ones PROVE i + 16 \in q <=> i \in Syndrome(fs, 0)
  BY <1>2, <1>5, <1>7, <1>8 DEF Differ
<1>12. Shr(q, 16) = Syndrome(fs, 0)
  <2>1. ASSUME NEW i \in Shr(q, 16) PROVE i \in Ones /\ i + 16 \in q
    <3>1. i \in 0 .. 31 /\ i + 16 \in q
      BY <2>1 DEF Shr, Bit32
    <3>2. i + 16 \notin Ones
      BY <1>1, <3>1
    <3>3. i + 16 \in Shl(Ones, 16)
      BY <1>6, <3>1, <3>2
    <3> QED
      BY <3>1, <3>3 DEF Shl
  <2>2. \A i \in Ones : i \in Bit32
    BY <1>1 DEF Bit32
  <2> QED
    BY <1>9, <1>11, <2>1, <2>2 DEF Shr
<1> QED
  BY <1>6, <1>10, <1>12 DEF q, even, E

-----------------------------------------------------------------------------
(* What the syndrome says of the flips                                     *)

LEMMA NoSyndrome == Syndrome({}, 1) = {} /\ Syndrome({}, 0) = {}
<1>1. DataFlips({}) = {} /\ \A i, v : Having({}, i, v) = {}
  BY DEF DataFlips, Having
<1> QED
  BY <1>1, OddFew DEF Syndrome, Differ

LEMMA SyndromesAdd ==
  ASSUME NEW f, NEW g, NEW v
  PROVE  Syndrome(SymDiff(f, g), v) = SymDiff(Syndrome(f, v), Syndrome(g, v))
<1>1. DataFlips(SymDiff(f, g)) = SymDiff(DataFlips(f), DataFlips(g))
  BY DEF DataFlips, SymDiff
<1>2. IsFiniteSet(DataFlips(f)) /\ IsFiniteSet(DataFlips(g))
  BY AddressesFinite DEF DataFlips
<1>3. ASSUME NEW i \in Ones
      PROVE  i \in Syndrome(SymDiff(f, g), v) <=> Differ(i \in Syndrome(f, v), i \in Syndrome(g, v))
  <2>1. IsOdd(Having(DataFlips(SymDiff(f, g)), i, v))
          <=> Differ(IsOdd(Having(DataFlips(f), i, v)), IsOdd(Having(DataFlips(g), i, v)))
    BY <1>1, <1>2, HavingSymDiff
  <2>2. 8 * Bytes + 2 * i + v \in SymDiff(f, g)
          <=> Differ(8 * Bytes + 2 * i + v \in f, 8 * Bytes + 2 * i + v \in g)
    BY DEF SymDiff, Differ
  <2> QED
    BY <2>1, <2>2 DEF Syndrome, Differ
<1> QED
  BY <1>3 DEF Syndrome, SymDiff, Differ

LEMMA DataSyndrome ==
  ASSUME NEW a \in BitAddrs
  PROVE  Syndrome({a}, 1) = Digits(a) /\ Syndrome({a}, 0) = Ones \ Digits(a)
<1>1. DataFlips({a}) = {a}
  BY DEF DataFlips
<1>2. \A i \in Ones : 8 * Bytes + 2 * i + 1 # a /\ 8 * Bytes + 2 * i + 0 # a
  BY EccSizes DEF Ones, BitAddrs
<1>3. ASSUME NEW i \in Ones
      PROVE  /\ IsOdd(Having({a}, i, 1)) <=> i \in Digits(a)
             /\ IsOdd(Having({a}, i, 0)) <=> i \notin Digits(a)
  <2>1. CASE i \in Digits(a)
    <3>1. Having({a}, i, 1) = {a} /\ Having({a}, i, 0) = {}
      BY <2>1 DEF Having
    <3> QED
      BY <2>1, <3>1, OddFew
  <2>2. CASE i \notin Digits(a)
    <3>1. Having({a}, i, 1) = {} /\ Having({a}, i, 0) = {a}
      BY <2>2 DEF Having
    <3> QED
      BY <2>2, <3>1, OddFew
  <2> QED
    BY <2>1, <2>2
<1>4. Digits(a) \subseteq Ones
  BY DEF Digits, Ones
<1> QED
  BY <1>1, <1>2, <1>3, <1>4 DEF Syndrome, Differ

LEMMA EccSyndrome ==
  ASSUME NEW j \in EccBits
  PROVE  /\ j \div 2 \in Ones
         /\ j % 2 = 1 => Syndrome({8 * Bytes + j}, 1) = {j \div 2} /\ Syndrome({8 * Bytes + j}, 0) = {}
         /\ j % 2 = 0 => Syndrome({8 * Bytes + j}, 1) = {} /\ Syndrome({8 * Bytes + j}, 0) = {j \div 2}
<1>1. DataFlips({8 * Bytes + j}) = {}
  BY EccSizes DEF DataFlips, BitAddrs, EccBits
<1>2. \A i, v : ~IsOdd(Having({}, i, v))
  <2>1. \A i, v : Having({}, i, v) = {}
    BY DEF Having
  <2> QED
    BY <2>1, OddFew
<1>3. j \div 2 \in Ones /\ j \in Nat
  BY EccSizes DEF Ones, EccBits
<1>4. ASSUME NEW i \in Ones
      PROVE  /\ 8 * Bytes + 2 * i + 1 = 8 * Bytes + j <=> (j % 2 = 1 /\ i = j \div 2)
             /\ 8 * Bytes + 2 * i + 0 = 8 * Bytes + j <=> (j % 2 = 0 /\ i = j \div 2)
  <2>1. i \in Nat /\ 8 * Bytes \in Nat
    BY EccSizes DEF Ones
  <2> QED
    BY <1>3, <2>1
<1>5. /\ Syndrome({8 * Bytes + j}, 1) = {i \in Ones : j % 2 = 1 /\ i = j \div 2}
      /\ Syndrome({8 * Bytes + j}, 0) = {i \in Ones : j % 2 = 0 /\ i = j \div 2}
  BY <1>1, <1>2, <1>4 DEF Syndrome, Differ
<1>6. CASE j % 2 = 1
  <2>1. Syndrome({8 * Bytes + j}, 1) = {j \div 2}
    BY <1>3, <1>5, <1>6
  <2>2. Syndrome({8 * Bytes + j}, 0) = {}
    <3>1. j % 2 # 0
      BY <1>6
    <3>2. \A i : i \notin Syndrome({8 * Bytes + j}, 0)
      BY <1>5, <3>1
    <3> QED
      BY <3>2
  <2> QED
    BY <1>3, <1>6, <2>1, <2>2
<1>7. CASE j % 2 = 0
  <2>1. Syndrome({8 * Bytes + j}, 0) = {j \div 2}
    BY <1>3, <1>5, <1>7
  <2>2. Syndrome({8 * Bytes + j}, 1) = {}
    <3>1. j % 2 # 1
      BY <1>7
    <3>2. \A i : i \notin Syndrome({8 * Bytes + j}, 1)
      BY <1>5, <3>1
    <3> QED
      BY <3>2
  <2> QED
    BY <1>3, <1>7, <2>1, <2>2
<1> QED
  BY <1>3, <1>6, <1>7

LEMMA FlipKinds ==
  ASSUME NEW a \in FlipBits
  PROVE  a \in BitAddrs \/ \E j \in EccBits : a = 8 * Bytes + j
<1>1. CASE a < 8 * Bytes
  BY <1>1, EccSizes DEF FlipBits, BitAddrs
<1>2. CASE a >= 8 * Bytes
  <2>1. a - 8 * Bytes \in EccBits /\ a = 8 * Bytes + (a - 8 * Bytes)
    BY <1>2, EccSizes DEF FlipBits, EccBits
  <2> QED
    BY <2>1
<1> QED
  BY <1>1, <1>2, EccSizes DEF FlipBits

\* More than one bit is set in a word with these halves.
Several(odd, even) ==
  \/ \E i \in Ones : i \in odd /\ i \in even
  \/ \E i, j \in Ones : i # j /\ i \in odd \cup even /\ j \in odd \cup even

\* No error of two flips looks like one of a single flip, or like none.
LEMMA TwoFlips ==
  ASSUME NEW a \in FlipBits, NEW b \in FlipBits, a # b
  PROVE  /\ SymDiff(Syndrome({a, b}, 1), Syndrome({a, b}, 0)) # Ones
         /\ Several(Syndrome({a, b}, 1), Syndrome({a, b}, 0))
<1> DEFINE O  == Syndrome({a, b}, 1)  E  == Syndrome({a, b}, 0)
           Oa == Syndrome({a}, 1)     Ea == Syndrome({a}, 0)
           Ob == Syndrome({b}, 1)     Eb == Syndrome({b}, 0)
<1>1. O = SymDiff(Oa, Ob) /\ E = SymDiff(Ea, Eb)
  <2>1. SymDiff({a}, {b}) = {a, b}
    BY DEF SymDiff
  <2>2. \A v : Syndrome(SymDiff({a}, {b}), v) = SymDiff(Syndrome({a}, v), Syndrome({b}, v))
    BY SyndromesAdd
  <2> QED
    BY <2>1, <2>2
<1>2. Width \in 4 .. 11 /\ Ones = 0 .. Width - 1 /\ 0 \in Ones /\ 1 \in Ones /\ 2 \in Ones
  BY EccSizes DEF Ones
<1>3. \A x \in BitAddrs : Digits(x) \subseteq Ones
  BY DEF Digits, Ones
<1>4. \/ a \in BitAddrs /\ b \in BitAddrs
      \/ a \in BitAddrs /\ \E j \in EccBits : b = 8 * Bytes + j
      \/ b \in BitAddrs /\ \E j \in EccBits : a = 8 * Bytes + j
      \/ (\E j \in EccBits : a = 8 * Bytes + j) /\ (\E j \in EccBits : b = 8 * Bytes + j)
  BY FlipKinds
<1> HIDE DEF O, E
<1>5. CASE a \in BitAddrs /\ b \in BitAddrs
  <2>1. /\ Oa = Digits(a) /\ Ea = Ones \ Digits(a) /\ Ob = Digits(b) /\ Eb = Ones \ Digits(b)
    BY <1>5, DataSyndrome
  <2>2. Digits(a) # Digits(b)
    BY <1>5, DigitsInjective, AddressParts
  <2> HIDE DEF Oa, Ea, Ob, Eb
  <2>3. O = E
    BY <1>1, <1>3, <1>5, <2>1 DEF SymDiff
  <2>4. \E i \in Ones : i \in O
    BY <1>1, <1>3, <1>5, <2>1, <2>2 DEF SymDiff
  <2>5. SymDiff(O, E) = {}
    BY <2>3 DEF SymDiff
  <2> QED
    BY <1>2, <2>3, <2>4, <2>5 DEF Several, O, E
<1>6. ASSUME NEW h \in Ones, SymDiff(O, E) = Ones \ {h}
      PROVE  SymDiff(O, E) # Ones /\ Several(O, E)
  <2>1. PICK i, j \in Ones : i # j /\ i # h /\ j # h
    <3>1. CASE h = 0
      <4>1. 1 # 2 /\ 1 # h /\ 2 # h
        BY <3>1
      <4> QED
        BY <1>2, <4>1
    <3>2. CASE h = 1
      <4>1. 0 # 2 /\ 0 # h /\ 2 # h
        BY <3>2
      <4> QED
        BY <1>2, <4>1
    <3>3. CASE h # 0 /\ h # 1
      <4>1. 0 # 1 /\ 0 # h /\ 1 # h
        BY <3>3
      <4> QED
        BY <1>2, <4>1
    <3> QED
      BY <3>1, <3>2, <3>3
  <2>2. i \in SymDiff(O, E) /\ j \in SymDiff(O, E)
    BY <1>6, <2>1
  <2>3. i \in O \cup E /\ j \in O \cup E
    BY <2>2 DEF SymDiff
  <2> QED
    BY <1>6, <2>1, <2>3 DEF Several
<1>7. CASE a \in BitAddrs /\ \E j \in EccBits : b = 8 * Bytes + j
  <2>1. PICK j \in EccBits : b = 8 * Bytes + j
    BY <1>7
  <2>2. Oa = Digits(a) /\ Ea = Ones \ Digits(a) /\ Digits(a) \subseteq Ones
    BY <1>3, <1>7, DataSyndrome
  <2>3. j \div 2 \in Ones /\ SymDiff(Ob, Eb) = {j \div 2}
    <3>1. j % 2 = 0 \/ j % 2 = 1
      BY DEF EccBits
    <3> QED
      BY <2>1, <3>1, EccSyndrome DEF SymDiff
  <2> HIDE DEF Oa, Ea, Ob, Eb
  <2>4. SymDiff(O, E) = SymDiff(SymDiff(Oa, Ea), SymDiff(Ob, Eb))
    BY <1>1 DEF SymDiff
  <2>5. SymDiff(Oa, Ea) = Ones
    BY <2>2 DEF SymDiff
  <2>6. SymDiff(O, E) = Ones \ {j \div 2}
    BY <2>3, <2>4, <2>5 DEF SymDiff
  <2> QED
    BY <1>6, <2>3, <2>6 DEF O, E
<1>8. CASE b \in BitAddrs /\ \E j \in EccBits : a = 8 * Bytes + j
  <2>1. PICK j \in EccBits : a = 8 * Bytes + j
    BY <1>8
  <2>2. Ob = Digits(b) /\ Eb = Ones \ Digits(b) /\ Digits(b) \subseteq Ones
    BY <1>3, <1>8, DataSyndrome
  <2>3. j \div 2 \in Ones /\ SymDiff(Oa, Ea) = {j \div 2}
    <3>1. j % 2 = 0 \/ j % 2 = 1
      BY DEF EccBits
    <3> QED
      BY <2>1, <3>1, EccSyndrome DEF SymDiff
  <2> HIDE DEF Oa, Ea, Ob, Eb
  <2>4. SymDiff(O, E) = SymDiff(SymDiff(Oa, Ea), SymDiff(Ob, Eb))
    BY <1>1 DEF SymDiff
  <2>5. SymDiff(Ob, Eb) = Ones
    BY <2>2 DEF SymDiff
  <2>6. SymDiff(O, E) = Ones \ {j \div 2}
    BY <2>3, <2>4, <2>5 DEF SymDiff
  <2> QED
    BY <1>6, <2>3, <2>6 DEF O, E
<1>9. CASE (\E j \in EccBits : a = 8 * Bytes + j) /\ (\E j \in EccBits : b = 8 * Bytes + j)
  <2>1. PICK j \in EccBits, k \in EccBits : a = 8 * Bytes + j /\ b = 8 * Bytes + k
    BY <1>9
  <2>2. /\ j \div 2 \in Ones /\ k \div 2 \in Ones
        /\ j % 2 = 1 => Oa = {j \div 2} /\ Ea = {}
        /\ j % 2 = 0 => Oa = {} /\ Ea = {j \div 2}
        /\ k % 2 = 1 => Ob = {k \div 2} /\ Eb = {}
        /\ k % 2 = 0 => Ob = {} /\ Eb = {k \div 2}
    BY <2>1, EccSyndrome
  <2>3. (j % 2 = 0 \/ j % 2 = 1) /\ (k % 2 = 0 \/ k % 2 = 1) /\ j # k
    BY <2>1 DEF EccBits
  <2>4. j \div 2 = k \div 2 => j % 2 # k % 2
    BY <2>3 DEF EccBits
  <2> HIDE DEF Oa, Ea, Ob, Eb
  <2> DEFINE g == j \div 2
             h == k \div 2
  <2>5. g \in Ones /\ h \in Ones
    BY <2>2
  <2>6. CASE g = h
    <3>1. O = {g} /\ E = {g}
      BY <1>1, <2>2, <2>3, <2>4, <2>6 DEF SymDiff
    <3>2. SymDiff(O, E) = {}
      BY <3>1 DEF SymDiff
    <3> QED
      BY <1>2, <2>5, <3>1, <3>2 DEF Several, O, E
  <2>7. CASE g # h
    <3>1. SymDiff(O, E) \subseteq {g, h}
      BY <1>1, <2>2, <2>3 DEF SymDiff
    <3>2. g \in O \cup E /\ h \in O \cup E
      BY <1>1, <2>2, <2>3, <2>7 DEF SymDiff
    <3> HIDE DEF g, h
    <3>3. SymDiff(O, E) # Ones
      <4> SUFFICES ASSUME SymDiff(O, E) = Ones PROVE FALSE
        OBVIOUS
      <4>1. 0 \in {g, h} /\ 1 \in {g, h} /\ 2 \in {g, h}
        BY <1>2, <3>1
      <4> QED
        BY <4>1
    <3> QED
      BY <2>5, <2>7, <3>2, <3>3 DEF Several, O, E
  <2> QED
    BY <2>6, <2>7
<1> QED
  BY <1>4, <1>5, <1>7, <1>8, <1>9 DEF O, E

-----------------------------------------------------------------------------
(* The invariant                                                           *)

Stored == EccRead(original, flips)

AddingBytes ==
  /\ pos \in 1 .. Bytes /\ AddedFrom(data, pos, parity)
  /\ ecc = Stored /\ even_bits = {} /\ bit = {0}

ComparingBits ==
  \E k \in Ones :
    /\ bit = {k} /\ ecc = Rest(Stored, k) /\ even_bits = EvenBelow(Stored, k)
    /\ Compared(data, Stored, k, parity)

EccInv ==
  /\ EccTypeOK
  /\ original \in [ByteIndex -> Byte]
  /\ flips \in {{}} \cup {{a, b} : a, b \in FlipBits}
  /\ pc # "done" => data = DataRead(original, flips)
  /\ pc = "bytes" => AddingBytes
  /\ pc = "bits" => ComparingBits
  /\ pc = "judge" => Odd = Syndrome(flips, 1) /\ Even = Syndrome(flips, 0)
  /\ Verdict

LEMMA StoredBits ==
  /\ Stored \in SUBSET EccBits
  /\ \A k : EvenBelow(Stored, k) \subseteq Ones /\ Rest(Stored, k) \subseteq EccBits
  /\ \A i \in Ones : {i} \in {{k} : k \in 0 .. Width} /\ {i + 1} \in {{k} : k \in 0 .. Width}
<1>1. Stored \in SUBSET EccBits
  BY DEF Stored, EccRead, StoredEcc, SymDiff
<1>2. \A k : EvenBelow(Stored, k) \subseteq Ones /\ Rest(Stored, k) \subseteq EccBits
  BY DEF EvenBelow, Rest
<1>3. \A i \in Ones : i \in 0 .. Width /\ i + 1 \in 0 .. Width
  BY EccSizes DEF Ones
<1> QED
  BY <1>1, <1>2, <1>3

LEMMA EccInitOK == EccInit => EccInv
<1> SUFFICES ASSUME EccInit PROVE EccInv
  OBVIOUS
<1> USE DEF EccInit
<1>1. original \in [ByteIndex -> Byte]
  BY EccAssumption DEF EccAssumption
<1>2. data \in [ByteIndex -> Byte]
  BY <1>1, FlippedOnes
<1>3. AddingBytes
  <2>1. Bytes \in 1 .. Bytes
    BY EccSizes
  <2> QED
    BY <1>2, <2>1, FirstAndLastByte DEF AddingBytes, Stored
<1>4. EccTypeOK
  <2>1. ecc \subseteq EccBits /\ bit \in {{k} : k \in 0 .. Width} /\ pos \in 0 .. Bytes
    BY StoredBits, EccSizes DEF Stored
  <2> QED
    BY <1>2, <2>1 DEF EccTypeOK
<1> QED
  BY <1>1, <1>3, <1>4 DEF EccInv, Verdict

LEMMA AddByteOK == EccInv /\ AddByte => EccInv'
<1> SUFFICES ASSUME EccInv, AddByte PROVE EccInv'
  OBVIOUS
<1> DEFINE p == WithByte(parity, data[pos - 1], pos - 1)
<1>1. /\ pc = "bytes" /\ pos' = pos - 1
      /\ pos' = 0 => pc' = "bits" /\ parity' = SymDiff(p, Shl(p, 16))
      /\ pos' # 0 => pc' = "bytes" /\ parity' = p
      /\ UNCHANGED <<data, ecc, even_bits, bit, result, original, flips>>
  BY DEF AddByte
<1>2. /\ data \in [ByteIndex -> Byte] /\ pos \in 1 .. Bytes /\ AddedFrom(data, pos, parity)
      /\ ecc = Stored /\ even_bits = {} /\ bit = {0}
      /\ parity \subseteq Ones \cup Shl(Ones, 16)
      /\ data = DataRead(original, flips)
  BY <1>1 DEF EccInv, EccTypeOK, AddingBytes
<1>3. pos - 1 \in ByteIndex /\ data[pos - 1] \in Byte
  BY <1>2, OnesFromByte
<1>4. AddedFrom(data, pos - 1, p) /\ p \subseteq Ones \cup Shl(Ones, 16)
  BY <1>2, <1>3, ByteAdded, ByteFlips
<1> HIDE DEF p
<1>5. pos' \in 0 .. Bytes /\ Stored' = Stored /\ Bytes \in Nat
  BY <1>1, <1>2, EccSizes DEF Stored
<1>6. CASE pos' = 0
  <2>1. pc' = "bits" /\ parity' = SymDiff(p, Shl(p, 16)) /\ pos - 1 = 0
    BY <1>1, <1>6
  <2>2. AddedAll(data, parity')
    BY <1>2, <1>4, <2>1, FirstAndLastByte
  <2>3. parity' \subseteq Ones \cup Shl(Ones, 16)
    <3>1. Shl(p, 16) \subseteq Shl(Ones, 16)
      <4>1. ASSUME NEW i \in Shl(p, 16) PROVE i \in Shl(Ones, 16)
        <5>1. i \in 0 .. 31 /\ i - 16 \in p
          BY <4>1 DEF Shl, Bit32
        <5>2. i - 16 \notin Shl(Ones, 16)
          BY <5>1 DEF Shl, Ones
        <5> QED
          BY <1>4, <5>1, <5>2 DEF Shl, Bit32
      <4> QED
        BY <4>1
    <3> QED
      BY <1>4, <2>1, <3>1 DEF SymDiff
  <2>4. ComparingBits'
    <3>1. Compared(data, Stored, 0, parity') /\ EvenBelow(Stored, 0) = {} /\ Rest(Stored, 0) = Stored
      BY <2>2, StoredBits, NothingCompared
    <3>2. 0 \in Ones
      BY EccSizes DEF Ones
    <3>3. /\ bit' = {0} /\ ecc' = Rest(Stored', 0) /\ even_bits' = EvenBelow(Stored', 0)
          /\ Compared(data', Stored', 0, parity')
      BY <1>1, <1>2, <1>5, <3>1
    <3> QED
      BY <3>2, <3>3 DEF ComparingBits
  <2>5. EccTypeOK'
    BY <1>1, <1>5, <2>1, <2>3 DEF EccInv, EccTypeOK
  <2> QED
    BY <1>1, <2>1, <2>4, <2>5 DEF EccInv, Verdict
<1>7. CASE pos' # 0
  <2>1. pc' = "bytes" /\ parity' = p /\ pos' \in 1 .. Bytes
    <3>1. pc' = "bytes" /\ parity' = p
      BY <1>1, <1>7
    <3>2. pos' \in 1 .. Bytes
      BY <1>5, <1>7
    <3> QED
      BY <3>1, <3>2
  <2>2. AddingBytes'
    BY <1>1, <1>2, <1>4, <1>5, <2>1 DEF AddingBytes
  <2>3. EccTypeOK'
    BY <1>1, <1>4, <1>5, <2>1 DEF EccInv, EccTypeOK
  <2> QED
    BY <1>1, <2>1, <2>2, <2>3 DEF EccInv, Verdict
<1> QED
  BY <1>6, <1>7

LEMMA CompareBitOK == EccInv /\ CompareBit => EccInv'
<1> SUFFICES ASSUME EccInv, CompareBit PROVE EccInv'
  OBVIOUS
<1>1. /\ pc = "bits" /\ ComparingBits /\ data = DataRead(original, flips)
      /\ original \in [ByteIndex -> Byte] /\ parity \subseteq Ones \cup Shl(Ones, 16)
      /\ UNCHANGED <<data, pos, result, original, flips>>
  BY DEF CompareBit, EccInv, EccTypeOK
<1>2. PICK k \in Ones :
        /\ bit = {k} /\ ecc = Rest(Stored, k) /\ even_bits = EvenBelow(Stored, k)
        /\ Compared(data, Stored, k, parity)
  BY <1>1 DEF ComparingBits
<1> DEFINE even == SymDiff(even_bits, ecc \cap bit)
           odd  == SymDiff(parity, Shr(ecc, 1) \cap bit)
<1>3. /\ even_bits' = even
      /\ Shl(bit, 1) \subseteq Ones => pc' = "bits" /\ parity' = odd
      /\ ~(Shl(bit, 1) \subseteq Ones) => pc' = "judge" /\ parity' = SymDiff(odd, Shl(even, 16))
      /\ ecc' = Shr(ecc, 1) /\ bit' = Shl(bit, 1)
  BY DEF CompareBit
<1>4. /\ even = EvenBelow(Stored, k + 1)
      /\ Compared(data, Stored, k + 1, odd)
      /\ Shr(ecc, 1) = Rest(Stored, k + 1)
      /\ Shl(bit, 1) = {k + 1}
  BY <1>2, StoredBits, BitCompared
<1>5. odd \subseteq Ones \cup Shl(Ones, 16)
  BY <1>1, <1>2 DEF SymDiff
<1> HIDE DEF even, odd
<1>6. /\ even_bits' \subseteq Ones /\ ecc' \subseteq EccBits /\ bit' \in {{i} : i \in 0 .. Width}
      /\ Stored' = Stored
  BY <1>1, <1>3, <1>4, StoredBits DEF Stored
<1>7. CASE k + 1 \in Ones
  <2>1. pc' = "bits" /\ parity' = odd
    BY <1>3, <1>4, <1>7
  <2>2. ComparingBits'
    <3>1. /\ bit' = {k + 1} /\ ecc' = Rest(Stored', k + 1) /\ even_bits' = EvenBelow(Stored', k + 1)
          /\ Compared(data', Stored', k + 1, parity')
      BY <1>1, <1>3, <1>4, <1>6, <2>1
    <3> QED
      BY <1>7, <3>1 DEF ComparingBits
  <2>3. EccTypeOK'
    BY <1>1, <1>5, <1>6, <2>1 DEF EccInv, EccTypeOK
  <2> QED
    BY <1>1, <2>1, <2>2, <2>3 DEF EccInv, Verdict
<1>8. CASE k + 1 \notin Ones
  <2>1. pc' = "judge" /\ parity' = SymDiff(odd, Shl(even, 16))
    BY <1>3, <1>4, <1>8
  <2>2. k + 1 = Width
    BY <1>8, EccSizes DEF Ones
  <2>3. /\ parity' \cap Ones = Syndrome(flips, 1)
        /\ Shr(parity', 16) = Syndrome(flips, 0)
        /\ parity' \subseteq Ones \cup Shl(Ones, 16)
    BY <1>1, <1>4, <1>5, <2>1, <2>2, LastBitCompared DEF Stored
  <2>4. Odd' = Syndrome(flips', 1) /\ Even' = Syndrome(flips', 0)
    <3>1. flips' = flips /\ Ones' = Ones
      BY <1>1 DEF Ones, Width
    <3> QED
      BY <2>3, <3>1 DEF Odd, Even
  <2>5. EccTypeOK'
    BY <1>1, <1>6, <2>1, <2>3 DEF EccInv, EccTypeOK
  <2> QED
    BY <1>1, <2>1, <2>4, <2>5 DEF EccInv, Verdict
<1> QED
  BY <1>7, <1>8

-----------------------------------------------------------------------------
(* The judgement                                                           *)

\* A word with several bits set is neither empty nor a power of two.
LEMMA SeveralBits ==
  ASSUME parity \subseteq Ones \cup Shl(Ones, 16)
  PROVE  /\ parity = {} <=> Odd = {} /\ Even = {}
         /\ Several(Odd, Even) => WithoutLowest(parity) # {}
         /\ \A i \in Ones : /\ Odd = {i} /\ Even = {} => WithoutLowest(parity) = {}
                            /\ Odd = {} /\ Even = {i} => WithoutLowest(parity) = {}
<1>1. Width \in 4 .. 11 /\ Ones = 0 .. Width - 1
  BY EccSizes DEF Ones
<1>2. \A i \in Odd : i \in parity /\ i \in Ones
  BY DEF Odd
<1>3. \A i \in Even : i + 16 \in parity /\ i \in 0 .. 31
  BY DEF Even, Shr, Bit32
<1>4. \A x \in parity : x \in Int /\ (x \in Odd \/ (x - 16 \in Even /\ x - 16 \in Ones))
  <2> SUFFICES ASSUME NEW x \in parity PROVE x \in Int /\ (x \in Odd \/ (x - 16 \in Even /\ x - 16 \in Ones))
    OBVIOUS
  <2>1. CASE x \in Ones
    BY <1>1, <2>1 DEF Odd
  <2>2. CASE x \in Shl(Ones, 16)
    <3>1. x \in 0 .. 31 /\ x - 16 \in Ones
      BY <2>2 DEF Shl, Bit32
    <3>2. x - 16 \in 0 .. 31 /\ (x - 16) + 16 = x
      BY <1>1, <3>1
    <3> QED
      BY <3>1, <3>2 DEF Even, Shr, Bit32
  <2> QED
    BY <2>1, <2>2
<1>5. parity = {} <=> Odd = {} /\ Even = {}
  BY <1>2, <1>3, <1>4
<1>6. ASSUME NEW x \in parity, NEW y \in parity, x # y PROVE WithoutLowest(parity) # {}
  <2>1. x < y \/ y < x
    BY <1>4, <1>6
  <2> QED
    BY <2>1 DEF WithoutLowest
<1>7. ASSUME Several(Odd, Even) PROVE WithoutLowest(parity) # {}
  <2>1. CASE \E i \in Ones : i \in Odd /\ i \in Even
    <3>1. PICK i \in Ones : i \in Odd /\ i \in Even
      BY <2>1
    <3>2. i \in parity /\ i + 16 \in parity /\ i # i + 16
      BY <1>1, <1>2, <1>3, <3>1
    <3> QED
      BY <1>6, <3>2
  <2>2. CASE \E i, j \in Ones : i # j /\ i \in Odd \cup Even /\ j \in Odd \cup Even
    <3>1. PICK i \in Ones, j \in Ones : i # j /\ i \in Odd \cup Even /\ j \in Odd \cup Even
      BY <2>2
    <3>2. PICK x \in {i, i + 16} : x \in parity
      BY <1>2, <1>3, <3>1
    <3>3. PICK y \in {j, j + 16} : y \in parity
      BY <1>2, <1>3, <3>1
    <3>4. x # y
      BY <1>1, <3>1, <3>2, <3>3
    <3> QED
      BY <1>6, <3>2, <3>3, <3>4
  <2> QED
    BY <1>7, <2>1, <2>2 DEF Several
<1>8. ASSUME NEW i \in Ones, \/ Odd = {i} /\ Even = {}
                             \/ Odd = {} /\ Even = {i}
      PROVE  WithoutLowest(parity) = {}
  <2>1. \A x, y \in parity : x = y
    BY <1>4, <1>8
  <2>2. \A x, y \in parity : ~(y < x)
    BY <1>4, <2>1
  <2> QED
    BY <2>2 DEF WithoutLowest
<1> QED
  BY <1>5, <1>7, <1>8

\* The odd parities are the address of the bit to correct.
LEMMA Corrected ==
  ASSUME NEW block \in [ByteIndex -> Byte], NEW a \in BitAddrs,
         data = DataRead(block, {a}), Odd = Digits(a), CorrectBit
  PROVE  data' = block
<1> DEFINE n == a \div 8
           b == a % 8
<1>1. n \in ByteIndex /\ b \in 0 .. 7 /\ a = 8 * n + b
  BY AddressParts
<1> HIDE DEF n, b
<1>2. Width \in 4 .. 11 /\ Ones = 0 .. Width - 1
  BY EccSizes DEF Ones
<1>3. \A i \in Ones :
        /\ i < 3 => (i \in Odd <=> i \in Digits(b))
        /\ i >= 3 => (i \in Odd <=> i - 3 \in Digits(n))
  BY <1>1, AddressDigits
<1>4. Value(Shr(Odd, 3)) = n
  <2>1. ASSUME NEW i \in Shr(Odd, 3) PROVE i \in Digits(n)
    <3>1. i \in 0 .. 31 /\ i + 3 \in Odd /\ i + 3 \in Ones
      BY <2>1 DEF Shr, Bit32, Odd
    <3>2. i + 3 >= 3 /\ (i + 3) - 3 = i
      BY <3>1
    <3> QED
      BY <1>3, <3>1, <3>2
  <2>2. ASSUME NEW i \in Digits(n) PROVE i \in Shr(Odd, 3)
    <3>1. i \in 0 .. Width - 4
      BY <1>1, IndexDigits
    <3>2. i + 3 \in Ones /\ i + 3 >= 3 /\ (i + 3) - 3 = i /\ i \in 0 .. 31
      BY <1>2, <3>1
    <3>3. i + 3 \in Odd
      BY <1>3, <3>2
    <3> QED
      BY <3>2, <3>3 DEF Shr, Bit32
  <2>3. n \in 0 .. 2^Width - 1
    BY <1>1, EccSizes DEF ByteIndex
  <2>4. Shr(Odd, 3) = Digits(n)
    BY <2>1, <2>2
  <2> QED
    BY <2>3, <2>4, ValueOfDigits
<1>5. Value(Odd \cap {0, 1, 2}) = b
  <2>1. b \in 0 .. 2^Width - 1
    BY <1>1, EccSizes
  <2>2. \A i \in Digits(b) : i \in {0, 1, 2}
    <3> SUFFICES ASSUME NEW i \in Digits(b) PROVE i \in {0, 1, 2}
      OBVIOUS
    <3>1. i \in 0 .. 10 /\ (b \div 2^i) % 2 = 1
      BY EccSizes DEF Digits
    <3>2. CASE i >= 3
      <4> DEFINE j == 3
      <4>1. j \in 0 .. i /\ i \in 0 .. 11 /\ 2^j = 8
        BY <3>1, <3>2
      <4> HIDE DEF j
      <4>2. 8 <= 2^i /\ 2^i \in Nat
        BY <4>1, PowersGrow
      <4>3. b \in Nat /\ b < 2^i
        BY <1>1, <4>2
      <4>4. b \div 2^i = 0
        BY <3>1, <4>3, Halving
      <4> QED
        BY <3>1, <4>4
    <3> QED
      BY <3>1, <3>2
  <2>3. {0, 1, 2} \subseteq Ones /\ \A i \in {0, 1, 2} : i < 3
    BY <1>2
  <2>4. Odd \cap {0, 1, 2} = Digits(b)
    BY <1>3, <2>2, <2>3
  <2> QED
    BY <2>1, <2>4, ValueOfDigits
<1>6. data' = [data EXCEPT ![n] = SymDiff(data[n], {b})]
  BY <1>4, <1>5 DEF CorrectBit
<1>7. ASSUME NEW m \in ByteIndex
      PROVE  data[m] = SymDiff(block[m], IF m = n THEN {b} ELSE {})
  <2>1. data[m] = SymDiff(block[m], {i \in 0 .. 7 : 8 * m + i = a})
    BY DEF DataRead
  <2>2. \A i \in 0 .. 7 : 8 * m + i = a <=> (m = n /\ i = b)
    <3>1. m \in Nat /\ n \in Nat
      BY <1>1, EccSizes DEF ByteIndex
    <3> QED
      BY <1>1, <3>1
  <2>3. {i \in 0 .. 7 : 8 * m + i = a} = IF m = n THEN {b} ELSE {}
    BY <1>1, <2>2
  <2> QED
    BY <2>1, <2>3
<1>8. data \in [ByteIndex -> Byte]
  BY FlippedOnes
<1>9. ASSUME NEW m \in ByteIndex PROVE data'[m] = block[m]
  <2>1. CASE m = n
    BY <1>1, <1>6, <1>7, <1>8, <2>1 DEF SymDiff
  <2>2. CASE m # n
    BY <1>1, <1>6, <1>7, <1>8, <2>2 DEF SymDiff
  <2> QED
    BY <2>1, <2>2
<1>10. data' \in [ByteIndex -> Byte]
  BY <1>1, <1>6, <1>8 DEF SymDiff, Byte
<1> QED
  BY <1>9, <1>10

\* Flips in the ECC alone leave the data as it was written.
LEMMA DataUnflipped ==
  ASSUME NEW block \in [ByteIndex -> Byte], NEW fs, fs \cap BitAddrs = {}
  PROVE  DataRead(block, fs) = block
<1>1. ASSUME NEW n \in ByteIndex PROVE DataRead(block, fs)[n] = block[n]
  <2>1. \A i \in 0 .. 7 : 8 * n + i \notin fs
    BY AddressDigits
  <2> QED
    BY <2>1 DEF DataRead, SymDiff
<1>2. DataRead(block, fs) \in [ByteIndex -> Byte]
  BY FlippedOnes
<1> QED
  BY <1>1, <1>2

LEMMA NoSuchSyndromes == Ones # {} /\ \A i \in Ones : Ones # {i}
<1>1. 0 \in Ones /\ 1 \in Ones
  BY EccSizes DEF Ones
<1> QED
  BY <1>1

\* Every number of flips is told, and one of them is repaired.
LEMMA Judged ==
  ASSUME EccInv, Judge
  PROVE  /\ flips = {} => result' = 0 /\ data' = data
         /\ \A a : flips = {a} => result' = 1 /\ data' = original
         /\ \A a, b \in FlipBits : a # b /\ flips = {a, b} => result' = 2 /\ data' = data
<1>1. /\ pc = "judge" /\ data = DataRead(original, flips) /\ original \in [ByteIndex -> Byte]
      /\ Odd = Syndrome(flips, 1) /\ Even = Syndrome(flips, 0)
      /\ parity \subseteq Ones \cup Shl(Ones, 16)
      /\ flips \in {{}} \cup {{a, b} : a, b \in FlipBits}
  BY DEF Judge, EccInv, EccTypeOK
<1>2. /\ parity = {} <=> Odd = {} /\ Even = {}
      /\ Several(Odd, Even) => WithoutLowest(parity) # {}
      /\ \A i \in Ones : /\ Odd = {i} /\ Even = {} => WithoutLowest(parity) = {}
                         /\ Odd = {} /\ Even = {i} => WithoutLowest(parity) = {}
  BY <1>1, SeveralBits
<1>3. /\ parity = {} => result' = 0 /\ data' = data
      /\ parity # {} /\ SymDiff(Odd, Even) = Ones => CorrectBit /\ result' = 1
      /\ parity # {} /\ SymDiff(Odd, Even) # Ones
           => data' = data /\ result' = IF WithoutLowest(parity) = {} THEN 1 ELSE 2
  BY DEF Judge, Return
<1>4. CASE flips = {}
  <2>1. parity = {}
    BY <1>1, <1>2, <1>4, NoSyndrome
  <2> QED
    BY <1>3, <1>4, <2>1
<1>5. ASSUME NEW a \in BitAddrs, flips = {a}
      PROVE  result' = 1 /\ data' = original
  <2>1. Odd = Digits(a) /\ Even = Ones \ Digits(a) /\ Digits(a) \subseteq Ones
    BY <1>1, <1>5, DataSyndrome DEF Digits, Ones
  <2>2. SymDiff(Odd, Even) = Ones
    BY <2>1 DEF SymDiff
  <2>3. parity # {}
    BY <1>2, <2>1, NoSuchSyndromes
  <2>4. CorrectBit /\ result' = 1
    BY <1>3, <2>2, <2>3
  <2> QED
    BY <1>1, <1>5, <2>1, <2>4, Corrected
<1>6. ASSUME NEW j \in EccBits, flips = {8 * Bytes + j}
      PROVE  result' = 1 /\ data' = original
  <2> DEFINE h == j \div 2
  <2>1. h \in Ones /\ ((Odd = {h} /\ Even = {}) \/ (Odd = {} /\ Even = {h}))
    <3>1. j % 2 = 0 \/ j % 2 = 1
      BY DEF EccBits
    <3> QED
      BY <1>1, <1>6, <3>1, EccSyndrome
  <2> HIDE DEF h
  <2>2. parity # {} /\ WithoutLowest(parity) = {}
    BY <1>2, <2>1
  <2>3. SymDiff(Odd, Even) # Ones
    <3>1. SymDiff(Odd, Even) = {h}
      BY <2>1 DEF SymDiff
    <3> QED
      BY <2>1, <3>1, NoSuchSyndromes
  <2>4. result' = 1 /\ data' = data
    BY <1>3, <2>2, <2>3
  <2>5. flips \cap BitAddrs = {}
    BY <1>6, EccSizes DEF BitAddrs, EccBits
  <2> QED
    BY <1>1, <2>4, <2>5, DataUnflipped
<1>7. ASSUME NEW a, flips = {a} PROVE result' = 1 /\ data' = original
  <2>1. a \in FlipBits
    BY <1>1, <1>7
  <2> QED
    BY <1>5, <1>6, <1>7, <2>1, FlipKinds
<1>8. ASSUME NEW a \in FlipBits, NEW b \in FlipBits, a # b, flips = {a, b}
      PROVE  result' = 2 /\ data' = data
  <2>1. SymDiff(Odd, Even) # Ones /\ Several(Odd, Even)
    BY <1>1, <1>8, TwoFlips
  <2>2. parity # {}
    BY <1>2, <2>1 DEF Several
  <2> QED
    BY <1>2, <1>3, <2>1, <2>2
<1> QED
  BY <1>4, <1>7, <1>8

\* How many flips there are.
LEMMA FlipCounts ==
  ASSUME flips \in {{}} \cup {{a, b} : a, b \in FlipBits}
  PROVE  /\ flips = {} \/ (\E a : flips = {a}) \/ \E a, b \in FlipBits : a # b /\ flips = {a, b}
         /\ Cardinality(flips) = 0 => flips = {}
         /\ Cardinality(flips) = 1 => \E a : flips = {a}
         /\ Cardinality(flips) = 2 => \E a, b \in FlipBits : a # b /\ flips = {a, b}
<1>1. flips = {} \/ (\E a : flips = {a}) \/ \E a, b \in FlipBits : a # b /\ flips = {a, b}
  <2> SUFFICES ASSUME NEW a \in FlipBits, NEW b \in FlipBits, flips = {a, b}
               PROVE  (\E x : flips = {x}) \/ \E x, y \in FlipBits : x # y /\ flips = {x, y}
    OBVIOUS
  <2>1. CASE a = b
    <3>1. flips = {a}
      BY <2>1
    <3> QED
      BY <3>1
  <2>2. CASE a # b
    BY <2>2
  <2> QED
    BY <2>1, <2>2
<1>2. CASE flips = {}
  <2>1. Cardinality(flips) = 0
    BY <1>2, FS_EmptySet
  <2> QED
    BY <1>2, <2>1
<1>3. CASE \E a : flips = {a}
  <2>1. Cardinality(flips) = 1
    BY <1>3, FS_Singleton
  <2> QED
    BY <1>3, <2>1
<1>4. CASE \E a, b \in FlipBits : a # b /\ flips = {a, b}
  <2>1. PICK a \in FlipBits, b \in FlipBits : a # b /\ flips = {a, b}
    BY <1>4
  <2>2. IsFiniteSet({a}) /\ Cardinality({a}) = 1
    BY FS_Singleton
  <2>3. {a} \cup {b} = {a, b} /\ b \notin {a}
    BY <2>1
  <2>4. Cardinality({a} \cup {b}) = Cardinality({a}) + 1
    BY <2>2, <2>3, FS_AddElement
  <2>5. Cardinality(flips) = 2
    BY <2>1, <2>2, <2>3, <2>4
  <2> QED
    BY <1>4, <2>5
<1> QED
  BY <1>1, <1>2, <1>3, <1>4

LEMMA JudgeOK == EccInv /\ Judge => EccInv' /\ (data' # data => data' = original)
<1> SUFFICES ASSUME EccInv, Judge PROVE EccInv' /\ (data' # data => data' = original)
  OBVIOUS
<1>1. /\ pc' = "done" /\ pc = "judge"
      /\ UNCHANGED <<ecc, parity, pos, even_bits, bit, original, flips>>
  BY DEF Judge, Return
<1>2. /\ data = DataRead(original, flips) /\ original \in [ByteIndex -> Byte]
      /\ data \in [ByteIndex -> Byte]
      /\ flips \in {{}} \cup {{a, b} : a, b \in FlipBits}
  BY <1>1 DEF EccInv, EccTypeOK
<1>3. /\ flips = {} => result' = 0 /\ data' = data
      /\ \A a : flips = {a} => result' = 1 /\ data' = original
      /\ \A a, b \in FlipBits : a # b /\ flips = {a, b} => result' = 2 /\ data' = data
  BY Judged
<1>4. flips = {} => data = original
  BY <1>2, DataUnflipped
<1>5. /\ flips = {} \/ (\E a : flips = {a}) \/ \E a, b \in FlipBits : a # b /\ flips = {a, b}
      /\ Cardinality(flips) = 0 => flips = {}
      /\ Cardinality(flips) = 1 => \E a : flips = {a}
      /\ Cardinality(flips) = 2 => \E a, b \in FlipBits : a # b /\ flips = {a, b}
  BY <1>2, FlipCounts
<1>6. (data' = data \/ data' = original) /\ result' \in 0 .. 2
  BY <1>3, <1>5
<1>7. Verdict'
  <2>1. Cardinality(flips') = 0 => result' = 0 /\ data' = original'
    BY <1>1, <1>3, <1>4, <1>5
  <2>2. Cardinality(flips') = 1 => result' = 1 /\ data' = original'
    BY <1>1, <1>3, <1>5
  <2>3. Cardinality(flips') = 2 => result' = 2 /\ data' = DataRead(original, flips)'
    BY <1>1, <1>2, <1>3, <1>5 DEF DataRead
  <2> QED
    BY <2>1, <2>2, <2>3 DEF Verdict
<1>8. EccTypeOK'
  BY <1>1, <1>2, <1>6 DEF EccInv, EccTypeOK
<1> QED
  BY <1>1, <1>2, <1>6, <1>7, <1>8 DEF EccInv

LEMMA EccStep == EccInv /\ [EccNext]_vars => EccInv' /\ (data' # data => data' = original)
<1> SUFFICES ASSUME EccInv, [EccNext]_vars PROVE EccInv' /\ (data' # data => data' = original)
  OBVIOUS
<1>1. CASE AddByte
  BY <1>1, AddByteOK DEF AddByte
<1>2. CASE CompareBit
  BY <1>2, CompareBitOK DEF CompareBit
<1>3. CASE Judge
  BY <1>3, JudgeOK
<1>4. CASE UNCHANGED vars
  BY <1>4 DEF vars, EccInv, EccTypeOK, AddingBytes, ComparingBits, Stored, Verdict, Odd, Even,
              Shr, DataRead
<1> QED
  BY <1>1, <1>2, <1>3, <1>4 DEF EccNext

LEMMA EccInvariant == EccSpec => []EccInv
<1>1. EccInit => EccInv
  BY EccInitOK
<1>2. EccInv /\ [EccNext]_vars => EccInv'
  BY EccStep
<1> QED
  BY <1>1, <1>2, PTL DEF EccSpec

-----------------------------------------------------------------------------

\* The word of parities has no bits but those of its two halves, whatever the
\* size: no shift moves one out of its place or off the end (ecc.c, lines 15 to 79).
THEOREM EccTypeCorrect == EccSpec => []EccTypeOK
<1>1. EccInv => EccTypeOK
  BY DEF EccInv
<1> QED
  BY <1>1, EccInvariant, PTL

\* After every byte the word holds the parities of the ones read so far: the
\* tables and masks compute what the writer of the flash computed, for every
\* content of a half-page (ecc.c, lines 15 to 64).
THEOREM ParityIsAccumulated == EccSpec => []ParitySoFar
<1>1. EccInv => ParitySoFar
  BY DEF EccInv, AddingBytes, AddedFrom, OnesFrom, ParitySoFar
<1> QED
  BY <1>1, EccInvariant, PTL

\* Any single error is found and repaired, one in the ECC itself included, and
\* any two are found and left alone, for every content of a half-page and every
\* place of the errors (ecc.c, lines 66 to 118).
THEOREM EccVerdict == EccSpec => []Verdict
<1>1. EccInv => Verdict
  BY DEF EccInv
<1> QED
  BY <1>1, EccInvariant, PTL

\* The data only ever changes to what was written (ecc.c, lines 87 to 102).
THEOREM RepairsOnly == EccSpec => OnlyRepairs
<1>1. EccInv /\ [EccNext]_vars => [data' # data => data' = original]_vars
  BY EccStep
<1> QED
  BY <1>1, EccInvariant, PTL DEF EccSpec, OnlyRepairs

=============================================================================

-------------------------- MODULE DecompressProofs --------------------------
(***************************************************************************)
(* The CRC of the image decompressor does what it is there for: a package  *)
(* that was damaged within four neighbouring bytes, the CRC itself         *)
(* included, never reaches puff().  For packages of any size and content.  *)
(*                                                                         *)
(* The proof is that of the bitwise CRC, which is linear and one-to-one in *)
(* each step; the table is first shown to compute eight of its steps.      *)
(***************************************************************************)
EXTENDS Decompress, Induction, TLAPS

-----------------------------------------------------------------------------
(* Bitwise steps                                                           *)

LEMMA ShiftRightBits ==
  ASSUME NEW w \in SUBSET Word, NEW n \in Nat
  PROVE  ShiftRight(w, n) = {i \in Word : i + n \in w}
<1>1. ASSUME NEW i \in ShiftRight(w, n) PROVE i \in Word /\ i + n \in w
  <2>1. PICK j \in w : j >= n /\ i = j - n
    BY <1>1 DEF ShiftRight
  <2>2. j \in 0 .. 31
    BY DEF Word
  <2>3. i \in 0 .. 31 /\ i + n = j
    BY <2>1, <2>2
  <2> QED
    BY <2>3 DEF Word
<1>2. ASSUME NEW i \in Word, i + n \in w PROVE i \in ShiftRight(w, n)
  <2> DEFINE j == i + n
  <2>1. j \in w /\ j >= n /\ i = j - n
    BY <1>2 DEF Word
  <2> HIDE DEF j
  <2> QED
    BY <2>1 DEF ShiftRight
<1> QED
  BY <1>1, <1>2

LEMMA ShiftedBits ==
  ASSUME NEW w \in SUBSET Word
  PROVE  /\ Shifted(w) \in SUBSET Word
         /\ \A i \in Word : i \in Shifted(w) <=> ((i + 1 \in w) <=> ~(0 \in w /\ i \in Feedback))
<1>1. ShiftRight(w, 1) = {i \in Word : i + 1 \in w}
  BY ShiftRightBits
<1>2. Feedback \subseteq Word
  BY DEF Feedback, Word
<1> QED
  BY <1>1, <1>2 DEF Shifted, SymDiff

LEMMA ShiftedAdds ==
  ASSUME NEW v \in SUBSET Word, NEW w \in SUBSET Word
  PROVE  /\ SymDiff(v, w) \in SUBSET Word
         /\ Shifted(SymDiff(v, w)) = SymDiff(Shifted(v), Shifted(w))
<1>1. SymDiff(v, w) \in SUBSET Word
  BY DEF SymDiff
<1>2. \A i : i \in SymDiff(v, w) <=> ((i \in v) <=> ~(i \in w))
  BY DEF SymDiff
<1>3. \A i : i \in SymDiff(Shifted(v), Shifted(w)) <=> ((i \in Shifted(v)) <=> ~(i \in Shifted(w)))
  BY DEF SymDiff
<1>4. ASSUME NEW i \in Word
      PROVE  i \in Shifted(SymDiff(v, w)) <=> i \in SymDiff(Shifted(v), Shifted(w))
  BY <1>1, <1>2, <1>3, ShiftedBits
<1>5. SymDiff(Shifted(v), Shifted(w)) \subseteq Word
  BY ShiftedBits DEF SymDiff
<1>6. Shifted(SymDiff(v, w)) \subseteq Word
  BY <1>1, ShiftedBits
<1> QED
  BY <1>1, <1>4, <1>5, <1>6

\* The highest bit of the feedback tells whether a one was shifted out.
LEMMA ShiftedNothing ==
  ASSUME NEW w \in SUBSET Word, Shifted(w) = {}
  PROVE  w = {}
<1>1. 0 \notin w
  <2>1. 31 \in Word /\ 31 + 1 \notin w /\ 31 \in Feedback
    BY DEF Word, Feedback
  <2> QED
    BY <2>1, ShiftedBits
<1>2. ASSUME NEW j \in w PROVE FALSE
  <2>1. j \in 0 .. 31 /\ j # 0
    BY <1>1 DEF Word
  <2>2. j - 1 \in Word /\ (j - 1) + 1 = j
    BY <2>1 DEF Word
  <2>3. j - 1 \in Shifted(w)
    BY <1>1, <2>2, ShiftedBits
  <2> QED
    BY <2>3
<1> QED
  BY <1>2

-----------------------------------------------------------------------------
(* Eight of them at once                                                   *)

Eight(w) == Shifted(Shifted(Shifted(Shifted(Shifted(Shifted(Shifted(Shifted(w))))))))

LEMMA EightAdds ==
  ASSUME NEW v \in SUBSET Word, NEW w \in SUBSET Word
  PROVE  /\ Eight(w) \in SUBSET Word
         /\ SymDiff(v, w) \in SUBSET Word
         /\ Eight(SymDiff(v, w)) = SymDiff(Eight(v), Eight(w))
<1> DEFINE v1 == Shifted(v)  v2 == Shifted(v1) v3 == Shifted(v2) v4 == Shifted(v3)
           v5 == Shifted(v4) v6 == Shifted(v5) v7 == Shifted(v6) v8 == Shifted(v7)
           w1 == Shifted(w)  w2 == Shifted(w1) w3 == Shifted(w2) w4 == Shifted(w3)
           w5 == Shifted(w4) w6 == Shifted(w5) w7 == Shifted(w6) w8 == Shifted(w7)
<1>0. Eight(v) = v8 /\ Eight(w) = w8
  BY DEF Eight
<1> HIDE DEF v2, v3, v4, v5, v6, v7, v8, w2, w3, w4, w5, w6, w7, w8
<1>1. /\ v1 \in SUBSET Word /\ w1 \in SUBSET Word
      /\ SymDiff(v, w) \in SUBSET Word /\ Shifted(SymDiff(v, w)) = SymDiff(v1, w1)
  BY ShiftedBits, ShiftedAdds
<1> HIDE DEF v1, w1
<1>2. /\ v2 \in SUBSET Word /\ w2 \in SUBSET Word
      /\ Shifted(SymDiff(v1, w1)) = SymDiff(v2, w2)
  BY <1>1, ShiftedBits, ShiftedAdds DEF v2, w2
<1>3. /\ v3 \in SUBSET Word /\ w3 \in SUBSET Word
      /\ Shifted(SymDiff(v2, w2)) = SymDiff(v3, w3)
  BY <1>2, ShiftedBits, ShiftedAdds DEF v3, w3
<1>4. /\ v4 \in SUBSET Word /\ w4 \in SUBSET Word
      /\ Shifted(SymDiff(v3, w3)) = SymDiff(v4, w4)
  BY <1>3, ShiftedBits, ShiftedAdds DEF v4, w4
<1>5. /\ v5 \in SUBSET Word /\ w5 \in SUBSET Word
      /\ Shifted(SymDiff(v4, w4)) = SymDiff(v5, w5)
  BY <1>4, ShiftedBits, ShiftedAdds DEF v5, w5
<1>6. /\ v6 \in SUBSET Word /\ w6 \in SUBSET Word
      /\ Shifted(SymDiff(v5, w5)) = SymDiff(v6, w6)
  BY <1>5, ShiftedBits, ShiftedAdds DEF v6, w6
<1>7. /\ v7 \in SUBSET Word /\ w7 \in SUBSET Word
      /\ Shifted(SymDiff(v6, w6)) = SymDiff(v7, w7)
  BY <1>6, ShiftedBits, ShiftedAdds DEF v7, w7
<1>8. /\ v8 \in SUBSET Word /\ w8 \in SUBSET Word
      /\ Shifted(SymDiff(v7, w7)) = SymDiff(v8, w8)
  BY <1>7, ShiftedBits, ShiftedAdds DEF v8, w8
<1> QED
  BY <1>0, <1>1, <1>2, <1>3, <1>4, <1>5, <1>6, <1>7, <1>8 DEF Eight

LEMMA EightNothing ==
  /\ Eight({}) = {}
  /\ \A w \in SUBSET Word : Eight(w) = {} => w = {}
<1>1. Shifted({}) = {}
  <2>1. \A i \in Word : i \notin Shifted({})
    BY ShiftedBits
  <2> QED
    BY <2>1, ShiftedBits
<1>2. Eight({}) = {}
  BY <1>1 DEF Eight
<1>3. ASSUME NEW w \in SUBSET Word, Eight(w) = {} PROVE w = {}
  <2> DEFINE w1 == Shifted(w)  w2 == Shifted(w1) w3 == Shifted(w2) w4 == Shifted(w3)
             w5 == Shifted(w4) w6 == Shifted(w5) w7 == Shifted(w6)
  <2>1. Shifted(w7) = {}
    BY <1>3 DEF Eight
  <2> HIDE DEF w2, w3, w4, w5, w6, w7
  <2>2. w1 \in SUBSET Word
    BY ShiftedBits
  <2> HIDE DEF w1
  <2>3. w2 \in SUBSET Word
    BY <2>2, ShiftedBits DEF w2
  <2>4. w3 \in SUBSET Word
    BY <2>3, ShiftedBits DEF w3
  <2>5. w4 \in SUBSET Word
    BY <2>4, ShiftedBits DEF w4
  <2>6. w5 \in SUBSET Word
    BY <2>5, ShiftedBits DEF w5
  <2>7. w6 \in SUBSET Word
    BY <2>6, ShiftedBits DEF w6
  <2>8. w7 \in SUBSET Word
    BY <2>7, ShiftedBits DEF w7
  <2>9. w7 = {}
    BY <2>1, <2>8, ShiftedNothing
  <2>10. w6 = {}
    BY <2>7, <2>9, ShiftedNothing DEF w7
  <2>11. w5 = {}
    BY <2>6, <2>10, ShiftedNothing DEF w6
  <2>12. w4 = {}
    BY <2>5, <2>11, ShiftedNothing DEF w5
  <2>13. w3 = {}
    BY <2>4, <2>12, ShiftedNothing DEF w4
  <2>14. w2 = {}
    BY <2>3, <2>13, ShiftedNothing DEF w3
  <2>15. w1 = {}
    BY <2>2, <2>14, ShiftedNothing DEF w2
  <2> QED
    BY <2>15, ShiftedNothing DEF w1
<1> QED
  BY <1>2, <1>3

LEMMA EightInjective ==
  ASSUME NEW v \in SUBSET Word, NEW w \in SUBSET Word, Eight(v) = Eight(w)
  PROVE  v = w
<1>1. SymDiff(Eight(v), Eight(w)) = {}
  BY DEF SymDiff
<1>2. SymDiff(v, w) \in SUBSET Word /\ Eight(SymDiff(v, w)) = {}
  BY <1>1, EightAdds
<1>3. SymDiff(v, w) = {}
  BY <1>2, EightNothing
<1> QED
  BY <1>3 DEF SymDiff

\* As long as no one is shifted out there is no feedback.
Lowered(w, n) == {i \in Word : i + n \in w}

LEMMA EightLowers ==
  ASSUME NEW w \in SUBSET (8 .. 31)
  PROVE  Eight(w) = Lowered(w, 8)
<1>1. ASSUME NEW n \in 0 .. 7
      PROVE  Shifted(Lowered(w, n)) = Lowered(w, n + 1)
  <2>1. Lowered(w, n) \in SUBSET Word /\ 0 \notin Lowered(w, n)
    BY DEF Lowered
  <2>2. ASSUME NEW i \in Word
        PROVE  i \in Shifted(Lowered(w, n)) <=> i + (n + 1) \in w
    <3>1. i \in Shifted(Lowered(w, n)) <=> i + 1 \in Lowered(w, n)
      BY <2>1, ShiftedBits
    <3>2. i \in 0 .. 31 /\ (i + 1) + n = i + (n + 1)
      BY DEF Word
    <3>3. i + 1 \in Lowered(w, n) <=> i + (n + 1) \in w
      <4>1. i + (n + 1) \in w => i + 1 \in Word
        <5>1. i + (n + 1) \in w => i + (n + 1) \in 8 .. 31
          OBVIOUS
        <5> QED
          BY <3>2, <5>1 DEF Word
      <4> QED
        BY <3>2, <4>1 DEF Lowered
    <3> QED
      BY <3>1, <3>3
  <2>3. Shifted(Lowered(w, n)) \subseteq Word
    BY <2>1, ShiftedBits
  <2> QED
    BY <2>2, <2>3 DEF Lowered
<1>2. Lowered(w, 0) = w
  <2>1. \A i \in Word : i + 0 = i
    BY DEF Word
  <2>2. w \subseteq Word
    BY DEF Word
  <2> QED
    BY <2>1, <2>2 DEF Lowered
<1>3. /\ Shifted(Lowered(w, 0)) = Lowered(w, 1) /\ Shifted(Lowered(w, 1)) = Lowered(w, 2)
      /\ Shifted(Lowered(w, 2)) = Lowered(w, 3) /\ Shifted(Lowered(w, 3)) = Lowered(w, 4)
      /\ Shifted(Lowered(w, 4)) = Lowered(w, 5) /\ Shifted(Lowered(w, 5)) = Lowered(w, 6)
      /\ Shifted(Lowered(w, 6)) = Lowered(w, 7) /\ Shifted(Lowered(w, 7)) = Lowered(w, 8)
  BY <1>1
<1> QED
  BY <1>2, <1>3 DEF Eight

-----------------------------------------------------------------------------
(* The table                                                               *)

\* An entry is what eight steps make of a byte.
LEMMA TableEntry ==
  ASSUME NEW byte \in SUBSET (0 .. 7)
  PROVE  crc32_tab[byte] = Eight(byte)
<1> DEFINE Step(f, j) == IF j = 0 THEN byte ELSE Shifted(f[j - 1])
           Body(f)    == [j \in 0 .. 8 |-> Step(f, j)]
           chosen     == CHOOSE f : f = Body(f)
           step       == [x \in (SUBSET Word) \X (1 .. 8) |-> Shifted(x[1])]
<1>1. crc32_tab[byte] = chosen[8]
  BY DEF crc32_tab
<1>2. byte \in SUBSET Word
  BY DEF Word
<1>3. step \in StepFunctions(SUBSET Word, 8)
  <2>1. \A x \in (SUBSET Word) \X (1 .. 8) : Shifted(x[1]) \in SUBSET Word
    <3>1. \A x \in (SUBSET Word) \X (1 .. 8) : x[1] \in SUBSET Word
      OBVIOUS
    <3> QED
      BY <3>1, ShiftedBits
  <2> QED
    BY <2>1 DEF StepFunctions
<1>4. \A w \in SUBSET Word, j \in 1 .. 8 : step[<<w, j>>] = Shifted(w)
  OBVIOUS
<1> HIDE DEF step
<1>5. PICK f \in [0 .. 8 -> SUBSET Word] : Follows(f, byte, step, 8)
  BY <1>2, <1>3, RecursionExists
<1>6. f = Body(f)
  <2>1. ASSUME NEW j \in 0 .. 8 PROVE f[j] = Step(f, j)
    <3>1. CASE j = 0
      BY <1>5, <3>1 DEF Follows
    <3>2. CASE j # 0
      <4>1. j \in 1 .. 8 /\ j - 1 \in 0 .. 8
        BY <3>2
      <4>2. f[j - 1] \in SUBSET Word
        BY <4>1
      <4> QED
        BY <1>4, <1>5, <3>2, <4>1, <4>2 DEF Follows
    <3> QED
      BY <3>1, <3>2
  <2> HIDE DEF Step
  <2> QED
    BY <2>1
<1> HIDE DEF Body
<1>7. chosen = Body(chosen)
  BY <1>6
<1> HIDE DEF chosen
<1>8. \A j \in 0 .. 8 : chosen[j] = Step(chosen, j)
  <2> HIDE DEF Step
  <2> QED
    BY <1>7 DEF Body
<1>9. chosen[0] = byte /\ \A j \in 1 .. 8 : chosen[j] = Shifted(chosen[j - 1])
  <2>1. \A j \in 1 .. 8 : j \in 0 .. 8 /\ j # 0
    OBVIOUS
  <2>2. 0 \in 0 .. 8
    OBVIOUS
  <2> QED
    BY <1>8, <2>1, <2>2
<1>10. /\ chosen[1] = Shifted(chosen[0]) /\ chosen[2] = Shifted(chosen[1])
       /\ chosen[3] = Shifted(chosen[2]) /\ chosen[4] = Shifted(chosen[3])
       /\ chosen[5] = Shifted(chosen[4]) /\ chosen[6] = Shifted(chosen[5])
       /\ chosen[7] = Shifted(chosen[6]) /\ chosen[8] = Shifted(chosen[7])
  BY <1>9
<1> QED
  BY <1>1, <1>9, <1>10 DEF Eight

LEMMA SameHalves ==
  ASSUME NEW a \in Nat, NEW b \in Nat, a \div 2 = b \div 2, a % 2 = 1 <=> b % 2 = 1
  PROVE  a = b
<1>1. a = 2 * (a \div 2) + (a % 2) /\ b = 2 * (b \div 2) + (b % 2)
  OBVIOUS
<1>2. a % 2 \in 0 .. 1 /\ b % 2 \in 0 .. 1
  OBVIOUS
<1> QED
  BY <1>1, <1>2

\* A byte as a word.
LEMMA ByteWord ==
  ASSUME NEW m \in 0 .. 255
  PROVE  /\ WordOf(m) \in SUBSET (0 .. 7)
         /\ \A i \in 0 .. 7 : i \in WordOf(m) <=> (m \div 2^i) % 2 = 1
         /\ \A n \in 0 .. 255 : WordOf(m) = WordOf(n) => m = n
<1>1. ASSUME NEW i \in WordOf(m) PROVE i \in 0 .. 7
  <2>1. i \in 0 .. 30 /\ (m \div 2^i) % 2 = 1
    BY DEF WordOf
  <2>2. CASE i >= 8
    <3>1. \/ i = 8 \/ i = 9 \/ i = 10 \/ i = 11 \/ i = 12 \/ i = 13 \/ i = 14 \/ i = 15
          \/ i = 16 \/ i = 17 \/ i = 18 \/ i = 19 \/ i = 20 \/ i = 21 \/ i = 22 \/ i = 23
          \/ i = 24 \/ i = 25 \/ i = 26 \/ i = 27 \/ i = 28 \/ i = 29 \/ i = 30
      BY <2>1, <2>2
    <3>2. CASE i = 8
      BY <2>1, <3>2
    <3>3. CASE i = 9
      BY <2>1, <3>3
    <3>4. CASE i = 10
      BY <2>1, <3>4
    <3>5. CASE i = 11
      BY <2>1, <3>5
    <3>6. CASE i = 12
      BY <2>1, <3>6
    <3>7. CASE i = 13
      BY <2>1, <3>7
    <3>8. CASE i = 14
      BY <2>1, <3>8
    <3>9. CASE i = 15
      BY <2>1, <3>9
    <3>10. CASE i = 16
      BY <2>1, <3>10
    <3>11. CASE i = 17
      BY <2>1, <3>11
    <3>12. CASE i = 18
      BY <2>1, <3>12
    <3>13. CASE i = 19
      BY <2>1, <3>13
    <3>14. CASE i = 20
      BY <2>1, <3>14
    <3>15. CASE i = 21
      BY <2>1, <3>15
    <3>16. CASE i = 22
      BY <2>1, <3>16
    <3>17. CASE i = 23
      BY <2>1, <3>17
    <3>18. CASE i = 24
      BY <2>1, <3>18
    <3>19. CASE i = 25
      BY <2>1, <3>19
    <3>20. CASE i = 26
      BY <2>1, <3>20
    <3>21. CASE i = 27
      BY <2>1, <3>21
    <3>22. CASE i = 28
      BY <2>1, <3>22
    <3>23. CASE i = 29
      BY <2>1, <3>23
    <3>24. CASE i = 30
      BY <2>1, <3>24
    <3> QED
      BY <3>1, <3>2, <3>3, <3>4, <3>5, <3>6, <3>7, <3>8, <3>9, <3>10, <3>11, <3>12, <3>13,
         <3>14, <3>15, <3>16, <3>17, <3>18, <3>19, <3>20, <3>21, <3>22, <3>23, <3>24
  <2> QED
    BY <2>1, <2>2
<1>2. \A n \in 0 .. 255, i \in 0 .. 7 : i \in WordOf(n) <=> (n \div 2^i) % 2 = 1
  BY DEF WordOf
<1>3. ASSUME NEW n \in 0 .. 255, WordOf(m) = WordOf(n) PROVE m = n
  <2>1. \A i \in 0 .. 7 : (m \div 2^i) % 2 = 1 <=> (n \div 2^i) % 2 = 1
    BY <1>2, <1>3
  <2>2. /\ m % 2 = 1 <=> n % 2 = 1
        /\ (m \div 2) % 2 = 1 <=> (n \div 2) % 2 = 1
        /\ (m \div 4) % 2 = 1 <=> (n \div 4) % 2 = 1
        /\ (m \div 8) % 2 = 1 <=> (n \div 8) % 2 = 1
        /\ (m \div 16) % 2 = 1 <=> (n \div 16) % 2 = 1
        /\ (m \div 32) % 2 = 1 <=> (n \div 32) % 2 = 1
        /\ (m \div 64) % 2 = 1 <=> (n \div 64) % 2 = 1
        /\ (m \div 128) % 2 = 1 <=> (n \div 128) % 2 = 1
    <3>1. /\ 2^0 = 1 /\ 2^1 = 2 /\ 2^2 = 4 /\ 2^3 = 8
          /\ 2^4 = 16 /\ 2^5 = 32 /\ 2^6 = 64 /\ 2^7 = 128
          /\ m \div 1 = m /\ n \div 1 = n
      OBVIOUS
    <3> QED
      BY <2>1, <3>1
  <2>3. m \div 128 = n \div 128
    <3>1. \A x \in 0 .. 255 : x \div 128 \in 0 .. 1
      OBVIOUS
    <3>2. m \div 128 \in 0 .. 1 /\ n \div 128 \in 0 .. 1
      BY <3>1
    <3>3. \A a, b \in 0 .. 1 : (a % 2 = 1 <=> b % 2 = 1) => a = b
      OBVIOUS
    <3> QED
      BY <2>2, <3>2, <3>3
  <2>4. m \div 64 = n \div 64
    <3> DEFINE a == m \div 64
               b == n \div 64
    <3>1. a \in Nat /\ b \in Nat /\ a \div 2 = m \div 128 /\ b \div 2 = n \div 128
      OBVIOUS
    <3>2. a % 2 = 1 <=> b % 2 = 1
      BY <2>2
    <3> HIDE DEF a, b
    <3>3. a = b
      BY <2>3, <3>1, <3>2, SameHalves
    <3> QED
      BY <3>3 DEF a, b
  <2>5. m \div 32 = n \div 32
    <3> DEFINE a == m \div 32
               b == n \div 32
    <3>1. a \in Nat /\ b \in Nat /\ a \div 2 = m \div 64 /\ b \div 2 = n \div 64
      OBVIOUS
    <3>2. a % 2 = 1 <=> b % 2 = 1
      BY <2>2
    <3> HIDE DEF a, b
    <3>3. a = b
      BY <2>4, <3>1, <3>2, SameHalves
    <3> QED
      BY <3>3 DEF a, b
  <2>6. m \div 16 = n \div 16
    <3> DEFINE a == m \div 16
               b == n \div 16
    <3>1. a \in Nat /\ b \in Nat /\ a \div 2 = m \div 32 /\ b \div 2 = n \div 32
      OBVIOUS
    <3>2. a % 2 = 1 <=> b % 2 = 1
      BY <2>2
    <3> HIDE DEF a, b
    <3>3. a = b
      BY <2>5, <3>1, <3>2, SameHalves
    <3> QED
      BY <3>3 DEF a, b
  <2>7. m \div 8 = n \div 8
    <3> DEFINE a == m \div 8
               b == n \div 8
    <3>1. a \in Nat /\ b \in Nat /\ a \div 2 = m \div 16 /\ b \div 2 = n \div 16
      OBVIOUS
    <3>2. a % 2 = 1 <=> b % 2 = 1
      BY <2>2
    <3> HIDE DEF a, b
    <3>3. a = b
      BY <2>6, <3>1, <3>2, SameHalves
    <3> QED
      BY <3>3 DEF a, b
  <2>8. m \div 4 = n \div 4
    <3> DEFINE a == m \div 4
               b == n \div 4
    <3>1. a \in Nat /\ b \in Nat /\ a \div 2 = m \div 8 /\ b \div 2 = n \div 8
      OBVIOUS
    <3>2. a % 2 = 1 <=> b % 2 = 1
      BY <2>2
    <3> HIDE DEF a, b
    <3>3. a = b
      BY <2>7, <3>1, <3>2, SameHalves
    <3> QED
      BY <3>3 DEF a, b
  <2>9. m \div 2 = n \div 2
    <3> DEFINE a == m \div 2
               b == n \div 2
    <3>1. a \in Nat /\ b \in Nat /\ a \div 2 = m \div 4 /\ b \div 2 = n \div 4
      OBVIOUS
    <3>2. a % 2 = 1 <=> b % 2 = 1
      BY <2>2
    <3> HIDE DEF a, b
    <3>3. a = b
      BY <2>8, <3>1, <3>2, SameHalves
    <3> QED
      BY <3>3 DEF a, b
  <2> QED
    BY <2>2, <2>9, SameHalves
<1> QED
  BY <1>1, <1>2, <1>3

LEMMA ByteSubset ==
  ASSUME NEW m \in 0 .. 255
  PROVE  WordOf(m) \in SUBSET (0 .. 7) /\ WordOf(m) \in SUBSET Word
<1>1. WordOf(m) \in SUBSET (0 .. 7)
  BY ByteWord
<1> QED
  BY <1>1 DEF Word

LEMMA ByteBits ==
  ASSUME NEW m \in 0 .. 255, NEW i \in 0 .. 7
  PROVE  i \in WordOf(m) <=> (m \div 2^i) % 2 = 1
BY ByteWord

\* One turn of the loop of crc32() is eight bitwise steps.
LEMMA TableIsEightSteps ==
  ASSUME NEW crc \in SUBSET Word, NEW byte \in 0 .. 255
  PROVE  Next8(crc, byte) = Eight(SymDiff(crc, WordOf(byte)))
<1> DEFINE w  == SymDiff(crc, WordOf(byte))
           lo == w \cap (0 .. 7)
           hi == w \ (0 .. 7)
<1>1. WordOf(byte) \in SUBSET (0 .. 7) /\ 0 .. 7 \subseteq Word
  <2>1. WordOf(byte) \in SUBSET (0 .. 7)
    BY ByteSubset
  <2> QED
    BY <2>1 DEF Word
<1>2. w \in SUBSET Word
  BY <1>1 DEF SymDiff
<1>3. Next8(crc, byte) = SymDiff(crc32_tab[lo], ShiftRight(crc, 8))
  BY DEF Next8
<1>4. \A i \in Word : i \notin 0 .. 7 => (i \in hi <=> i \in crc)
  BY <1>1 DEF SymDiff
<1> HIDE DEF w
<1>5. lo \in SUBSET (0 .. 7) /\ lo \in SUBSET Word /\ hi \in SUBSET Word /\ w = SymDiff(lo, hi)
  BY <1>2 DEF SymDiff
<1>6. hi \in SUBSET (8 .. 31)
  BY <1>2 DEF Word
<1> HIDE DEF lo, hi
<1>7. ShiftRight(crc, 8) = Lowered(hi, 8)
  <2>1. ShiftRight(crc, 8) = {i \in Word : i + 8 \in crc}
    BY ShiftRightBits
  <2>2. ASSUME NEW i \in Word PROVE i + 8 \in crc <=> i + 8 \in hi
    <3>1. i + 8 \notin 0 .. 7
      BY DEF Word
    <3>2. i + 8 \notin Word => i + 8 \notin crc /\ i + 8 \notin hi
      BY <1>5
    <3> QED
      BY <1>4, <3>1, <3>2
  <2> QED
    BY <2>1, <2>2 DEF Lowered
<1>8. Eight(w) = SymDiff(Eight(lo), Eight(hi))
  BY <1>5, EightAdds
<1> QED
  BY <1>3, <1>5, <1>6, <1>7, <1>8, TableEntry, EightLowers DEF w


-----------------------------------------------------------------------------
(* The loop of crc32()                                                     *)

LEMMA ByteAt ==
  ASSUME NEW bytes \in Seq(0 .. 255), NEW i \in 1 .. Len(bytes)
  PROVE  bytes[i] \in 0 .. 255
<1> DEFINE S == 0 .. 255
<1>1. bytes \in Seq(S)
  OBVIOUS
<1> HIDE DEF S
<1>2. bytes[i] \in S
  BY <1>1
<1> QED
  BY <1>2 DEF S

\* f holds the value of crc after each of the first n bytes.
Crcs(f, bytes, n) ==
  /\ f \in [0 .. n -> SUBSET Word]
  /\ f[0] = Word
  /\ \A i \in 1 .. n : f[i] = Eight(SymDiff(f[i - 1], WordOf(bytes[i])))

LEMMA CrcsExist ==
  ASSUME NEW bytes \in Seq(0 .. 255), NEW n \in 0 .. Len(bytes)
  PROVE  \E f : Crcs(f, bytes, n)
<1> DEFINE step == [x \in (SUBSET Word) \X (1 .. n) |->
                      Eight(SymDiff(x[1], WordOf(bytes[x[2]])))]
<1>1. ASSUME NEW w \in SUBSET Word, NEW i \in 1 .. n
      PROVE  Eight(SymDiff(w, WordOf(bytes[i]))) \in SUBSET Word
  <2>1. i \in 1 .. Len(bytes)
    OBVIOUS
  <2>2. WordOf(bytes[i]) \in SUBSET Word
    <3>1. bytes[i] \in 0 .. 255
      BY <2>1, ByteAt
    <3> QED
      BY <3>1, ByteSubset
  <2>3. SymDiff(w, WordOf(bytes[i])) \in SUBSET Word
    BY <2>2, EightAdds
  <2> QED
    BY <2>3, EightAdds
<1>2. step \in StepFunctions(SUBSET Word, n)
  <2>1. \A x \in (SUBSET Word) \X (1 .. n) :
          Eight(SymDiff(x[1], WordOf(bytes[x[2]]))) \in SUBSET Word
    BY <1>1
  <2> QED
    BY <2>1 DEF StepFunctions
<1>3. \A w \in SUBSET Word, i \in 1 .. n :
        step[<<w, i>>] = Eight(SymDiff(w, WordOf(bytes[i])))
  OBVIOUS
<1> HIDE DEF step
<1>4. n \in Nat /\ Word \in SUBSET Word
  OBVIOUS
<1>5. PICK f \in [0 .. n -> SUBSET Word] : Follows(f, Word, step, n)
  BY <1>2, <1>4, RecursionExists
<1>6. ASSUME NEW i \in 1 .. n
      PROVE  f[i] = Eight(SymDiff(f[i - 1], WordOf(bytes[i])))
  <2>1. i - 1 \in 0 .. n
    OBVIOUS
  <2>2. f[i - 1] \in SUBSET Word
    BY <2>1
  <2> QED
    BY <1>3, <1>5, <2>2 DEF Follows
<1>7. Crcs(f, bytes, n)
  BY <1>5, <1>6 DEF Crcs, Follows
<1> QED
  BY <1>7

\* The CRC of the first k bytes.
LEMMA CrcOfFront ==
  ASSUME NEW bytes \in Seq(0 .. 255), NEW n \in 0 .. Len(bytes), NEW k \in 0 .. n,
         NEW f, Crcs(f, bytes, n)
  PROVE  Crc32(SubSeq(bytes, 1, k)) = Word \ f[k]
<1> DEFINE buf     == SubSeq(bytes, 1, k)
           Step(g, i) == IF i = 0 THEN Word ELSE Next8(g[i - 1], buf[i])
           Body(g) == [i \in 0 .. Len(buf) |-> Step(g, i)]
           chosen  == CHOOSE g : g = Body(g)
           front   == [i \in 0 .. k |-> f[i]]
<1>1. Len(buf) = k /\ \A i \in 1 .. k : buf[i] = bytes[i] /\ bytes[i] \in 0 .. 255
  <2>1. k \in Nat /\ k <= Len(bytes) /\ \A i \in 1 .. k : i \in 1 .. Len(bytes)
    OBVIOUS
  <2>2. Len(buf) = k /\ \A i \in 1 .. k : buf[i] = bytes[i]
    <3> DEFINE S == 0 .. 255
    <3>1. bytes \in Seq(S)
      OBVIOUS
    <3> HIDE DEF S
    <3> QED
      BY <2>1, <3>1
  <2> QED
    BY <2>1, <2>2, ByteAt
<1>2. Crc32(buf) = Word \ chosen[k]
  BY <1>1 DEF Crc32
<1> HIDE DEF buf
<1>3. ASSUME NEW i \in 1 .. k
      PROVE  f[i - 1] \in SUBSET Word /\ f[i] = Next8(f[i - 1], buf[i])
  <2>1. i - 1 \in 0 .. n /\ i \in 1 .. n /\ buf[i] = bytes[i] /\ bytes[i] \in 0 .. 255
    BY <1>1
  <2>2. f[i - 1] \in SUBSET Word
    BY <2>1 DEF Crcs
  <2>3. f[i] = Eight(SymDiff(f[i - 1], WordOf(bytes[i])))
    BY <2>1 DEF Crcs
  <2> QED
    BY <2>1, <2>2, <2>3, TableIsEightSteps
<1>4. front = Body(front)
  <2>1. ASSUME NEW i \in 0 .. k PROVE front[i] = Step(front, i)
    <3>1. CASE i = 0
      BY <3>1 DEF Crcs
    <3>2. CASE i # 0
      <4>1. i \in 1 .. k /\ i - 1 \in 0 .. k
        BY <3>2
      <4> QED
        BY <1>3, <3>2, <4>1
    <3> QED
      BY <3>1, <3>2
  <2> HIDE DEF Step
  <2> QED
    BY <1>1, <2>1
<1>5. chosen = Body(chosen)
  <2> HIDE DEF Body, front
  <2> QED
    BY <1>4
<1> HIDE DEF chosen
<1>6. \A i \in 0 .. k : chosen[i] = Step(chosen, i)
  <2> HIDE DEF Step
  <2> QED
    BY <1>1, <1>5
<1> DEFINE T == {i \in 0 .. k : chosen[i] = f[i]}
<1>7. 0 \in T
  BY <1>6 DEF Crcs
<1>8. ASSUME NEW i \in 0 .. k - 1, i \in T PROVE i + 1 \in T
  <2>1. i + 1 \in 1 .. k /\ i + 1 \in 0 .. k /\ i + 1 # 0 /\ (i + 1) - 1 = i
    OBVIOUS
  <2>2. chosen[i + 1] = Next8(chosen[i], buf[i + 1])
    BY <1>6, <2>1
  <2>3. f[i + 1] = Next8(f[i], buf[i + 1])
    BY <1>3, <2>1
  <2> QED
    BY <1>8, <2>1, <2>2, <2>3
<1>9. k \in Nat
  OBVIOUS
<1> HIDE DEF T
<1>10. 0 .. k \subseteq T
  BY <1>7, <1>8, <1>9, BoundedInduction
<1> QED
  BY <1>2, <1>9, <1>10 DEF T, buf

-----------------------------------------------------------------------------
(* Four bytes at once                                                      *)

Low(w) == w \cap (0 .. 7)

Four(w) == Eight(Eight(Eight(Eight(w))))

\* The bytes of a word go in one after the other, the lowest first.
LEMMA OneOfFour ==
  ASSUME NEW s \in SUBSET Word, NEW w \in SUBSET Word
  PROVE  /\ Eight(SymDiff(s, w)) = SymDiff(Eight(SymDiff(s, Low(w))), Lowered(w, 8))
         /\ Eight(SymDiff(s, Low(w))) \in SUBSET Word
         /\ Lowered(w, 8) \in SUBSET Word
<1> DEFINE hi == w \ (0 .. 7)
<1>1. Low(w) \in SUBSET Word /\ hi \in SUBSET Word /\ hi \in SUBSET (8 .. 31)
  BY DEF Low, Word
<1>2. SymDiff(s, w) = SymDiff(SymDiff(s, Low(w)), hi)
  BY DEF SymDiff, Low
<1>3. Lowered(hi, 8) = Lowered(w, 8)
  <2>1. \A i \in Word : i + 8 \notin 0 .. 7
    BY DEF Word
  <2> QED
    BY <2>1 DEF Lowered
<1> HIDE DEF hi
<1>4. SymDiff(s, Low(w)) \in SUBSET Word
  BY <1>1, EightAdds
<1>5. Eight(SymDiff(SymDiff(s, Low(w)), hi)) = SymDiff(Eight(SymDiff(s, Low(w))), Eight(hi))
  BY <1>1, <1>4, EightAdds
<1>6. Eight(hi) = Lowered(w, 8)
  BY <1>1, <1>3, EightLowers
<1>7. Lowered(w, 8) \in SUBSET Word
  BY DEF Lowered
<1> QED
  BY <1>2, <1>4, <1>5, <1>6, <1>7, EightAdds

LEMMA FourAtOnce ==
  ASSUME NEW s \in SUBSET Word, NEW w \in SUBSET Word,
         NEW s1, s1 = Eight(SymDiff(s, Low(w))),
         NEW s2, s2 = Eight(SymDiff(s1, Low(Lowered(w, 8)))),
         NEW s3, s3 = Eight(SymDiff(s2, Low(Lowered(Lowered(w, 8), 8)))),
         NEW s4, s4 = Eight(SymDiff(s3, Low(Lowered(Lowered(Lowered(w, 8), 8), 8))))
  PROVE  s4 = Four(SymDiff(s, w))
<1> DEFINE w1 == Lowered(w, 8)
           w2 == Lowered(w1, 8)
           w3 == Lowered(w2, 8)
           w4 == Lowered(w3, 8)
<1>0. w4 = {}
  <2>1. ASSUME NEW i \in w4 PROVE FALSE
    <3>1. i \in Word /\ i + 8 \in w3
      BY DEF Lowered
    <3>2. (i + 8) + 8 \in w2
      BY <3>1 DEF Lowered
    <3>3. ((i + 8) + 8) + 8 \in w1
      BY <3>2 DEF Lowered
    <3>4. (((i + 8) + 8) + 8) + 8 \in w
      BY <3>3 DEF Lowered
    <3> QED
      BY <3>1, <3>4 DEF Word
  <2> QED
    BY <2>1
<1>1. s1 \in SUBSET Word /\ w1 \in SUBSET Word /\ Eight(SymDiff(s, w)) = SymDiff(s1, w1)
  BY OneOfFour
<1> HIDE DEF w4, w3, w2
<1>2. s2 \in SUBSET Word /\ w2 \in SUBSET Word /\ Eight(SymDiff(s1, w1)) = SymDiff(s2, w2)
  BY <1>1, OneOfFour DEF w2
<1>3. s3 \in SUBSET Word /\ w3 \in SUBSET Word /\ Eight(SymDiff(s2, w2)) = SymDiff(s3, w3)
  BY <1>2, OneOfFour DEF w3, w2
<1>4. s4 \in SUBSET Word /\ Eight(SymDiff(s3, w3)) = SymDiff(s4, w4)
  BY <1>3, OneOfFour DEF w4, w3, w2
<1>5. SymDiff(s4, {}) = s4
  BY DEF SymDiff
<1> QED
  BY <1>0, <1>1, <1>2, <1>3, <1>4, <1>5 DEF Four

LEMMA FourInjective ==
  ASSUME NEW v \in SUBSET Word, NEW w \in SUBSET Word, Four(v) = Four(w)
  PROVE  v = w
<1> DEFINE v1 == Eight(v) v2 == Eight(v1) v3 == Eight(v2)
           w1 == Eight(w) w2 == Eight(w1) w3 == Eight(w2)
<1>1. Eight(v3) = Eight(w3)
  BY DEF Four
<1>2. v1 \in SUBSET Word /\ w1 \in SUBSET Word
  BY EightAdds
<1> HIDE DEF v3, w3, v2, w2
<1>3. v2 \in SUBSET Word /\ w2 \in SUBSET Word
  BY <1>2, EightAdds DEF v2, w2
<1>4. v3 \in SUBSET Word /\ w3 \in SUBSET Word
  BY <1>3, EightAdds DEF v3, w3
<1>5. v3 = w3
  BY <1>1, <1>4, EightInjective
<1>6. v2 = w2
  BY <1>3, <1>5, EightInjective DEF v3, w3
<1>7. v1 = w1
  BY <1>2, <1>6, EightInjective DEF v2, w2
<1> QED
  BY <1>7, EightInjective

\* The bytes that a word is loaded from.
LEMMA BytesOfWord ==
  ASSUME NEW bytes \in Seq(0 .. 255), NEW o \in Nat, o + 4 <= Len(bytes)
  PROVE  LET w == WordAt(bytes, o)
         IN  /\ w \in SUBSET Word
             /\ Low(w) = WordOf(bytes[o + 1])
             /\ Low(Lowered(w, 8)) = WordOf(bytes[o + 2])
             /\ Low(Lowered(Lowered(w, 8), 8)) = WordOf(bytes[o + 3])
             /\ Low(Lowered(Lowered(Lowered(w, 8), 8), 8)) = WordOf(bytes[o + 4])
<1> DEFINE w == WordAt(bytes, o)
<1>1. w \in SUBSET Word
  BY DEF WordAt
<1>2. /\ bytes[o + 1] \in 0 .. 255 /\ bytes[o + 2] \in 0 .. 255
      /\ bytes[o + 3] \in 0 .. 255 /\ bytes[o + 4] \in 0 .. 255
  <2>1. /\ o + 1 \in 1 .. Len(bytes) /\ o + 2 \in 1 .. Len(bytes)
        /\ o + 3 \in 1 .. Len(bytes) /\ o + 4 \in 1 .. Len(bytes)
    OBVIOUS
  <2> QED
    BY <2>1, ByteAt
<1>3. ASSUME NEW i \in 0 .. 7, NEW j \in 0 .. 3
      PROVE  i + 8 * j \in w <=> (bytes[o + j + 1] \div 2^i) % 2 = 1
  <2> DEFINE k == i + 8 * j
  <2>1. k \in 0 .. 31
    <3>1. j = 0 \/ j = 1 \/ j = 2 \/ j = 3
      OBVIOUS
    <3> QED
      BY <3>1
  <2>2. k \div 8 = j /\ k % 8 = i
    <3>1. j = 0 \/ j = 1 \/ j = 2 \/ j = 3
      OBVIOUS
    <3>2. CASE j = 0
      BY <3>2
    <3>3. CASE j = 1
      BY <3>3
    <3>4. CASE j = 2
      BY <3>4
    <3>5. CASE j = 3
      BY <3>5
    <3> QED
      BY <3>1, <3>2, <3>3, <3>4, <3>5
  <2> HIDE DEF k
  <2>3. k \in w <=> (bytes[o + k \div 8 + 1] \div 2^(k % 8)) % 2 = 1
    BY <2>1 DEF WordAt, Word
  <2> QED
    BY <2>2, <2>3 DEF k
<1> HIDE DEF w
<1>4. ASSUME NEW i \in 0 .. 7
      PROVE  /\ i \in w <=> i \in WordOf(bytes[o + 1])
             /\ i + 8 \in w <=> i \in WordOf(bytes[o + 2])
             /\ (i + 8) + 8 \in w <=> i \in WordOf(bytes[o + 3])
             /\ ((i + 8) + 8) + 8 \in w <=> i \in WordOf(bytes[o + 4])
  <2>1. /\ i + 8 * 0 = i /\ i + 8 * 1 = i + 8
        /\ i + 8 * 2 = (i + 8) + 8 /\ i + 8 * 3 = ((i + 8) + 8) + 8
        /\ o + 0 + 1 = o + 1 /\ o + 1 + 1 = o + 2 /\ o + 2 + 1 = o + 3 /\ o + 3 + 1 = o + 4
    OBVIOUS
  <2>2. \A j \in 0 .. 3 : i + 8 * j \in w <=> (bytes[o + j + 1] \div 2^i) % 2 = 1
    BY <1>3
  <2>3. /\ i + 8 * 0 \in w <=> (bytes[o + 0 + 1] \div 2^i) % 2 = 1
        /\ i + 8 * 1 \in w <=> (bytes[o + 1 + 1] \div 2^i) % 2 = 1
        /\ i + 8 * 2 \in w <=> (bytes[o + 2 + 1] \div 2^i) % 2 = 1
        /\ i + 8 * 3 \in w <=> (bytes[o + 3 + 1] \div 2^i) % 2 = 1
    <3>1. 0 \in 0 .. 3 /\ 1 \in 0 .. 3 /\ 2 \in 0 .. 3 /\ 3 \in 0 .. 3
      OBVIOUS
    <3> QED
      BY <2>2, <3>1, Zenon
  <2>4. /\ i \in w <=> (bytes[o + 1] \div 2^i) % 2 = 1
        /\ i + 8 \in w <=> (bytes[o + 2] \div 2^i) % 2 = 1
        /\ (i + 8) + 8 \in w <=> (bytes[o + 3] \div 2^i) % 2 = 1
        /\ ((i + 8) + 8) + 8 \in w <=> (bytes[o + 4] \div 2^i) % 2 = 1
    BY <2>1, <2>3, Zenon
  <2>5. /\ i \in WordOf(bytes[o + 1]) <=> (bytes[o + 1] \div 2^i) % 2 = 1
        /\ i \in WordOf(bytes[o + 2]) <=> (bytes[o + 2] \div 2^i) % 2 = 1
        /\ i \in WordOf(bytes[o + 3]) <=> (bytes[o + 3] \div 2^i) % 2 = 1
        /\ i \in WordOf(bytes[o + 4]) <=> (bytes[o + 4] \div 2^i) % 2 = 1
    BY <1>2, ByteBits
  <2> QED
    BY <2>4, <2>5, Zenon
<1>5. /\ WordOf(bytes[o + 1]) \subseteq 0 .. 7 /\ WordOf(bytes[o + 2]) \subseteq 0 .. 7
      /\ WordOf(bytes[o + 3]) \subseteq 0 .. 7 /\ WordOf(bytes[o + 4]) \subseteq 0 .. 7
  BY <1>2, ByteSubset
<1>6. \A i \in 0 .. 7 : i \in Word /\ i + 8 \in Word /\ (i + 8) + 8 \in Word
  BY DEF Word
<1>7. ASSUME NEW i \in 0 .. 7
      PROVE  /\ i \in Lowered(w, 8) <=> i + 8 \in w
             /\ i \in Lowered(Lowered(w, 8), 8) <=> (i + 8) + 8 \in w
             /\ i \in Lowered(Lowered(Lowered(w, 8), 8), 8) <=> ((i + 8) + 8) + 8 \in w
  BY <1>6 DEF Lowered
<1> QED
  BY <1>1, <1>4, <1>5, <1>7 DEF Low, w


LEMMA FourSteps ==
  ASSUME NEW bytes \in Seq(0 .. 255), NEW n \in 4 .. Len(bytes), NEW o \in 0 .. n - 4,
         NEW f, Crcs(f, bytes, n)
  PROVE  /\ f[o] \in SUBSET Word /\ WordAt(bytes, o) \in SUBSET Word
         /\ f[o + 4] = Four(SymDiff(f[o], WordAt(bytes, o)))
<1> DEFINE w == WordAt(bytes, o)
<1>1. o \in Nat /\ o + 4 <= Len(bytes)
  OBVIOUS
<1>2. /\ w \in SUBSET Word
      /\ Low(w) = WordOf(bytes[o + 1])
      /\ Low(Lowered(w, 8)) = WordOf(bytes[o + 2])
      /\ Low(Lowered(Lowered(w, 8), 8)) = WordOf(bytes[o + 3])
      /\ Low(Lowered(Lowered(Lowered(w, 8), 8), 8)) = WordOf(bytes[o + 4])
  BY <1>1, BytesOfWord
<1> HIDE DEF w
<1>3. /\ o + 1 \in 1 .. n /\ o + 2 \in 1 .. n /\ o + 3 \in 1 .. n /\ o + 4 \in 1 .. n
      /\ (o + 1) - 1 = o /\ (o + 2) - 1 = o + 1 /\ (o + 3) - 1 = o + 2 /\ (o + 4) - 1 = o + 3
      /\ o \in 0 .. n
  OBVIOUS
<1>4. /\ f[o + 1] = Eight(SymDiff(f[o], WordOf(bytes[o + 1])))
      /\ f[o + 2] = Eight(SymDiff(f[o + 1], WordOf(bytes[o + 2])))
      /\ f[o + 3] = Eight(SymDiff(f[o + 2], WordOf(bytes[o + 3])))
      /\ f[o + 4] = Eight(SymDiff(f[o + 3], WordOf(bytes[o + 4])))
  BY <1>3 DEF Crcs
<1>5. f[o] \in SUBSET Word
  BY <1>3 DEF Crcs
<1>6. f[o + 4] = Four(SymDiff(f[o], w))
  BY <1>2, <1>4, <1>5, FourAtOnce
<1> QED
  BY <1>2, <1>5, <1>6 DEF w

-----------------------------------------------------------------------------
(* Damage                                                                  *)

LEMMA SymDiffCancels ==
  ASSUME NEW s, NEW v, NEW w
  PROVE  /\ SymDiff(s, v) = SymDiff(s, w) => v = w
         /\ SymDiff(v, s) = SymDiff(w, s) => v = w
  BY DEF SymDiff

\* Equal bytes lead from equal values to equal values, and back.
LEMMA SameByte ==
  ASSUME NEW p \in Seq(0 .. 255), NEW q \in Seq(0 .. 255), NEW n \in Nat,
         n <= Len(p), n <= Len(q), NEW f, Crcs(f, p, n), NEW g, Crcs(g, q, n),
         NEW k \in 1 .. n, p[k] = q[k]
  PROVE  f[k - 1] = g[k - 1] <=> f[k] = g[k]
<1>1. k - 1 \in 0 .. n /\ k \in 1 .. Len(p)
  OBVIOUS
<1>2. f[k - 1] \in SUBSET Word /\ g[k - 1] \in SUBSET Word
  BY <1>1 DEF Crcs
<1> DEFINE byte == WordOf(p[k])
<1>3. byte \in SUBSET Word
  <2>1. p[k] \in 0 .. 255
    BY <1>1, ByteAt
  <2> QED
    BY <2>1, ByteSubset
<1>4. f[k] = Eight(SymDiff(f[k - 1], byte)) /\ g[k] = Eight(SymDiff(g[k - 1], byte))
  BY DEF Crcs
<1> HIDE DEF byte
<1>5. SymDiff(f[k - 1], byte) \in SUBSET Word /\ SymDiff(g[k - 1], byte) \in SUBSET Word
  BY <1>2, <1>3, EightAdds
<1>6. ASSUME f[k] = g[k] PROVE f[k - 1] = g[k - 1]
  <2> DEFINE v == SymDiff(f[k - 1], byte)
             w == SymDiff(g[k - 1], byte)
  <2>1. v \in SUBSET Word /\ w \in SUBSET Word /\ Eight(v) = Eight(w)
    BY <1>4, <1>5, <1>6
  <2> HIDE DEF v, w
  <2>2. v = w
    BY <2>1, EightInjective
  <2>3. SymDiff(f[k - 1], byte) = SymDiff(g[k - 1], byte)
    BY <2>2 DEF v, w
  <2> QED
    BY <2>3, SymDiffCancels
<1> QED
  BY <1>4, <1>6

\* What differs only within four bytes and has the same CRC does not differ.
LEMMA BurstChangesCrc ==
  ASSUME NEW p \in Seq(0 .. 255), NEW q \in Seq(0 .. 255), NEW n \in 4 .. Len(p),
         n <= Len(q), NEW f, Crcs(f, p, n), NEW g, Crcs(g, q, n), f[n] = g[n],
         NEW o \in 0 .. n - 4,
         \A k \in 1 .. n : k \notin o + 1 .. o + 4 => p[k] = q[k]
  PROVE  \A k \in 1 .. n : p[k] = q[k]
<1>1. n \in Nat /\ n <= Len(p) /\ n \in 4 .. Len(q) /\ o \in Nat
  OBVIOUS
<1>2. f[o] = g[o]
  <2> DEFINE T == {k \in 0 .. o : f[k] = g[k]}
  <2>1. 0 \in T
    BY DEF Crcs
  <2>2. ASSUME NEW k \in 0 .. o - 1, k \in T PROVE k + 1 \in T
    <3>1. k + 1 \in 1 .. n /\ k + 1 \notin o + 1 .. o + 4 /\ (k + 1) - 1 = k /\ k + 1 \in 0 .. o
      OBVIOUS
    <3>2. p[k + 1] = q[k + 1]
      BY <3>1
    <3>3. f[k] = g[k]
      BY <2>2
    <3>4. f[k + 1] = g[k + 1]
      BY <1>1, <3>1, <3>2, <3>3, SameByte
    <3> QED
      BY <3>1, <3>4
  <2> HIDE DEF T
  <2>3. 0 .. o \subseteq T
    BY <1>1, <2>1, <2>2, BoundedInduction
  <2> QED
    BY <1>1, <2>3 DEF T
<1>3. f[o + 4] = g[o + 4]
  <2> DEFINE m == n - (o + 4)
             T == {k \in 0 .. m : f[n - k] = g[n - k]}
  <2>1. 0 \in T /\ m \in Nat
    OBVIOUS
  <2>2. ASSUME NEW k \in 0 .. m - 1, k \in T PROVE k + 1 \in T
    <3>1. n - k \in 1 .. n /\ n - k \notin o + 1 .. o + 4 /\ (n - k) - 1 = n - (k + 1) /\ k + 1 \in 0 .. m
      OBVIOUS
    <3>2. p[n - k] = q[n - k]
      BY <3>1
    <3>3. f[n - k] = g[n - k]
      BY <2>2
    <3>4. f[n - (k + 1)] = g[n - (k + 1)]
      BY <1>1, <3>1, <3>2, <3>3, SameByte
    <3> QED
      BY <3>1, <3>4
  <2> HIDE DEF T
  <2>3. 0 .. m \subseteq T
    BY <2>1, <2>2, BoundedInduction
  <2>4. m \in T /\ n - m = o + 4
    BY <2>1, <2>3
  <2> HIDE DEF m
  <2> QED
    BY <2>4 DEF T
<1> DEFINE v == WordAt(p, o)
           w == WordAt(q, o)
<1>4. v = w
  <2>1. /\ f[o] \in SUBSET Word /\ v \in SUBSET Word
        /\ f[o + 4] = Four(SymDiff(f[o], v))
    BY FourSteps
  <2>2. /\ w \in SUBSET Word /\ g[o + 4] = Four(SymDiff(g[o], w))
    BY <1>1, FourSteps
  <2> HIDE DEF v, w
  <2>3. SymDiff(f[o], v) \in SUBSET Word /\ SymDiff(f[o], w) \in SUBSET Word
    BY <2>1, <2>2, EightAdds
  <2> DEFINE x == SymDiff(f[o], v)
             y == SymDiff(f[o], w)
  <2>4. x \in SUBSET Word /\ y \in SUBSET Word /\ Four(x) = Four(y)
    BY <1>2, <1>3, <2>1, <2>2, <2>3
  <2> HIDE DEF x, y
  <2>5. x = y
    BY <2>4, FourInjective
  <2>6. SymDiff(f[o], v) = SymDiff(f[o], w)
    BY <2>5 DEF x, y
  <2> QED
    BY <2>6, SymDiffCancels
<1>5. /\ WordOf(p[o + 1]) = WordOf(q[o + 1]) /\ WordOf(p[o + 2]) = WordOf(q[o + 2])
      /\ WordOf(p[o + 3]) = WordOf(q[o + 3]) /\ WordOf(p[o + 4]) = WordOf(q[o + 4])
  <2>1. o + 4 <= Len(p) /\ o + 4 <= Len(q)
    OBVIOUS
  <2>2. /\ Low(v) = WordOf(p[o + 1]) /\ Low(Lowered(v, 8)) = WordOf(p[o + 2])
        /\ Low(Lowered(Lowered(v, 8), 8)) = WordOf(p[o + 3])
        /\ Low(Lowered(Lowered(Lowered(v, 8), 8), 8)) = WordOf(p[o + 4])
    BY <1>1, <2>1, BytesOfWord
  <2>3. /\ Low(w) = WordOf(q[o + 1]) /\ Low(Lowered(w, 8)) = WordOf(q[o + 2])
        /\ Low(Lowered(Lowered(w, 8), 8)) = WordOf(q[o + 3])
        /\ Low(Lowered(Lowered(Lowered(w, 8), 8), 8)) = WordOf(q[o + 4])
    BY <1>1, <2>1, BytesOfWord
  <2> HIDE DEF v, w
  <2> QED
    BY <1>4, <2>2, <2>3
<1>6. ASSUME NEW k \in 1 .. n PROVE p[k] \in 0 .. 255 /\ q[k] \in 0 .. 255
  <2>1. k \in 1 .. Len(p) /\ k \in 1 .. Len(q)
    OBVIOUS
  <2> QED
    BY <2>1, ByteAt
<1>7. ASSUME NEW k \in 1 .. n, k \in o + 1 .. o + 4 PROVE p[k] = q[k]
  <2>1. k = o + 1 \/ k = o + 2 \/ k = o + 3 \/ k = o + 4
    BY <1>7
  <2>2. WordOf(p[k]) = WordOf(q[k])
    BY <1>5, <2>1
  <2> QED
    BY <1>6, <2>2, ByteWord
<1> QED
  BY <1>7

\* Behind a CRC that is right the CRC has always the same value.
LEMMA SealedCrc ==
  ASSUME NEW bytes \in Seq(0 .. 255), NEW n \in 4 .. Len(bytes),
         NEW f, Crcs(f, bytes, n),
         Crc32(SubSeq(bytes, 1, n - 4)) = WordAt(bytes, n - 4)
  PROVE  f[n] = Four(Word)
<1>1. n \in 0 .. Len(bytes) /\ n - 4 \in 0 .. n /\ n - 4 \in 0 .. n - 4 /\ (n - 4) + 4 = n
  OBVIOUS
<1>2. Crc32(SubSeq(bytes, 1, n - 4)) = Word \ f[n - 4]
  BY <1>1, CrcOfFront
<1>3. f[n - 4] \in SUBSET Word /\ f[n] = Four(SymDiff(f[n - 4], WordAt(bytes, n - 4)))
  <2> DEFINE o == n - 4
  <2>1. o \in 0 .. n - 4 /\ o + 4 = n
    OBVIOUS
  <2> HIDE DEF o
  <2>2. f[o] \in SUBSET Word /\ f[o + 4] = Four(SymDiff(f[o], WordAt(bytes, o)))
    BY <2>1, FourSteps
  <2> QED
    BY <2>1, <2>2 DEF o
<1>4. SymDiff(f[n - 4], Word \ f[n - 4]) = Word
  BY <1>3 DEF SymDiff
<1> QED
  BY <1>2, <1>3, <1>4


\* Of two packages that differ only nearby, at most one is sealed.
LEMMA SealedDifferWidely ==
  ASSUME NEW p \in Sealed, NEW q \in Sealed
  PROVE  ~DifferNearby(p, q)
<1> SUFFICES ASSUME DifferNearby(p, q) PROVE FALSE
  OBVIOUS
<1> DEFINE n == p.size
           a == p.bytes
           b == q.bytes
           damage == {k \in 1 .. n : a[k] # b[k]}
<1>1. /\ a \in Seq(0 .. 255) /\ n \in 4 .. Len(a)
      /\ b \in Seq(0 .. 255) /\ q.size \in 4 .. Len(b)
  BY PackagesAssumption DEF Sealed
<1>2. /\ Crc32(SubSeq(a, 1, n - 4)) = WordAt(a, n - 4)
      /\ Crc32(SubSeq(b, 1, q.size - 4)) = WordAt(b, q.size - 4)
  BY DEF Sealed
<1>3. q.size = n /\ \E i \in damage : damage \subseteq i .. i + 3
  BY DEF DifferNearby
<1> HIDE DEF n, a, b
<1>4. n \in 4 .. Len(b) /\ n \in 0 .. Len(a) /\ n \in 0 .. Len(b) /\ n <= Len(b)
  BY <1>1, <1>3
<1>5. PICK f : Crcs(f, a, n)
  BY <1>1, <1>4, CrcsExist
<1>6. PICK g : Crcs(g, b, n)
  BY <1>1, <1>4, CrcsExist
<1>7. f[n] = Four(Word)
  BY <1>1, <1>2, <1>5, SealedCrc
<1>8. g[n] = Four(Word)
  BY <1>1, <1>2, <1>3, <1>4, <1>6, SealedCrc
<1>9. PICK i \in 1 .. n : i \in damage /\ damage \subseteq i .. i + 3
  BY <1>3
<1> DEFINE o == IF i > n - 4 THEN n - 4 ELSE i - 1
<1>10. o \in 0 .. n - 4
  BY <1>1
<1>11. ASSUME NEW k \in 1 .. n, k \notin o + 1 .. o + 4 PROVE a[k] = b[k]
  <2>1. k \notin i .. i + 3
    BY <1>1, <1>11
  <2> QED
    BY <1>9, <2>1
<1> HIDE DEF o, damage
<1>12. \A k \in 1 .. n : k \notin o + 1 .. o + 4 => a[k] = b[k]
  BY <1>11
<1>13. f[n] = g[n]
  BY <1>7, <1>8
<1>14. \A k \in 1 .. n : a[k] = b[k]
  <2>1. /\ a \in Seq(0 .. 255) /\ b \in Seq(0 .. 255)
        /\ n \in 4 .. Len(a) /\ n <= Len(b)
    BY <1>1, <1>4
  <2> QED
    BY <2>1, <1>5, <1>6, <1>10, <1>12, <1>13, BurstChangesCrc, ZenonT(30)
<1> QED
  BY <1>9, <1>14 DEF damage

-----------------------------------------------------------------------------
(* The decompressor                                                        *)

LEMMA PuffKeepsSource == Puff => source' = source
<1>1. \A e, n : Fail(e, n) => source' = source
  BY DEF Fail
<1>2. CASE BlockHeader
  BY <1>2 DEF BlockHeader
<1>3. CASE Stored
  BY <1>1, <1>3 DEF Stored
<1>4. CASE Dynamic
  BY <1>1, <1>4 DEF Dynamic
<1>5. CASE LengthSymbol
  BY <1>1, <1>5 DEF LengthSymbol, AddLengths
<1>6. CASE BuildCodes
  BY <1>1, <1>6 DEF BuildCodes
<1>7. CASE Symbol
  <2>1. \A sym : CopySymbol(sym) => source' = source
    BY <1>1 DEF CopySymbol
  <2> QED
    BY <1>1, <1>7, <2>1 DEF Symbol
<1> QED
  BY <1>2, <1>3, <1>4, <1>5, <1>6, <1>7 DEF Puff

SourceInv ==
  /\ source \in Packages
  /\ status \notin {"check source", "input crc mismatch"} => source \in Sealed

\* Damage to four neighbouring bytes of a package is always noticed before
\* puff() starts, wherever it is and whatever the package holds, however large
\* it is.
THEOREM DamageIsRefused == DecompressSpec => []DamageRefused
<1>1. DecompressInit => SourceInv
  BY DEF DecompressInit, SourceInv
<1>2. SourceInv /\ [DecompressNext]_decompressVars => SourceInv'
  <2> SUFFICES ASSUME SourceInv, [DecompressNext]_decompressVars PROVE SourceInv'
    OBVIOUS
  <2>1. CASE CheckSource
    <3>1. source' = source /\ status = "check source"
      BY <2>1 DEF CheckSource, inflateVars
    <3>2. CASE Crc32(SubSeq(in, 1, source.size - 4)) = srccrc
      <4>1. Footer + 8 = source.size - 4
        <5>1. /\ source.bytes \in Seq(0 .. 255)
              /\ source.size \in 4 .. Len(source.bytes)
          BY PackagesAssumption DEF SourceInv
        <5>2. source.size \in Int
          BY <5>1
        <5> QED
          BY <5>2 DEF Footer, FooterSize
      <4>2. source \in Sealed
        BY <3>2, <4>1 DEF SourceInv, Sealed, in, srccrc, Load32
      <4> QED
        BY <3>1, <4>2 DEF SourceInv
    <3>3. CASE Crc32(SubSeq(in, 1, source.size - 4)) # srccrc
      BY <2>1, <3>1, <3>3 DEF SourceInv, CheckSource
    <3> QED
      BY <3>2, <3>3
  <2>2. CASE Unpack
    BY <2>2, PuffKeepsSource DEF Unpack, SourceInv
  <2>3. CASE CheckResult
    BY <2>3 DEF CheckResult, SourceInv, inflateVars
  <2>4. CASE Left
    BY <2>4 DEF Left, SourceInv, decompressVars, inflateVars
  <2>5. CASE UNCHANGED decompressVars
    BY <2>5 DEF SourceInv, decompressVars, inflateVars
  <2> QED
    BY <2>1, <2>2, <2>3, <2>4, <2>5 DEF DecompressNext
<1>3. SourceInv => DamageRefused
  BY SealedDifferWidely DEF SourceInv, DamageRefused
<1> QED
  BY <1>1, <1>2, <1>3, PTL DEF DecompressSpec

=============================================================================

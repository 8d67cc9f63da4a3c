-------------------------------- MODULE Ecc ---------------------------------
(***************************************************************************)
(* ecc_correct() of ecc.c: correct one flipped bit of a half-page, or tell *)
(* that there are more.  The code's shifts, masks and table lookups are    *)
(* kept; the number of bytes is 2^RowBits, 256 in the code.                *)
(*                                                                         *)
(* A byte or a word is the set of the positions of its ones, so that       *)
(* exclusive or is the symmetric difference.                               *)
(***************************************************************************)
EXTENDS Integers, FiniteSets, FiniteSetsExt

CONSTANTS
  RowBits,    (* log2 of the bytes covered by one ECC: 8 in the code       *)
  Blocks      (* what may have been written                                *)

Bytes  == 2^RowBits
Width  == RowBits + 3
ByteIndex == 0 .. Bytes - 1
Byte   == SUBSET (0 .. 7)

ASSUME EccAssumption ==
  /\ RowBits \in 1 .. 8
  /\ Blocks \subseteq [ByteIndex -> Byte]

VARIABLES
  data, ecc,    (* the arguments                                           *)
  pc,           (* "bytes", "bits": in the loops; "judge"; "done"          *)
  parity, pos, even_bits, bit,   (* the locals                             *)
  result,
  original, flips   (* history: what was written, and the bits flipped     *)

vars == <<data, ecc, pc, parity, pos, even_bits, bit, result, original, flips>>

-----------------------------------------------------------------------------
(* Words                                                                   *)

Bit32 == 0 .. 31

\* word << n and word >> n
Shl(word, n) == {i \in Bit32 : i - n \in word}
Shr(word, n) == {i \in Bit32 : i + n \in word}

\* A number below 2^Width as a word, and back.
Digits(n)   == {i \in 0 .. Width - 1 : (n \div 2^i) % 2 = 1}
Value(word) == CHOOSE n \in 0 .. 2^Width - 1 : Digits(n) = word

Ones == 0 .. Width - 1       \* 0x7ff

\* word & (word - 1): subtracting one clears the lowest one and sets what is
\* below it.
WithoutLowest(word) == {i \in word : \E j \in word : j < i}

-----------------------------------------------------------------------------
(* What the writer of the flash stored, and what became of it: external.   *)
(* A bit's address is its byte's index and its own, read as one number.    *)

IsOdd(S) == Cardinality(S) % 2 = 1

BitAddrs == 0 .. 8 * Bytes - 1
OnesIn(block) == {a \in BitAddrs : a % 8 \in block[a \div 8]}

\* The addresses with v in digit i.
Having(addrs, i, v) == {a \in addrs : (i \in Digits(a)) = (v = 1)}

\* Bits 2i and 2i + 1: one minus the parity of the ones at even and odd
\* addresses in digit i.
EccBits == 0 .. 2 * Width - 1
StoredEcc(block) == {j \in EccBits : ~IsOdd(Having(OnesIn(block), j \div 2, j % 2))}

\* A flip is a bit's address in the data, or 8 * Bytes plus its place in the ECC.
FlipBits == 0 .. 8 * Bytes + 2 * Width - 1

DataRead(block, fs) ==
  [n \in ByteIndex |-> SymDiff(block[n], {i \in 0 .. 7 : 8 * n + i \in fs})]
EccRead(block, fs) ==
  SymDiff(StoredEcc(block), {j \in EccBits : 8 * Bytes + j \in fs})

-----------------------------------------------------------------------------

\* The parities of one byte, out of the tables 0x6996 and 0x1BE4.
Table6996 == {1, 2, 4, 7, 8, 11, 13, 14}
Table1BE4 == {2, 5, 6, 7, 8, 9, 11, 12}

Folded(byte) == SymDiff(byte, Shr(byte, 4))
Rp(byte)     == Shr(Table6996, Value(Folded(byte) \cap {0, 1, 2, 3})) \cap {0}
Cp5(byte)    == Shr(Table6996, Value(Shr(byte, 4))) \cap {0}

\* Mutant: the columns of a byte are taken from its lower half alone.
Cp3Cp1LowNibble(byte) == Shr(Table1BE4, Value(byte \cap {1, 2, 3})) \cap {0, 1}

Cp3Cp1(byte) == Shr(Table1BE4, Value(Folded(byte) \cap {1, 2, 3})) \cap {0, 1}

WithByte(p, byte, index) ==
  LET columns == SymDiff(p, Shl(Cp5(byte), 2) \cup Cp3Cp1(byte))
      bits    == Shl(Ones, 16) \cup Shl(Digits(index), 3)
  IN  IF 0 \in Rp(byte) THEN SymDiff(columns, bits) ELSE columns

\* Mutant: the row is the one of the byte before.
AddByteBeforeDecrement ==
  /\ pc = "bytes"
  /\ pos' = pos - 1
  /\ parity' = WithByte(parity, data[pos - 1], pos)
  /\ pc' = IF pos' = 0 THEN "bits" ELSE "bytes"
  /\ UNCHANGED <<data, ecc, even_bits, bit, result, original, flips>>

\* One turn of the loop over the bytes; after the last one the overall parity
\* turns a second copy of the odd parities into the even ones.
AddByte ==
  /\ pc = "bytes"
  /\ pos' = pos - 1
  /\ LET p == WithByte(parity, data[pos - 1], pos - 1)
     IN  IF pos' = 0
           THEN pc' = "bits" /\ parity' = SymDiff(p, Shl(p, 16))
           ELSE pc' = "bytes" /\ parity' = p
  /\ UNCHANGED <<data, ecc, even_bits, bit, result, original, flips>>

\* One turn of the loop that compares with the stored bits.
CompareBit ==
  /\ pc = "bits"
  /\ LET even == SymDiff(even_bits, ecc \cap bit)
         odd  == SymDiff(parity, Shr(ecc, 1) \cap bit)
     IN  /\ even_bits' = even
         /\ IF Shl(bit, 1) \subseteq Ones
              THEN pc' = "bits" /\ parity' = odd
              ELSE pc' = "judge" /\ parity' = SymDiff(odd, Shl(even, 16))
  /\ ecc' = Shr(ecc, 1)
  /\ bit' = Shl(bit, 1)
  /\ UNCHANGED <<data, pos, result, original, flips>>

Odd  == parity \cap Ones
Even == Shr(parity, 16)

Return(n) == result' = n /\ pc' = "done"

CorrectBit ==
  data' = [data EXCEPT ![Value(Shr(Odd, 3))] = SymDiff(@, {Value(Odd \cap {0, 1, 2})})]

\* Mutant: an error in the ECC itself counts as uncorrectable.
JudgeDataOnly ==
  /\ pc = "judge"
  /\ \/ parity = {} /\ Return(0) /\ UNCHANGED data
     \/ parity # {} /\ SymDiff(Odd, Even) = Ones /\ CorrectBit /\ Return(1)
     \/ parity # {} /\ SymDiff(Odd, Even) # Ones /\ Return(2) /\ UNCHANGED data
  /\ UNCHANGED <<ecc, parity, pos, even_bits, bit, original, flips>>

\* Mutant: even and odd parities are not compared before the correction.
JudgeTrustsOdd ==
  /\ pc = "judge"
  /\ \/ parity = {} /\ Return(0) /\ UNCHANGED data
     \/ parity # {} /\ CorrectBit /\ Return(1)
  /\ UNCHANGED <<ecc, parity, pos, even_bits, bit, original, flips>>

\* No error; one in the data, one in the ECC, or more.
Judge ==
  /\ pc = "judge"
  /\ \/ parity = {} /\ Return(0) /\ UNCHANGED data
     \/ parity # {} /\ SymDiff(Odd, Even) = Ones /\ CorrectBit /\ Return(1)
     \/ /\ parity # {} /\ SymDiff(Odd, Even) # Ones
        /\ Return(IF WithoutLowest(parity) = {} THEN 1 ELSE 2)
        /\ UNCHANGED data
  /\ UNCHANGED <<ecc, parity, pos, even_bits, bit, original, flips>>

\* At most two bits have been flipped since the half-page was written: of more
\* the code promises nothing.
EccInit ==
  /\ original \in Blocks
  /\ flips \in {{}} \cup {{a, b} : a, b \in FlipBits}
  /\ data = DataRead(original, flips)
  /\ ecc = EccRead(original, flips)
  /\ pc = "bytes"
  /\ parity = Ones /\ pos = Bytes
  /\ even_bits = {} /\ bit = {0}
  /\ result = 0

EccNext == AddByte \/ CompareBit \/ Judge

EccSpec == EccInit /\ [][EccNext]_vars

-----------------------------------------------------------------------------

EccTypeOK ==
  /\ data \in [ByteIndex -> Byte]
  /\ ecc \subseteq EccBits
  /\ pc \in {"bytes", "bits", "judge", "done"}
  /\ parity \subseteq Ones \cup Shl(Ones, 16)
  /\ even_bits \subseteq Ones
  /\ pos \in 0 .. Bytes
  /\ bit \in {{k} : k \in 0 .. Width}
  /\ result \in 0 .. 2

\* The tables and masks add up to the parities they stand for: after every
\* byte, digit i of the lower half is one minus the parity of the ones read so
\* far at addresses with a 1 there, and every digit of the upper half is the
\* parity of all of them (ecc.c, lines 15 to 64).
ParitySoFar ==
  pc = "bytes" =>
    LET ones == {a \in OnesIn(data) : a >= 8 * pos}
    IN  /\ \A i \in Ones : i \in parity <=> ~IsOdd(Having(ones, i, 1))
        /\ \A i \in Ones : i + 16 \in parity <=> IsOdd(ones)

\* "ECC can correct any single-bit error" (nand.c, line 121), also one in the
\* ECC itself, and no two errors pass for one or none (ecc.c, lines 82 to 118).
Verdict ==
  pc = "done" =>
    /\ Cardinality(flips) = 0 => result = 0 /\ data = original
    /\ Cardinality(flips) = 1 => result = 1 /\ data = original
    /\ Cardinality(flips) = 2 => result = 2 /\ data = DataRead(original, flips)

\* Data is changed only to repair it: a good bit is never flipped, though the
\* error may be in the bits that say where it is (ecc.c, lines 87 to 102).
OnlyRepairs == [][data' # data => data' = original]_vars

=============================================================================

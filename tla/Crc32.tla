------------------------------- MODULE Crc32 -------------------------------
(***************************************************************************)
(* The CRC of the image decompressor (compress/crc32.c).  A 32-bit word is *)
(* the set of the positions of its ones, so that exclusive or is the       *)
(* symmetric difference.                                                   *)
(***************************************************************************)
EXTENDS Integers, Sequences, FiniteSetsExt

Word == 0 .. 31

WordOf(n) == {i \in 0 .. 30 : (n \div 2^i) % 2 = 1}

\* word >> n
ShiftRight(word, n) == {i - n : i \in {j \in word : j >= n}}

\* 0xedb88320
Feedback == {31, 30, 29, 27, 26, 24, 23, 21, 20, 19, 15, 9, 8, 5}

\* crc32_init(): what eight shifts make of each byte.
Shifted(crc) ==
  SymDiff(ShiftRight(crc, 1), IF 0 \in crc THEN Feedback ELSE {})

crc32_tab ==
  [byte \in SUBSET (0 .. 7) |->
     LET crc[j \in 0 .. 8] == IF j = 0 THEN byte ELSE Shifted(crc[j - 1])
     IN  crc[8]]

\* crc32_tab[(crc ^ byte) & 0xff] ^ (crc >> 8)
Next8(crc, byte) ==
  SymDiff(crc32_tab[SymDiff(crc, WordOf(byte)) \cap (0 .. 7)],
          ShiftRight(crc, 8))

Crc32(buf) ==
  LET crc[i \in 0 .. Len(buf)] ==
        IF i = 0 THEN Word ELSE Next8(crc[i - 1], buf[i])
  IN  Word \ crc[Len(buf)]

=============================================================================

------------------------------- MODULE MCEcc --------------------------------
(***************************************************************************)
(* Four bytes with an ECC of ten bits, two of the 42 flipped at most.  The *)
(* parities are linear in the data, so a few blocks tell as much about the *)
(* flips as all of them would; these use every entry of the tables.        *)
(***************************************************************************)
EXTENDS Ecc

CONSTANT Seeds  \* first bytes of the blocks

BitsOf(n) == {i \in 0 .. 7 : (n \div 2^i) % 2 = 1}
MCBlocks ==
  {[n \in ByteIndex |-> BitsOf((s * (2 * n + 1) + 64 * n) % 256)] : s \in Seeds}

=============================================================================

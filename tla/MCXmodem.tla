------------------------------ MODULE MCXmodem ------------------------------
(***************************************************************************)
(* A small serial line: bytes of three bits, a header of two blocks, an    *)
(* image of one, and a file whose bytes are mistaken for SOH and EOT when  *)
(* the receiver loses its place.                                           *)
(***************************************************************************)
EXTENDS Xmodem, TLC

MCData       == 0 .. 7
MCIsHeader   == [d \in MCData |-> d = 2]
MCLength     == [d \in MCData |-> IF d = 2 THEN 1 ELSE 0]
MCLoadAddr   == [d \in MCData |-> 2]
MCBlockSizes == {1}
MCResidues   == {[a \in Dram |-> 2]}

MCFiles    == {<<2, 1, 4>>, <<3, 1>>}

\* An image that makes the block number wrap around.
MCLongLength == [d \in MCData |-> IF d = 2 THEN 7 ELSE 0]
MCLongFile   == {<<2, 1, 4, 3, 3, 3, 3, 3, 3>>}

MCLossy == {"cut", "lose reply"}
MCNoisy == {"lose", "cut", "corrupt", "noise", "lose reply"}

\* The hypotheses of the theorems about the receiver, but for the faithful line.
ASSUME MCXmodemAssumption ==
  SaneHeaders /\ ControlBytes /\ (ShortFiles <=> Files # MCLongFile)

=============================================================================

----------------------------- MODULE MCNanoBoot -----------------------------
(***************************************************************************)
(* A flash of a few pages and a short file.  Cells are bytes of three bits *)
(* on both media: 2 is a header, 7 a half-page with too many flipped bits, *)
(* 6 one that is corrected to 5, and 0 as OOB byte marks a page as bad, in *)
(* both of the places the reader takes the OOB bytes from.  As OOB bytes, 7 *)
(* holds the ECC of any half-page, and no other byte holds that of any.    *)
(***************************************************************************)
EXTENDS NanoBoot, TLC

MCData       == 0 .. 7
MCIsHeader   == [d \in MCData |-> d = 2]
MCLength     == [d \in MCData |-> IF d = 2 THEN 1 ELSE 0]
MCLoadAddr   == [d \in MCData |-> 2]
MCBlockSizes == {1}
MCResidues   == {[a \in Dram |-> 2]}

MCMarked(c) == c = 0
MCEccErrors(block, c, h) ==
  CASE block[1] = 7 \/ c # 7 -> 2 [] block[1] = 6 -> 1 [] OTHER -> 0
MCEccFixed(block, c, h)  == IF block[1] = 6 THEN <<5>> ELSE block

PageOf(lo, hi, oob) == [data |-> <<<<lo>>, <<hi>>>>, oob |-> oob]

MCPages ==
  {PageOf(2, 1, 7), PageOf(6, 3, 7), PageOf(2, 7, 7), PageOf(7, 3, 7), PageOf(2, 0, 0)}

\* A first page with anything else on it would only be passed over.
MCFlashes ==
  {f \in [1 .. Pages -> MCPages] : f[1] \in {PageOf(2, 1, 7), PageOf(2, 7, 7), PageOf(2, 0, 0)}}

MCFiles   == {<<2, 1, 4>>}
MCLossy   == {"cut", "lose reply"}

\* The hypotheses of the theorems hold of them, but for the faithful line.
ASSUME MCNanoBootAssumption == SaneHeaders /\ SaneFlash /\ ShortFiles /\ ControlBytes

=============================================================================

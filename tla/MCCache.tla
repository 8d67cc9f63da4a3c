------------------------------ MODULE MCCache -------------------------------
(***************************************************************************)
(* Caches of two entries, direct-mapped for data and fully associative for *)
(* instructions, in front of a memory of six cells: two of them are filled *)
(* by a header, and an image of two cells right behind it or of one cell   *)
(* further up follows.                                                     *)
(***************************************************************************)
EXTENDS Cache, TLC

CONSTANTS hdrA, hdrB, code

MCData       == {hdrA, hdrB, code}
MCIsHeader   == [d \in MCData |-> d # code]
MCBlockSizes == {1}
MCResidues   == {[a \in Dram |-> code]}

MCLength   == (hdrA :> 2) @@ (hdrB :> 1) @@ (code :> 0)
MCLoadAddr == (hdrA :> 2) @@ (hdrB :> DramBase + 3) @@ (code :> 0)

ASSUME MCSaneHeaders == SaneHeaders

MCGarbage ==
  [Index -> {Invalid, Clean(DramBase + 2, hdrB), Dirty(DramBase + 2, hdrB),
             Dirty(DramBase + 3, hdrA)}]

=============================================================================

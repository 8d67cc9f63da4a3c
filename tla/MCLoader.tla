------------------------------ MODULE MCLoader ------------------------------
(***************************************************************************)
(* A small instance of Loader.  Memory has seven cells and a header fills two *)
(* of them; sources deliver one or two cells and may write one more.       *)
(***************************************************************************)
EXTENDS Loader, TLC

CONSTANTS hdrA, hdrB, code

MCData       == {hdrA, hdrB, code}
MCIsHeader   == [d \in MCData |-> d \in {hdrA, hdrB}]
MCBlockSizes == {1, 2}
MCResidues   == {[a \in Dram |-> d] : d \in {hdrA, code}}

MCLength == (hdrA :> 1) @@ (hdrB :> 2) @@ [d \in MCData |-> 0]

\* An image with the load address zero, shorter than a header.
MCLoadAddrZero == (hdrA :> 0) @@ (hdrB :> 2) @@ [d \in MCData |-> 0]

=============================================================================

------------------------------- MODULE Loader -------------------------------
(***************************************************************************)
(* The core loop of nanoboot (main.c): receive an image block by block,    *)
(* first its header at the start of DRAM, then its data at the load        *)
(* address the header names, and call it once it is complete.              *)
(*                                                                         *)
(* Where the blocks come from is left open here.  GetBlock is the contract *)
(* of get_block() that both sources (Nand, Xmodem) keep: it may write a    *)
(* few cells from base on, and reports a block, a retry, or the end.       *)
(* Modules Nand and Xmodem extend this one and give get_block() its code.  *)
(*                                                                         *)
(* Memory is counted in cells.  One cell is the smallest block a source    *)
(* delivers (128 bytes for Xmodem) and holds one element of Data.          *)
(***************************************************************************)
EXTENDS Integers, Sequences

CONSTANTS
  Data,        (* what a cell of memory can hold                           *)
  IsHeader,    (* IsHeader[d]: the cell starts with a valid image header   *)
  Length,      (* Length[d]: header->length, in cells, if d is a header    *)
  LoadAddr,    (* LoadAddr[d]: header->loadaddr, in cells                  *)
  DramBase,    (* DRAM_BASE: half of the 32-bit address space              *)
  HeaderSize,  (* IMAGE_HEADER_SIZE, in cells                              *)
  BlockSizes,  (* sizes a source may deliver, in cells                     *)
  Scratch,     (* get_block(base) writes to base .. base + Scratch - 1     *)
  Residues     (* memory contents found at reset or left by an image       *)

AddrMod    == 2 * DramBase
Addr       == 0 .. AddrMod - 1
Dram       == DramBase .. AddrMod - 1
HeaderBase == DramBase
Infinity   == AddrMod - 1

ASSUME LoaderAssumption ==
  /\ DramBase \in Nat /\ HeaderSize \in Nat \ {0}
  /\ HeaderSize + 1 < DramBase
  /\ Scratch \in Nat
  /\ BlockSizes \subseteq 1 .. Scratch
  /\ IsHeader \in [Data -> BOOLEAN]
  /\ Length   \in [Data -> Addr]
  /\ LoadAddr \in [Data -> Addr]
  /\ Residues \subseteq [Dram -> Data]

VARIABLES
  pc,            (* "loop": in the while loop; "end": left it by break;    *)
                 (* "image": the image is running                          *)
  base,          (* address the next block goes to                         *)
  data_end,      (* end of the image data; Infinity while in the header    *)
  expect_header, (* as computed by the last iteration of the loop          *)
  mem,           (* DRAM                                                   *)
  stream         (* history: the cells delivered since the header began    *)

loaderVars == <<pc, base, data_end, expect_header, mem, stream>>

-----------------------------------------------------------------------------

OrDramBase(a) == IF a < DramBase THEN a + DramBase ELSE a

\* header->loadaddr | DRAM_BASE, and the end of the image as a 32-bit sum
LoadBase(h) == OrDramBase(LoadAddr[h])
ImageEnd(h) == (LoadBase(h) + Length[h]) % AddrMod

\* The header as main.c reads it: out of memory, whenever it needs it.
Header == mem[HeaderBase]
Entry  == LoadBase(Header)

\* The parameters of the get_block() call of this iteration.
ExpectHeader == base = HeaderBase
Eof          == base = data_end

\* What a call of get_block(base) may leave in memory.
Scribbles ==
  {m \in [Dram -> Data] :
     \A a \in Dram \ (base .. base + Scratch - 1) : m[a] = mem[a]}

-----------------------------------------------------------------------------

\* Mutant: the switch is made again for every block behind the header.
AdvanceAgain(b) ==
  LET switch == b >= HeaderBase + HeaderSize
  IN  /\ expect_header' = ExpectHeader
      /\ base' = IF switch THEN LoadBase(mem'[HeaderBase]) ELSE b
      /\ data_end' = IF switch THEN ImageEnd(mem'[HeaderBase]) ELSE data_end
      /\ pc' = "loop"

\* base += res, and the switch from the header to the image data.
Advance(b) ==
  /\ expect_header' = ExpectHeader
  /\ IF b = HeaderBase + HeaderSize
       THEN /\ base' = LoadBase(mem'[HeaderBase])
            /\ data_end' = ImageEnd(mem'[HeaderBase])
       ELSE /\ base' = b
            /\ data_end' = data_end
  /\ pc' = "loop"

\* get_block() returned n > 0, having stored the block at base.
Took(n) ==
  LET block == [i \in 1 .. n |-> mem'[base + i - 1]]
  IN  /\ stream' = IF ExpectHeader THEN block ELSE stream \o block
      /\ Advance((base + n) % AddrMod)

\* get_block() returned 0: retry at the same address.
Retry == stream' = stream /\ Advance(base)

\* Mutant: a status is added to base like a length, as an unsigned number.
StopAddsStatus == stream' = stream /\ Advance(base + AddrMod - 1)

\* get_block() returned STATUS_ABORT or STATUS_EOF.
Stop ==
  /\ pc' = "end"
  /\ expect_header' = ExpectHeader
  /\ UNCHANGED <<base, data_end, stream>>

\* The while loop is still to call get_block().
InLoop == pc = "loop" /\ base <= data_end

\* What may be delivered as a block: a first block is a header, and the
\* blocks of a header fill it exactly.
Deliverable(n) ==
  /\ base + n - 1 \in Dram
  /\ ExpectHeader => IsHeader[mem'[base]]
  /\ Len(stream) < HeaderSize => Len(stream) + n <= HeaderSize

GetBlock ==
  /\ InLoop
  /\ mem' \in Scribbles
  /\ \/ \E n \in BlockSizes : Deliverable(n) /\ Took(n)
     \/ Retry
     \/ Stop

StartLoad ==
  /\ pc' = "loop"
  /\ base' = HeaderBase
  /\ data_end' = Infinity
  /\ expect_header' = TRUE
  /\ stream' = <<>>

\* Mutant: any end of the loop outside a header calls the image.
EndLoadAlwaysCalls ==
  /\ pc = "end" \/ (pc = "loop" /\ base > data_end)
  /\ UNCHANGED mem
  /\ IF ~expect_header
       THEN /\ pc' = "image"
            /\ UNCHANGED <<base, data_end, expect_header, stream>>
       ELSE StartLoad

\* After the loop: call the image if it is complete, else try the next one.
EndLoad ==
  /\ pc = "end" \/ (pc = "loop" /\ base > data_end)
  /\ UNCHANGED mem
  /\ IF base >= data_end /\ ~expect_header
       THEN /\ pc' = "image"
            /\ UNCHANGED <<base, data_end, expect_header, stream>>
       ELSE StartLoad

\* The image returned to the boot loader, which looks for the next one.
ImageReturns ==
  /\ pc = "image"
  /\ mem' \in Residues
  /\ StartLoad

LoaderInit ==
  /\ pc = "loop"
  /\ base = HeaderBase
  /\ data_end = Infinity
  /\ expect_header = TRUE
  /\ mem \in Residues
  /\ stream = <<>>

LoaderNext == GetBlock \/ EndLoad \/ ImageReturns

LoaderSpec == LoaderInit /\ [][LoaderNext]_loaderVars

-----------------------------------------------------------------------------

LoaderTypeOK ==
  /\ pc \in {"loop", "end", "image"}
  /\ base \in Addr
  /\ data_end \in Addr
  /\ expect_header \in BOOLEAN
  /\ mem \in [Dram -> Data]
  /\ stream \in Seq(Data)

\* A header and all the data it names, and these data.
HoldsImage(cells) ==
  /\ cells # <<>>
  /\ IsHeader[cells[1]]
  /\ Len(cells) >= HeaderSize + Length[cells[1]]

ImageIn(cells) == SubSeq(cells, HeaderSize + 1, HeaderSize + Length[cells[1]])

\* What main.c relies on but nowhere checks: the image is loaded behind its
\* header, and it and the block behind it end below the top of the address
\* space.
SaneHeaders ==
  \A d \in Data : IsHeader[d] =>
    /\ LoadBase(d) >= HeaderBase + HeaderSize
    /\ LoadBase(d) + Length[d] + Scratch < AddrMod

\* A running image was delivered completely: the cells received since its
\* header are, in order and up to the length the header names, in memory from
\* its entry point on, and the entry point is the one of that header.  The
\* call at the end of load_and_call_image() depends on it, whatever blocks
\* were retried, refused or cut off by an abort (main.c, lines 94 to 98).
ImageComplete ==
  pc = "image" =>
    LET h == stream[1]
    IN  /\ Len(stream) >= HeaderSize + Length[h]
        /\ IsHeader[h]
        /\ Entry = LoadBase(h)
        /\ \A i \in 0 .. Length[h] - 1 :
              mem[Entry + i] = stream[HeaderSize + 1 + i]

\* Once the header is complete every block delivered moves the load address
\* on, until the attempt ends: the switch to the load address happens exactly
\* once per image, so no received data is overwritten or taken for a header
\* again (main.c, lines 64 to 82).
MovesForward ==
  [][pc = "loop" /\ pc' = "loop" /\ Len(stream) >= HeaderSize =>
       IF stream' = stream THEN base' = base ELSE base' > base]_loaderVars

\* The invariant both rest on.  While the header is received, it lies where
\* main.c will read it and nothing ends the loop but the source; behind it,
\* base and data_end are those of this header, and everything received since
\* is in its place.
HeaderInv ==
  Len(stream) < HeaderSize =>
    /\ pc # "image"
    /\ base = HeaderBase + Len(stream)
    /\ data_end = Infinity
    /\ \A i \in 1 .. Len(stream) : mem[HeaderBase + i - 1] = stream[i]
    /\ stream # <<>> => IsHeader[stream[1]]

ImageInv ==
  Len(stream) >= HeaderSize =>
    LET h == stream[1]
    IN  /\ IsHeader[h]
        /\ Header = h
        /\ base = LoadBase(h) + Len(stream) - HeaderSize
        /\ data_end = LoadBase(h) + Length[h]
        /\ base <= data_end + Scratch
        /\ pc = "image" => base >= data_end
        /\ \A i \in HeaderSize + 1 .. Len(stream) :
              mem[LoadBase(h) + i - HeaderSize - 1] = stream[i]

\* Only a first block is taken with expect_header set.
FirstBlockInv == expect_header => Len(stream) <= HeaderSize

LoaderInv == LoaderTypeOK /\ HeaderInv /\ ImageInv /\ FirstBlockInv

=============================================================================

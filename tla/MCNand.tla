------------------------------- MODULE MCNand -------------------------------
(***************************************************************************)
(* Small flashes for Nand.  A half-page is one cell: a word and the number *)
(* of its flipped bits, with two standing for any number ecc_correct()     *)
(* finds uncorrectable.  The OOB bytes of a page hold the mark and, as the *)
(* ECC does, determine the word of each half.                              *)
(***************************************************************************)
EXTENDS Nand, TLC

CONSTANT MCPages  \* pages of flash

Cell(w)       == [word |-> w, flips |-> 0]
Flipped(w, n) == [word |-> w, flips |-> n]
OobCell(bad, w0, w1) == [bad |-> bad, ecc |-> <<w0, w1>>]

IsOob(c) == "bad" \in DOMAIN c

\* "ff": erased flash, also as ECC bytes; "pad": the unused rest of a header.
ErasedByte5 == {"ff", "pad"}

MCMarked(c) == IF IsOob(c) THEN c.bad ELSE c.word \notin ErasedByte5

EccMatches(c, w, h) == IF IsOob(c) THEN c.ecc[h + 1] = w ELSE c.word = "ff" /\ w = "ff"

MCEccErrors(block, c, h) ==
  IF ~IsOob(block[1]) /\ EccMatches(c, block[1].word, h)
    THEN block[1].flips
    ELSE 2

MCEccFixed(block, c, h) ==
  IF MCEccErrors(block, c, h) = 1 THEN <<Cell(block[1].word)>> ELSE block

-----------------------------------------------------------------------------

PageOf(lo, hi, bad) ==
  [data |-> <<<<lo>>, <<hi>>>>, oob |-> OobCell(bad, lo.word, hi.word)]

HeaderPage(w) == PageOf(Cell(w), Cell("pad"), FALSE)
DataPage(w)   == PageOf(Cell(w), Cell("d"), FALSE)
Refreshed(w)  == PageOf(Flipped(w, 1), Flipped("d", 1), FALSE)
BrokenLow(w)  == PageOf(Flipped(w, 2), Cell("d"), FALSE)
BrokenHigh(w) == PageOf(Cell(w), Flipped("d", 2), FALSE)
BadPage       == PageOf(Cell("hA"), Cell("d"), TRUE)
ErasedPage    == PageOf(Cell("ff"), Cell("ff"), FALSE)
BadErased     == PageOf(Cell("ff"), Cell("ff"), TRUE)

\* Image A has three half-pages behind its header, image B one; data differs
\* between pages.
Words == {"hA", "hB", "pad", "ff", "d", "w1", "w2", "w3", "w4", "w5", "w6"}
Word(p) == <<"w1", "w2", "w3", "w4", "w5", "w6">>[p]

MCData ==
  [word : Words, flips : 0 .. 2] \cup [bad : BOOLEAN, ecc : Words \X Words]

HeaderWord(d) == IF IsOob(d) THEN "none" ELSE d.word

MCIsHeader == [d \in MCData |-> HeaderWord(d) \in {"hA", "hB"} /\ d.flips = 0]
MCLength   == [d \in MCData |->
                 CASE HeaderWord(d) = "hA" -> 3 [] HeaderWord(d) = "hB" -> 1
                   [] OTHER -> 0]
MCLoadAddr == [d \in MCData |->
                 CASE HeaderWord(d) = "hA" -> 2 [] HeaderWord(d) = "hB" -> 4
                   [] OTHER -> 0]

MCBlockSizes == {1}
MCResidues   == {[a \in Dram |-> Cell(w)] : w \in {"hA", "ff"}}

\* Any mix of pages, but for marked pages whose data passes for OOB bytes.
AnyPage(p) ==
  {HeaderPage("hA"), HeaderPage("hB"), DataPage(Word(p)), Refreshed(Word(p)),
   BrokenLow(Word(p)), BrokenHigh(Word(p)), BadPage, ErasedPage}

AnyFlash == {f \in [1 .. MCPages -> UNION {AnyPage(p) : p \in 1 .. MCPages}] :
               \A p \in 1 .. MCPages : f[p] \in AnyPage(p)}

\* The same in front of pages that hold nothing.
AnyBeginning ==
  {f \o <<ErasedPage, ErasedPage>> : f \in AnyFlash}

\* Image A damaged in at most one page, then image B in good order, with a bad
\* page somewhere in between or inside.
CopyA == <<HeaderPage("hA"), DataPage("w1"), DataPage("w2")>>
CopyB == <<HeaderPage("hB"), DataPage("w3")>>

DamagedCopies ==
  {CopyA} \cup
  {[CopyA EXCEPT ![1] = PageOf(Flipped("hA", 2), Cell("pad"), FALSE)],
   [CopyA EXCEPT ![1] = PageOf(Cell("hA"), Flipped("pad", 2), FALSE)]} \cup
  {[CopyA EXCEPT ![p] = x] : p \in 2 .. 3,
     x \in {BrokenLow("w1"), BrokenHigh("w1"), Refreshed("w1")}}

WithBadPage(f, p) == SubSeq(f, 1, p - 1) \o <<BadPage>> \o SubSeq(f, p, Len(f))

TwoCopies == {WithBadPage(c \o CopyB, p) : c \in DamagedCopies, p \in 1 .. 6}

\* No copy survives: the header of the second one is lost as well, or half a
\* page of either, or all of it.
Hopeless ==
  {WithBadPage(c \o <<BrokenLow("hB"), DataPage("w3")>>, p) :
     c \in DamagedCopies \ {CopyA}, p \in 1 .. 6} \cup
  {WithBadPage([CopyA EXCEPT ![2] = BrokenHigh("w1")]
                 \o <<HeaderPage("hB"), BrokenLow("w3")>>, p) : p \in 1 .. 6} \cup
  {[p \in 1 .. 6 |-> x] : x \in {ErasedPage, BadPage, BrokenLow("w1")}}

MCFlashes == AnyBeginning \cup TwoCopies \cup Hopeless

\* Image A with a marked page inside that was erased before it was marked.
BadErasedInside ==
  {<<HeaderPage("hA"), DataPage("w1"), BadErased, DataPage("w2")>>}

\* The hypotheses of the theorems about the flash reader hold of all flashes
\* but that one.
ASSUME MCNandAssumption == SaneHeaders /\ (SaneFlash <=> Flashes # BadErasedInside)

=============================================================================

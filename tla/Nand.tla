-------------------------------- MODULE Nand --------------------------------
(***************************************************************************)
(* The flash reader (nand.c) as the source of the core loop's blocks.      *)
(*                                                                         *)
(* Flash is read one half-page per call, in one sweep from FLASH_BASE to   *)
(* FLASH_END that survives failed and returned images.  The first call on  *)
(* a page copies all of it, its OOB bytes included, to the load address;   *)
(* the second call finds its half there, provided the loop has advanced.   *)
(* When the sweep ends, or SW1.1 is on, the reader hands over to Xmodem.   *)
(*                                                                         *)
(* Half a page is Half cells.  The OOB bytes in use fill part of one cell, *)
(* so any cell may be looked at as OOB bytes.  What ecc_correct() and the  *)
(* bad-block test make of cells is left to three operators.                *)
(***************************************************************************)
EXTENDS Loader

CONSTANTS
  Half,             (* cells per half-page, 256 bytes                      *)
  Pages,            (* pages between FLASH_BASE and FLASH_END              *)
  Flashes,          (* contents the flash may have: Pages pages, each      *)
                    (* [data |-> <<half-page, half-page>>, oob |-> cell]   *)
  Marked(_),        (* byte 5 of the cell, read as OOB bytes, is not 0xff  *)
  EccErrors(_,_,_), (* ecc_correct(half-page, the ECC this cell has for    *)
                    (* half 0 or 1): 0, 1, or 2 for "uncorrectable"        *)
  EccFixed(_,_,_)   (* the half-page as ecc_correct() leaves it then       *)

HalfPages  == [1 .. Half -> Data]
FlashPages == [data : HalfPages \X HalfPages, oob : Data]

ASSUME NandAssumption ==
  /\ Half \in Nat \ {0} /\ Pages \in Nat \ {0}
  /\ HeaderSize = 2 * Half
  /\ Scratch = 2 * Half + 1
  /\ HeaderSize + Scratch < DramBase
  /\ Half \in BlockSizes
  /\ \A f \in Flashes : Len(f) = Pages /\ \A p \in 1 .. Pages : f[p] \in FlashPages
  /\ \A block \in HalfPages, c \in Data, h \in 0 .. 1 :
       EccErrors(block, c, h) \in 0 .. 2 /\ EccFixed(block, c, h) \in HalfPages

VARIABLES
  flash,          (* never written by the loader                           *)
  nand_base,      (* half-pages from FLASH_BASE                            *)
  xmodem_enabled, (* the sweep is over                                     *)
  sw11            (* switch SW1.1 is on                                    *)

nandVars == <<flash, nand_base, xmodem_enabled, sw11>>

-----------------------------------------------------------------------------

halfpage == nand_base % 2

\* The page nand_base points into, and its 520 bytes as they come from flash.
Page     == flash[nand_base \div 2 + 1]
PageDump == Page.data[1] \o Page.data[2] \o <<Page.oob>>

\* Memory m with the cells s stored from address a on.
Stored(m, a, s) ==
  [x \in Dram |-> IF x - a + 1 \in DOMAIN s THEN s[x - a + 1] ELSE m[x]]

\* Only the first call on a page reads it from flash.
Fetched == IF halfpage = 0 THEN Stored(mem, base, PageDump) ELSE mem

\* The OOB bytes, where a page read to base or half a page before it left them.
Oob(m) == m[base + (2 - halfpage) * Half]

\* Mutant: the first half-page found is taken for a header.
JudgeHalfAnyHeader(block, oob) ==
  IF EccErrors(block, oob, halfpage) > 1
    THEN IF ExpectHeader THEN Retry ELSE Stop
    ELSE Took(Half)

\* The verdict on a half-page of an unmarked page.
JudgeHalf(block, oob) ==
  IF EccErrors(block, oob, halfpage) > 1
    THEN IF ExpectHeader THEN Retry ELSE Stop
    ELSE IF ExpectHeader /\ ~IsHeader[mem'[base]] THEN Retry ELSE Took(Half)

\* Mutant: the bad-block mark is not looked at.
ReadHalfIgnoringMarks ==
  LET raw   == Fetched
      oob   == Oob(raw)
      block == [i \in 1 .. Half |-> raw[base + i - 1]]
  IN  /\ nand_base' = nand_base + 1
      /\ mem' = Stored(raw, base, EccFixed(block, oob, halfpage))
      /\ JudgeHalf(block, oob)

\* Mutant: a bad page is left at once, from either half.
ReadHalfLeavingPage ==
  LET raw   == Fetched
      oob   == Oob(raw)
      block == [i \in 1 .. Half |-> raw[base + i - 1]]
  IN  IF Marked(oob)
        THEN nand_base' = nand_base + 2 /\ mem' = raw /\ Retry
        ELSE /\ nand_base' = nand_base + 1
             /\ mem' = Stored(raw, base, EccFixed(block, oob, halfpage))
             /\ JudgeHalf(block, oob)

\* Fetch, step on, check the mark, correct, and judge one half-page.
ReadHalf ==
  LET raw   == Fetched
      oob   == Oob(raw)
      block == [i \in 1 .. Half |-> raw[base + i - 1]]
  IN  /\ nand_base' = nand_base + 1
      /\ IF Marked(oob)
           THEN mem' = raw /\ Retry
           ELSE /\ mem' = Stored(raw, base, EccFixed(block, oob, halfpage))
                /\ JudgeHalf(block, oob)

\* Mutant: the end of flash does not enable Xmodem.
NandGetBlockNoHandover ==
  /\ InLoop /\ ~xmodem_enabled
  /\ IF Eof \/ nand_base = 2 * Pages \/ sw11
       THEN Stop /\ UNCHANGED <<nand_base, mem>>
       ELSE ReadHalf
  /\ UNCHANGED <<flash, xmodem_enabled, sw11>>

\* Mutant: Xmodem takes over without ending the attempt.
NandGetBlockKeepsAttempt ==
  /\ InLoop /\ ~xmodem_enabled
  /\ IF ~Eof /\ (nand_base = 2 * Pages \/ sw11)
       THEN UNCHANGED <<nand_base, mem>> /\ xmodem_enabled' = TRUE /\ Retry
       ELSE /\ IF Eof THEN Stop /\ UNCHANGED <<nand_base, mem>> ELSE ReadHalf
            /\ UNCHANGED xmodem_enabled
  /\ UNCHANGED <<flash, sw11>>

\* nand_get_block() while the sweep is on.
NandGetBlock ==
  /\ InLoop /\ ~xmodem_enabled
  /\ \/ Eof /\ Stop /\ UNCHANGED <<nand_base, mem, xmodem_enabled>>
     \/ /\ ~Eof /\ (nand_base = 2 * Pages \/ sw11)
        /\ xmodem_enabled' = TRUE
        /\ Stop
        /\ UNCHANGED <<nand_base, mem>>
     \/ /\ ~Eof /\ nand_base < 2 * Pages /\ ~sw11
        /\ ReadHalf
        /\ UNCHANGED xmodem_enabled
  /\ UNCHANGED <<flash, sw11>>

\* Mutant: the reader is initialised again for every attempt.
NandEndLoadRewinds ==
  /\ EndLoad
  /\ nand_base' = IF pc' = "loop" THEN 0 ELSE nand_base
  /\ UNCHANGED <<flash, xmodem_enabled, sw11>>

\* The rest of the core loop.
NandEndLoad      == EndLoad /\ UNCHANGED nandVars
NandImageReturns == ImageReturns /\ UNCHANGED nandVars

\* The user throws the switch.
ToggleSwitch ==
  /\ sw11' = ~sw11
  /\ UNCHANGED <<loaderVars, flash, nand_base, xmodem_enabled>>

\* xmodem_get_block() with nobody at the other end of the line.
Delegate == InLoop /\ xmodem_enabled /\ Retry /\ UNCHANGED <<mem, nandVars>>

NandInit ==
  /\ LoaderInit
  /\ flash \in Flashes
  /\ nand_base = 0
  /\ xmodem_enabled = FALSE
  /\ sw11 \in BOOLEAN

NandNext ==
  \/ NandGetBlock \/ Delegate
  \/ NandEndLoad \/ NandImageReturns
  \/ ToggleSwitch

NandSpec == NandInit /\ [][NandNext]_<<loaderVars, nandVars>>

\* The loader never waits: it goes on calling until an image runs.
NandFairness == WF_<<loaderVars, nandVars>>(NandGetBlock \/ Delegate \/ NandEndLoad)

FairNandSpec == NandSpec /\ NandFairness

-----------------------------------------------------------------------------

NandTypeOK ==
  /\ LoaderTypeOK
  /\ Len(flash) = Pages
  /\ nand_base \in 0 .. 2 * Pages
  /\ xmodem_enabled \in BOOLEAN
  /\ sw11 \in BOOLEAN

\* Half of a page as correction leaves it, and whether that is what was written.
Corrected(page, h)   == EccFixed(page.data[h + 1], page.oob, h)
Correctable(page, h) == EccErrors(page.data[h + 1], page.oob, h) <= 1

\* The same for half-page n of the flash, and whether its page is marked bad.
PageAt(n)   == flash[n \div 2 + 1]
Bad(n)      == Marked(PageAt(n).oob)
HalfPage(n) == Corrected(PageAt(n), n % 2)
Intact(n)   == Correctable(PageAt(n), n % 2)

\* What the flash holds from page p on and before half-page n, as the loader
\* should see it: the corrected half-pages of all pages not marked bad.
Flashed(p) ==
  LET cells[n \in 0 .. 2 * Pages] ==
        IF n <= 2 * (p - 1) THEN <<>>
        ELSE IF Bad(n - 1) THEN cells[n - 1]
        ELSE cells[n - 1] \o HalfPage(n - 1)
  IN  cells

\* Page p holds the beginning of a header, and up to half-page n there is no
\* error.
Readable(p, n) ==
  /\ ~Marked(flash[p].oob)
  /\ IsHeader[Corrected(flash[p], 0)[1]]
  /\ \A k \in 2 * (p - 1) .. n - 1 : Bad(k) \/ Intact(k)

\* What may have been read since page p.
Readings(p) == {Flashed(p)[n] : n \in {k \in 2 * p - 1 .. 2 * Pages : Readable(p, k)}}

\* Whatever has been delivered is what flash holds from some page on, corrected,
\* in order, without a gap, a repetition or a half-page of a bad page: although
\* the second call on a page works on what the first one left in memory, at an
\* address that only fits if that one was taken (nand.c, lines 66 to 117).
StreamIsFlashed == stream # <<>> => \E p \in 1 .. Pages : stream \in Readings(p)

\* A call on a page marked bad delivers nothing and does not end the attempt:
\* "skips bad blocks in flash" (main.c, lines 65 to 69), "bad block; next one"
\* (nand.c, lines 115 to 117).
BadPagesSkipped ==
  [][nand_base' # nand_base /\ Marked(Page.oob)
       => pc' = "loop" /\ stream' = stream]_<<loaderVars, nandVars>>

\* What nand.c relies on but cannot check.  The second call on a page takes
\* the first bytes of its second half for the OOB bytes, unless the first call
\* was taken.  On a bad page these bytes had better be marked as well, and on
\* any other, where a header is expected, they must not pass for the ECC of a
\* header in front of them.
PassesForHeader(block, c) ==
  ~Marked(c) /\ EccErrors(block, c, 1) <= 1 /\ IsHeader[EccFixed(block, c, 1)[1]]

SanePage(page) ==
  LET first == Corrected(page, 0)
  IN  IF Marked(page.oob) THEN Marked(page.data[2][1])
      ELSE IF Correctable(page, 0) /\ IsHeader[first[1]]
        THEN Correctable(page, 1) => ~PassesForHeader(first, Corrected(page, 1)[1])
        ELSE ~PassesForHeader(first, page.data[2][1])

\* The first half-page, and the cell behind it, where a header is expected.
FirstBlock(m) == [i \in 1 .. Half |-> m[HeaderBase + i - 1]]
SecondCell(m) == m[HeaderBase + Half]

SaneFlash ==
  /\ \A f \in Flashes : \A p \in 1 .. Pages : SanePage(f[p])
  /\ \A m \in Residues : ~PassesForHeader(FirstBlock(m), SecondCell(m))

\* The sweep comes to an end: an image runs, or the loader turns to Xmodem,
\* however damaged the flash is (nand.c, lines 27 to 35 and 139 to 147).
SweepEnds == []<>(pc = "image" \/ xmodem_enabled)

\* Flash holds an image from page p on, with no half-page lost.
IntactImage(p) ==
  \E n \in 2 * p .. 2 * Pages : Readable(p, n) /\ HoldsImage(Flashed(p)[n])

\* With the switch off, flash that holds an intact copy of an image boots some
\* image: "should the first copy get corrupted, nanoboot will just load the
\* second copy instead" (README.md, line 40).  This is about copies that lie
\* behind each other: a damaged image whose header announces so much that the
\* intact copy is in its range is given up when the sweep is past the copy's
\* beginning.
BootsIntactCopy ==
  (\E p \in 1 .. Pages : IntactImage(p)) /\ []~sw11 => <>(pc = "image")

=============================================================================

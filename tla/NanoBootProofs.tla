--------------------------- MODULE NanoBootProofs ---------------------------
(***************************************************************************)
(* The boot loader keeps the promise of Boot.  In three parts: the flash   *)
(* reader and the Xmodem receiver each keep the contract main.c relies on, *)
(* that every call of get_block() is a GetBlock of the core loop, so all   *)
(* that is proved there holds with either, for every flash and page size,  *)
(* and for every width of bytes and timer, all buffer sizes and all files; *)
(* and they still do when the one hands over to the other.                 *)
(***************************************************************************)
EXTENDS NanoBoot, LoaderProofs, Induction

-----------------------------------------------------------------------------
(***************************************************************************)
(* The flash reader keeps the contract main.c relies on: every call is a   *)
(* GetBlock, whatever flash holds, whatever the error correction makes of  *)
(* it, and whenever the switch is thrown.  So all that is proved of the    *)
(* core loop holds with this source, for every flash and page size.        *)
(*                                                                         *)
(* Where marks and ECC tell bad pages and headers from others, it also     *)
(* delivers what the flash holds, from some page on, over the bad ones.    *)
(***************************************************************************)

\* Half of a header is received by whole half-pages, or not at all: what the
\* reader adds to the invariant of the core loop.
NandInv ==
  /\ flash \in Flashes
  /\ nand_base \in 0 .. 2 * Pages
  /\ xmodem_enabled \in BOOLEAN
  /\ sw11 \in BOOLEAN
  /\ ~xmodem_enabled /\ Len(stream) < HeaderSize => Len(stream) \in {0, Half}

\* The sizes of NandAssumption.
LEMMA PageLayout ==
  /\ Half \in Nat /\ Half >= 1 /\ Pages \in Nat
  /\ HeaderSize = 2 * Half /\ Scratch = 2 * Half + 1
  /\ HeaderBase + HeaderSize + Scratch < AddrMod
  /\ Half \in BlockSizes
BY NandAssumption, AddressMap DEF NandAssumption, HeaderBase, AddrMod

\* An address below AddrMod does not wrap.
LEMMA RemainderOfLess ==
  ASSUME NEW x \in Nat, NEW y \in Nat, x < y
  PROVE  x % y = x
OBVIOUS

\* A half-page, as a sequence of cells.
LEMMA HalfPageSeq ==
  ASSUME NEW block \in HalfPages
  PROVE  block \in Seq(Data) /\ Len(block) = Half
<1>1. Half \in Nat /\ block \in [1 .. Half -> Data]
  BY PageLayout DEF HalfPages
<1>2. block \in Seq(Data)
  BY <1>1, SeqDef
<1>3. Len(block) \in Nat /\ DOMAIN block = 1 .. Len(block) /\ DOMAIN block = 1 .. Half
  BY <1>1, <1>2, LenProperties
<1> QED
  BY <1>1, <1>2, <1>3

\* The page under the reader is one of the flash, and 2 * Half + 1 cells long.
LEMMA PageDumpSeq ==
  ASSUME NandInv, nand_base < 2 * Pages
  PROVE  PageDump \in Seq(Data) /\ Len(PageDump) = Scratch
<1>1. nand_base \in Int /\ 0 <= nand_base /\ nand_base < 2 * Pages /\ Pages \in Int
  BY PageLayout DEF NandInv
<1>2. nand_base \div 2 + 1 \in 1 .. Pages
  BY <1>1
<1>3. Page \in FlashPages
  BY <1>2, NandAssumption DEF NandInv, NandAssumption, Page
<1>4. Page.data[1] \in HalfPages /\ Page.data[2] \in HalfPages /\ Page.oob \in Data
  BY <1>3 DEF FlashPages
<1> DEFINE first == Page.data[1]
           second == Page.data[2]
           oob == <<Page.oob>>
<1>5. /\ first \in Seq(Data) /\ Len(first) = Half
      /\ second \in Seq(Data) /\ Len(second) = Half
  BY <1>4, HalfPageSeq
<1>6. oob \in Seq(Data) /\ Len(oob) = 1
  BY <1>4
<1>7. PageDump = (first \o second) \o oob
  BY DEF PageDump
<1> HIDE DEF first, second, oob
<1> DEFINE data == first \o second
<1>8. data \in Seq(Data) /\ Len(data) = 2 * Half
  <2>1. data \in Seq(Data) /\ Len(data) = Len(first) + Len(second)
    BY <1>5, ConcatProperties
  <2> HIDE DEF data
  <2> QED
    BY <1>5, <2>1, PageLayout
<1> HIDE DEF data
<1>9. data \o oob \in Seq(Data) /\ Len(data \o oob) = Len(data) + Len(oob)
  BY <1>6, <1>8, ConcatProperties
<1> QED
  BY <1>6, <1>7, <1>8, <1>9, PageLayout DEF data

\* Storing cells changes the memory they are stored in, and no other.
LEMMA StoredFrame ==
  ASSUME NEW m \in [Dram -> Data], NEW a \in Int, NEW s \in Seq(Data)
  PROVE  /\ Stored(m, a, s) \in [Dram -> Data]
         /\ \A x \in Dram : x \notin a .. a + Len(s) - 1 => Stored(m, a, s)[x] = m[x]
<1>1. Len(s) \in Nat /\ DOMAIN s = 1 .. Len(s) /\ \A i \in 1 .. Len(s) : s[i] \in Data
  BY LenProperties
<1>2. \A x \in Dram : x \in Int
  BY AddressMap
<1>3. ASSUME NEW x \in Dram
      PROVE  /\ (IF x - a + 1 \in DOMAIN s THEN s[x - a + 1] ELSE m[x]) \in Data
             /\ x \notin a .. a + Len(s) - 1 =>
                  (IF x - a + 1 \in DOMAIN s THEN s[x - a + 1] ELSE m[x]) = m[x]
  BY <1>1, <1>2
<1> QED
  BY <1>3 DEF Stored

-----------------------------------------------------------------------------
(* What the flash holds *)

\* A half-page of the flash, corrected.
LEMMA HalfPageData ==
  ASSUME NandInv, NEW n \in 0 .. 2 * Pages - 1
  PROVE  /\ PageAt(n) \in FlashPages
         /\ HalfPage(n) \in Seq(Data) /\ Len(HalfPage(n)) = Half
<1>1. n \in Nat /\ Pages \in Nat /\ n < 2 * Pages
  BY PageLayout
<1>2. n \div 2 + 1 \in 1 .. Pages /\ n % 2 \in 0 .. 1
  BY <1>1
<1>3. PageAt(n) \in FlashPages
  BY <1>2, NandAssumption DEF NandInv, NandAssumption, PageAt
<1>4. PageAt(n).data[(n % 2) + 1] \in HalfPages /\ PageAt(n).oob \in Data
  <2>1. PageAt(n).data \in HalfPages \X HalfPages /\ PageAt(n).oob \in Data
    BY <1>3 DEF FlashPages
  <2>2. (n % 2) + 1 = 1 \/ (n % 2) + 1 = 2
    BY <1>2
  <2> QED
    BY <2>1, <2>2
<1>5. HalfPage(n) \in HalfPages
  BY <1>2, <1>4, NandAssumption DEF NandAssumption, HalfPage, Corrected
<1> QED
  BY <1>3, <1>5, HalfPageSeq

\* The recursive definition of Flashed has the value it names.
LEMMA FlashedStep ==
  ASSUME NandInv, NEW p \in 1 .. Pages, NEW n \in 0 .. 2 * Pages
  PROVE  /\ Flashed(p)[n] \in Seq(Data)
         /\ Flashed(p)[n] = IF n <= 2 * (p - 1) THEN <<>>
                            ELSE IF Bad(n - 1) THEN Flashed(p)[n - 1]
                            ELSE Flashed(p)[n - 1] \o HalfPage(n - 1)
<1> DEFINE Step(cells, k) == IF k <= 2 * (p - 1) THEN <<>>
                             ELSE IF Bad(k - 1) THEN cells
                             ELSE cells \o HalfPage(k - 1)
           step == [q \in Seq(Data) \X (1 .. 2 * Pages) |-> Step(q[1], q[2])]
           Body(cells) == [k \in 0 .. 2 * Pages |-> Step(cells[k - 1], k)]
<1>1. 2 * Pages \in Nat /\ p \in Nat /\ p >= 1
  BY PageLayout
<1>2. ASSUME NEW cells \in Seq(Data), NEW k \in 1 .. 2 * Pages
      PROVE  Step(cells, k) \in Seq(Data)
  <2>1. k - 1 \in 0 .. 2 * Pages - 1
    BY <1>1
  <2>2. HalfPage(k - 1) \in Seq(Data)
    BY <2>1, HalfPageData
  <2> HIDE DEF NandInv
  <2>3. cells \o HalfPage(k - 1) \in Seq(Data)
    BY <2>2, ConcatProperties
  <2>4. <<>> \in Seq(Data)
    OBVIOUS
  <2> QED
    BY <2>3, <2>4
<1>3. step \in [Seq(Data) \X (1 .. 2 * Pages) -> Seq(Data)]
  <2> HIDE DEF Step
  <2> QED
    BY <1>2
<1>4. <<>> \in Seq(Data)
  OBVIOUS
<1>5. \A cells \in Seq(Data), k \in 1 .. 2 * Pages : step[<<cells, k>>] = Step(cells, k)
  <2> HIDE DEF Step
  <2> QED
    OBVIOUS
<1>6. \A cells : Step(cells, 0) = <<>>
  BY <1>1
<1> HIDE DEF step, Step
<1>7. PICK f \in [0 .. 2 * Pages -> Seq(Data)] : Follows(f, <<>>, step, 2 * Pages)
  <2>1. step \in StepFunctions(Seq(Data), 2 * Pages)
    BY <1>3 DEF StepFunctions
  <2> QED
    BY <1>1, <1>4, <2>1, RecursionExists
<1>8. f = Body(f)
  <2>1. ASSUME NEW k \in 0 .. 2 * Pages PROVE f[k] = Step(f[k - 1], k)
    <3>1. CASE k = 0
      BY <1>6, <1>7, <3>1 DEF Follows
    <3>2. CASE k # 0
      <4>1. k \in 1 .. 2 * Pages /\ k - 1 \in 0 .. 2 * Pages
        BY <1>1, <3>2
      <4>2. f[k - 1] \in Seq(Data)
        BY <1>7, <4>1
      <4> QED
        BY <1>5, <1>7, <4>1, <4>2 DEF Follows
    <3> QED
      BY <3>1, <3>2
  <2> QED
    BY <1>7, <2>1
<1>9. Flashed(p) = CHOOSE cells : cells = Body(cells)
  BY DEF Flashed, Step
<1>10. Flashed(p) = Body(Flashed(p))
  <2> HIDE DEF Body
  <2> QED
    BY <1>8, <1>9
<1> DEFINE cells == Flashed(p)
<1>11. cells = Body(cells)
  BY <1>10
<1> HIDE DEF cells
<1>12. \A k \in 0 .. 2 * Pages : cells[k] = Step(cells[k - 1], k)
  BY <1>11
<1> DEFINE T == {k \in 0 .. 2 * Pages : cells[k] \in Seq(Data)}
<1>13. 0 \in T
  <2>1. 0 \in 0 .. 2 * Pages
    BY <1>1
  <2>2. cells[0] = <<>>
    BY <1>6, <1>12, <2>1
  <2> QED
    BY <1>4, <2>1, <2>2
<1>14. ASSUME NEW k \in 0 .. 2 * Pages - 1, k \in T PROVE k + 1 \in T
  <2>1. k + 1 \in 1 .. 2 * Pages /\ k + 1 - 1 = k
    BY <1>1
  <2>2. cells[k + 1] = Step(cells[k], k + 1)
    BY <1>12, <2>1
  <2> QED
    BY <1>2, <1>14, <2>1, <2>2
<1> HIDE DEF T
<1>15. 0 .. 2 * Pages \subseteq T
  BY <1>1, <1>13, <1>14, BoundedInduction
<1>16. cells[n] \in Seq(Data) /\ cells[n] = Step(cells[n - 1], n)
  BY <1>12, <1>15 DEF T
<1> QED
  BY <1>16 DEF cells, Step

-----------------------------------------------------------------------------

\* Where the reader works: the page with its OOB bytes fits in memory.
LEMMA PageFits ==
  ASSUME LoaderInv, SaneHeaders, InLoop
  PROVE  /\ base \in Int /\ DramBase <= base /\ base + Scratch < AddrMod
         /\ \A i \in 0 .. Scratch - 1 : base + i \in Dram
<1>1. /\ base \in Nat /\ base \in Dram /\ Len(stream) \in Nat
      /\ Len(stream) < HeaderSize => base = HeaderBase + Len(stream)
      /\ Len(stream) >= HeaderSize => base + Scratch < AddrMod
  BY BaseInDram
<1>2. DramBase <= base /\ base + Scratch < AddrMod
  BY <1>1, AddressMap, PageLayout
<1>3. ASSUME NEW i \in 0 .. Scratch - 1 PROVE base + i \in Dram
  BY <1>1, <1>2, AddressMap
<1> QED
  BY <1>1, <1>2, <1>3

\* The memory a call leaves: with the page, and with the half corrected.
LEMMA ReadHalfMemory ==
  ASSUME LoaderInv, SaneHeaders, InLoop, NandInv, nand_base < 2 * Pages
  PROVE  /\ Fetched \in Scribbles
         /\ LET block == [i \in 1 .. Half |-> Fetched[base + i - 1]]
            IN  Stored(Fetched, base, EccFixed(block, Oob(Fetched), halfpage)) \in Scribbles
<1> DEFINE raw == Fetched
           block == [i \in 1 .. Half |-> raw[base + i - 1]]
           fixed == EccFixed(block, Oob(raw), halfpage)
<1>1. mem \in [Dram -> Data]
  BY DEF LoaderInv, LoaderTypeOK
<1>2. /\ base \in Int /\ DramBase <= base /\ base + Scratch < AddrMod
      /\ \A i \in 0 .. Scratch - 1 : base + i \in Dram
  BY PageFits
<1>3. PageDump \in Seq(Data) /\ Len(PageDump) = Scratch
  BY PageDumpSeq
<1>4. /\ raw \in [Dram -> Data]
      /\ \A a \in Dram : a \notin base .. base + Scratch - 1 => raw[a] = mem[a]
  BY <1>1, <1>2, <1>3, StoredFrame DEF Fetched
<1> HIDE DEF raw
<1>5. \A i \in 1 .. Half : base + i - 1 \in Dram
  <2> SUFFICES ASSUME NEW i \in 1 .. Half PROVE base + i - 1 \in Dram
    OBVIOUS
  <2>1. i - 1 \in 0 .. Scratch - 1 /\ base + i - 1 = base + (i - 1)
    BY <1>2, PageLayout
  <2> QED
    BY <1>2, <2>1
<1>6. block \in HalfPages
  BY <1>4, <1>5 DEF HalfPages
<1>7. halfpage \in 0 .. 1
  <2>1. nand_base \in Nat
    BY PageLayout DEF NandInv
  <2> QED
    BY <2>1 DEF halfpage
<1>8. Oob(raw) \in Data
  <2>1. CASE halfpage = 0
    <3>1. (2 - halfpage) * Half = 2 * Half /\ 2 * Half \in 0 .. Scratch - 1
      BY <2>1, PageLayout
    <3> QED
      BY <1>2, <1>4, <3>1 DEF Oob
  <2>2. CASE halfpage = 1
    <3>1. (2 - halfpage) * Half = Half /\ Half \in 0 .. Scratch - 1
      BY <2>2, PageLayout
    <3> QED
      BY <1>2, <1>4, <3>1 DEF Oob
  <2> QED
    BY <1>7, <2>1, <2>2
<1>9. fixed \in HalfPages
  BY <1>6, <1>7, <1>8, NandAssumption DEF NandAssumption
<1> HIDE DEF block, fixed
<1>10. fixed \in Seq(Data) /\ Len(fixed) = Half
  BY <1>9, HalfPageSeq
<1> DEFINE stored == Stored(raw, base, fixed)
<1>11. /\ stored \in [Dram -> Data]
       /\ \A a \in Dram : a \notin base .. base + Half - 1 => stored[a] = raw[a]
  BY <1>2, <1>4, <1>10, StoredFrame
<1> HIDE DEF stored
<1>12. base + Half - 1 <= base + Scratch - 1
  BY <1>2, PageLayout
<1>13. \A a \in Dram : a \notin base .. base + Scratch - 1 => stored[a] = mem[a]
  <2> SUFFICES ASSUME NEW a \in Dram, a \notin base .. base + Scratch - 1
               PROVE  stored[a] = mem[a]
    OBVIOUS
  <2>1. a \notin base .. base + Half - 1
    BY <1>2, <1>12, AddressMap, PageLayout
  <2> QED
    BY <1>4, <1>11, <2>1
<1>14. raw \in Scribbles /\ stored \in Scribbles
  BY <1>4, <1>11, <1>13 DEF Scribbles
<1> QED
  BY <1>14 DEF raw, block, fixed, stored

\* A half-page that is taken may be delivered as a block: the reader has
\* looked at the header, and two halves of a page make one.
LEMMA HalfDeliverable ==
  ASSUME LoaderInv, SaneHeaders, InLoop, NandInv, ~xmodem_enabled,
         ExpectHeader => IsHeader[mem'[base]]
  PROVE  Deliverable(Half)
<1>1. base \in Int /\ base + Half - 1 \in Dram
  <2>1. /\ base \in Int
        /\ \A i \in 0 .. Scratch - 1 : base + i \in Dram
    BY PageFits
  <2>2. Half - 1 \in 0 .. Scratch - 1 /\ base + (Half - 1) = base + Half - 1
    BY <2>1, PageLayout
  <2> QED
    BY <2>1, <2>2
<1>2. Len(stream) < HeaderSize => Len(stream) + Half <= HeaderSize
  BY PageLayout DEF NandInv
<1> QED
  BY <1>1, <1>2 DEF Deliverable

\* What a call may do, in terms of the contract: take half a page, retry, or
\* stop, with nothing written outside the window at base.
LEMMA NandKeepsContract ==
  ASSUME LoaderInv, SaneHeaders, NandInv, NandGetBlock
  PROVE  /\ GetBlock
         /\ \/ Took(Half) /\ mem' \in Scribbles /\ Deliverable(Half)
            \/ stream' = stream
<1>1. InLoop /\ ~xmodem_enabled
  BY DEF NandGetBlock
<1>2. CASE Eof /\ Stop /\ UNCHANGED <<nand_base, mem, xmodem_enabled>>
  BY <1>1, <1>2, NothingScribbled DEF GetBlock, Stop, LoaderInv
<1>3. CASE Stop /\ UNCHANGED <<nand_base, mem>>
  BY <1>1, <1>3, NothingScribbled DEF GetBlock, Stop, LoaderInv
<1>4. CASE nand_base < 2 * Pages /\ ReadHalf
  <2> DEFINE oob == Oob(Fetched)
             block == [i \in 1 .. Half |-> Fetched[base + i - 1]]
             stored == Stored(Fetched, base, EccFixed(block, oob, halfpage))
  <2>1. Fetched \in Scribbles /\ stored \in Scribbles
    BY <1>1, <1>4, ReadHalfMemory
  <2>2. \/ mem' = Fetched /\ Retry
        \/ mem' = stored /\ JudgeHalf(block, oob)
    BY <1>4 DEF ReadHalf
  <2> HIDE DEF oob, block, stored
  <2>3. CASE mem' = Fetched /\ Retry
    BY <1>1, <2>1, <2>3 DEF GetBlock, Retry
  <2>4. CASE mem' = stored /\ JudgeHalf(block, oob)
    <3>1. mem' \in Scribbles
      BY <2>1, <2>4
    <3>2. \/ Retry
          \/ Stop
          \/ Took(Half) /\ (ExpectHeader => IsHeader[mem'[base]])
      BY <2>4 DEF JudgeHalf
    <3>3. CASE Retry
      BY <1>1, <3>1, <3>3 DEF GetBlock, Retry
    <3>4. CASE Stop
      BY <1>1, <3>1, <3>4 DEF GetBlock, Stop
    <3>5. CASE Took(Half) /\ (ExpectHeader => IsHeader[mem'[base]])
      <4>1. Deliverable(Half)
        BY <1>1, <3>5, HalfDeliverable
      <4> QED
        BY <1>1, <3>1, <3>5, <4>1, PageLayout DEF GetBlock
    <3> QED
      BY <3>2, <3>3, <3>4, <3>5
  <2> QED
    BY <2>2, <2>3, <2>4
<1> QED
  BY <1>2, <1>3, <1>4 DEF NandGetBlock

\* Half a header stays half a header, or none, when a half-page is taken.
LEMMA NandGetBlockInv ==
  ASSUME LoaderInv, SaneHeaders, NandInv, NandGetBlock
  PROVE  NandInv'
<1>1. ~xmodem_enabled /\ Len(stream) \in Nat
  BY LenProperties DEF NandGetBlock, LoaderInv, LoaderTypeOK
<1>2. nand_base' \in 0 .. 2 * Pages /\ xmodem_enabled' \in BOOLEAN
  <2>1. nand_base' = nand_base \/ (nand_base < 2 * Pages /\ nand_base' = nand_base + 1)
    BY DEF NandGetBlock, ReadHalf
  <2>2. xmodem_enabled' \in BOOLEAN
    BY Zenon DEF NandInv, NandGetBlock
  <2> QED
    BY <2>1, <2>2, PageLayout DEF NandInv
<1>3. Len(stream') < HeaderSize => Len(stream') \in {0, Half}
  <2>1. CASE Took(Half) /\ mem' \in Scribbles /\ Deliverable(Half)
    <3>1. Len(stream') = Len(stream) + Half
      BY <2>1, TookStream, PageLayout
    <3> QED
      BY <1>1, <3>1, PageLayout DEF NandInv
  <2>2. CASE stream' = stream
    BY <1>1, <2>2 DEF NandInv
  <2> QED
    BY <2>1, <2>2, NandKeepsContract
<1> QED
  BY <1>2, <1>3 DEF NandInv, NandGetBlock

\* The other steps of main.c begin a stream again or leave it alone.
LEMMA NandUndisturbed ==
  ASSUME NandInv, EndLoad \/ ImageReturns \/ UNCHANGED loaderVars, UNCHANGED nandVars
  PROVE  NandInv'
<1>1. stream' = stream \/ stream' = <<>>
  BY DEF EndLoad, ImageReturns, StartLoad, loaderVars
<1>3. /\ flash' = flash /\ nand_base' = nand_base
      /\ xmodem_enabled' = xmodem_enabled /\ sw11' = sw11
  BY DEF nandVars
<1>4. ~xmodem_enabled' /\ Len(stream') < HeaderSize => Len(stream') \in {0, Half}
  <2>1. CASE stream' = stream
    BY <1>3, <2>1 DEF NandInv
  <2>2. CASE stream' = <<>>
    BY <2>2
  <2> QED
    BY <1>1, <2>1, <2>2
<1> QED
  BY Zenon, <1>3, <1>4 DEF NandInv

-----------------------------------------------------------------------------

LEMMA NandInitInv == NandInit => LoaderInv /\ NandInv
<1> SUFFICES ASSUME NandInit PROVE LoaderInv /\ NandInv
  OBVIOUS
<1>1. LoaderInv
  BY LoaderInitInv DEF NandInit
<1>2. Len(stream) = 0
  BY DEF NandInit, LoaderInit
<1>3. xmodem_enabled = FALSE /\ xmodem_enabled \in BOOLEAN
  BY Zenon DEF NandInit
<1>4. sw11 \in BOOLEAN /\ flash \in Flashes
  BY Zenon DEF NandInit
<1>5. nand_base \in 0 .. 2 * Pages
  BY PageLayout DEF NandInit
<1>6. Len(stream) \in {0, Half}
  BY <1>2
<1> QED
  BY Zenon, <1>1, <1>3, <1>4, <1>5, <1>6 DEF NandInv

LEMMA NandStep ==
  ASSUME LoaderInv, SaneHeaders, NandInv, [NandNext]_<<loaderVars, nandVars>>
  PROVE  [LoaderNext]_loaderVars /\ NandInv'
<1>1. CASE NandGetBlock
  BY <1>1, NandKeepsContract, NandGetBlockInv DEF LoaderNext
<1>2. CASE Delegate
  <2>1. GetBlock
    BY <1>2, NothingScribbled DEF Delegate, GetBlock, LoaderInv
  <2>2. stream' = stream /\ UNCHANGED nandVars
    BY <1>2 DEF Delegate, Retry
  <2> QED
    BY <2>1, <2>2 DEF LoaderNext, NandInv, nandVars
<1>3. CASE NandEndLoad
  BY <1>3, NandUndisturbed DEF NandEndLoad, LoaderNext
<1>4. CASE NandImageReturns
  BY <1>4, NandUndisturbed DEF NandImageReturns, LoaderNext
<1>5. CASE ToggleSwitch
  <2>1. stream' = stream /\ UNCHANGED loaderVars /\ sw11' \in BOOLEAN
    BY <1>5 DEF ToggleSwitch, loaderVars, NandInv
  <2> QED
    BY <1>5, <2>1 DEF ToggleSwitch, NandInv
<1>6. CASE UNCHANGED <<loaderVars, nandVars>>
  BY <1>6, NandUndisturbed
<1> QED
  BY <1>1, <1>2, <1>3, <1>4, <1>5, <1>6 DEF NandNext

\* The invariant of the core loop, and of the reader, with flash as the source.
THEOREM NandInvariant == SaneHeaders => (NandSpec => [](LoaderInv /\ NandInv))
<1> SUFFICES ASSUME SaneHeaders PROVE NandSpec => [](LoaderInv /\ NandInv)
  OBVIOUS
<1>1. NandInit => LoaderInv /\ NandInv
  BY NandInitInv
<1>2. LoaderInv /\ NandInv /\ [NandNext]_<<loaderVars, nandVars>>
        => (LoaderInv /\ NandInv)'
  BY NandStep, LoaderNextInv
<1> QED
  BY <1>1, <1>2, PTL DEF NandSpec

\* main.c with the flash reader is main.c with a source that keeps the contract
\* of get_block(): it writes only the page it reads, delivers a header only as
\* the first block, and delivers no part of a block beyond the header's end.
THEOREM NandIsLoader == SaneHeaders => (NandSpec => LoaderSpec)
<1> SUFFICES ASSUME SaneHeaders PROVE NandSpec => LoaderSpec
  OBVIOUS
<1>1. NandInit => LoaderInit
  BY DEF NandInit
<1>2. LoaderInv /\ NandInv /\ [NandNext]_<<loaderVars, nandVars>>
        => [LoaderNext]_loaderVars
  BY NandStep
<1>3. NandSpec => [](LoaderInv /\ NandInv)
  BY NandInvariant
<1> QED
  BY <1>1, <1>2, <1>3, PTL DEF NandSpec, LoaderSpec

\* The reader stays inside flash, and the loader's variables keep their types.
THEOREM NandTypeCorrect == SaneHeaders => (NandSpec => []NandTypeOK)
<1>1. LoaderInv /\ NandInv => NandTypeOK
  BY NandAssumption DEF LoaderInv, NandInv, NandTypeOK, NandAssumption
<1> QED
  BY <1>1, NandInvariant, PTL

\* An image called from flash was received completely, whatever pages were
\* marked bad, uncorrectable, or cut off by the switch.
THEOREM FlashRunsCompleteImages == SaneHeaders => (NandSpec => []ImageComplete)
BY NandIsLoader, OnlyCompleteImagesRun, PTL

-----------------------------------------------------------------------------
(* What is delivered *)

\* What is delivered is all that was read since some page.
ReadSince(n, cells) ==
  \E p \in 1 .. Pages :
    2 * (p - 1) < n /\ Readable(p, n) /\ cells = Flashed(p)[n]

\* Where the second call on a page finds what the first one left: the second
\* half and the OOB bytes, if the first half was taken; on a bad page it finds
\* the second half in the place of the OOB bytes.
SecondHalfInPlace ==
  IF Bad(nand_base)
    THEN mem[base + Half] = Page.data[2][1]
    ELSE /\ mem[base + Half] = Page.oob
         /\ \A i \in 1 .. Half : mem[base + i - 1] = Page.data[2][i]

\* The first half of a header is delivered, and its second half is next.
HalfHeader ==
  /\ halfpage = 1
  /\ ~Bad(nand_base) /\ Intact(nand_base - 1)
  /\ stream = HalfPage(nand_base - 1)

Assembling ==
  /\ ReadSince(nand_base, stream)
  /\ halfpage = 1 => SecondHalfInPlace
  /\ Len(stream) = Half => HalfHeader

\* Where a header is expected there is nothing that a call on the second half
\* of a page could take for one.
NoFalseHeader == ~PassesForHeader(FirstBlock(mem), SecondCell(mem))

\* While part of an image is delivered, the next call finds what the last one
\* left; and behind a complete header or before the first half of one, no false
\* one.  An attempt that was cut off inside a header resumes with a whole page.
FlashInv ==
  ~xmodem_enabled =>
    /\ StreamIsFlashed
    /\ pc = "loop" /\ stream # <<>> => Assembling
    /\ Len(stream) >= HeaderSize \/ (stream = <<>> /\ halfpage = 1) => NoFalseHeader
    /\ pc = "end" /\ Len(stream) = Half => halfpage = 0

\* The flash is only read.
LEMMA FlashUnchanged ==
  ASSUME flash' = flash, NEW p, NEW n
  PROVE  /\ Flashed(p)' = Flashed(p)
         /\ HalfPage(n)' = HalfPage(n)
         /\ Bad(n)' <=> Bad(n)
         /\ Readable(p, n)' <=> Readable(p, n)
         /\ Readings(p)' = Readings(p)
<1>1. Flashed(p)' = Flashed(p)
  BY DEF Flashed, HalfPage, Bad, Corrected, PageAt
<1>2. HalfPage(n)' = HalfPage(n) /\ (Bad(n)' <=> Bad(n))
  BY DEF HalfPage, Bad, Corrected, PageAt
<1>3. Readable(p, n)' <=> Readable(p, n)
  BY DEF Readable, Bad, Intact, Corrected, Correctable, PageAt
<1>4. Readings(p)' = Readings(p)
  BY DEF Readings, Readable, Flashed, HalfPage, Bad, Intact, Corrected, Correctable, PageAt
<1> QED
  BY <1>1, <1>2, <1>3, <1>4

LEMMA FlashedNext ==
  ASSUME NandInv, NEW p \in 1 .. Pages, NEW n \in 0 .. 2 * Pages - 1, 2 * (p - 1) <= n
  PROVE  Flashed(p)[n + 1] =
           IF Bad(n) THEN Flashed(p)[n] ELSE Flashed(p)[n] \o HalfPage(n)
<1>1. /\ n \in Nat /\ p \in Nat /\ Pages \in Nat
      /\ n + 1 \in 0 .. 2 * Pages /\ n + 1 - 1 = n
      /\ ~(n + 1 <= 2 * (p - 1))
  BY PageLayout
<1> DEFINE cells == Flashed(p)[n]
<1>2. Flashed(p)[n + 1] = IF Bad(n) THEN cells ELSE cells \o HalfPage(n)
  BY <1>1, FlashedStep
<1> QED
  BY <1>2

\* A reading goes on with the next half-page, or over a bad one.
LEMMA ReadOn ==
  ASSUME NandInv, NEW n \in 0 .. 2 * Pages - 1, NEW cells, ReadSince(n, cells),
         Bad(n) \/ Intact(n)
  PROVE  ReadSince(n + 1, IF Bad(n) THEN cells ELSE cells \o HalfPage(n))
<1>1. PICK p \in 1 .. Pages : 2 * (p - 1) < n /\ Readable(p, n) /\ cells = Flashed(p)[n]
  BY DEF ReadSince
<1>2. n \in Nat /\ p \in Nat /\ 2 * (p - 1) < n + 1 /\ 2 * (p - 1) <= n
  BY <1>1, PageLayout
<1>3. Flashed(p)[n + 1] = IF Bad(n) THEN cells ELSE cells \o HalfPage(n)
  BY <1>1, <1>2, FlashedNext
<1>4. Readable(p, n + 1)
  <2>1. ASSUME NEW k \in 2 * (p - 1) .. n PROVE Bad(k) \/ Intact(k)
    <3>1. k = n \/ k \in 2 * (p - 1) .. n - 1
      BY <1>2
    <3> QED
      BY <1>1, <3>1 DEF Readable
  <2> QED
    BY <1>1, <1>2, <2>1 DEF Readable
<1> QED
  BY <1>2, <1>3, <1>4 DEF ReadSince

\* A reading begins with the first half of a header on a page that is not bad.
LEMMA ReadFirst ==
  ASSUME NandInv, NEW n \in 0 .. 2 * Pages - 1, n % 2 = 0,
         ~Bad(n), Intact(n), IsHeader[HalfPage(n)[1]]
  PROVE  ReadSince(n + 1, HalfPage(n))
<1>1. PICK p \in 1 .. Pages :
        /\ p = n \div 2 + 1 /\ 2 * (p - 1) = n
        /\ n \in Nat /\ n \in 0 .. 2 * Pages /\ n + 1 \in 0 .. 2 * Pages
  <2>1. n \div 2 + 1 \in 1 .. Pages /\ 2 * (n \div 2 + 1 - 1) = n
    BY PageLayout
  <2> QED
    BY <2>1, PageLayout
<1>2. flash[p] = PageAt(n)
  BY <1>1 DEF PageAt
<1>3. ~Marked(flash[p].oob) /\ IsHeader[Corrected(flash[p], 0)[1]]
  BY <1>2 DEF Bad, HalfPage
<1>4. Flashed(p)[n] = <<>>
  BY <1>1, FlashedStep
<1>5. Flashed(p)[n + 1] = <<>> \o HalfPage(n)
  <2>0. p \in 1 .. Pages /\ 2 * (p - 1) <= n
    BY <1>1
  <2>1. Flashed(p)[n + 1] = IF Bad(n) THEN Flashed(p)[n] ELSE Flashed(p)[n] \o HalfPage(n)
    BY <2>0, FlashedNext, Zenon
  <2> QED
    BY <1>4, <2>1
<1>6. <<>> \o HalfPage(n) = HalfPage(n)
  BY HalfPageData, ConcatEmptySeq
<1>7. Readable(p, n + 1)
  <2>1. \A k \in 2 * (p - 1) .. n + 1 - 1 : k = n
    BY <1>1
  <2> QED
    BY <1>3, <2>1 DEF Readable
<1> QED
  BY <1>1, <1>5, <1>6, <1>7 DEF ReadSince

\* What has been read since some page is one of the readings of flash.
LEMMA ReadIsFlashed ==
  ASSUME NEW n \in 0 .. 2 * Pages, NEW cells, ReadSince(n, cells)
  PROVE  \E p \in 1 .. Pages : cells \in Readings(p)
<1>1. PICK p \in 1 .. Pages : 2 * (p - 1) < n /\ Readable(p, n) /\ cells = Flashed(p)[n]
  BY DEF ReadSince
<1>2. n \in 2 * p - 1 .. 2 * Pages
  BY <1>1, PageLayout
<1> QED
  BY <1>1, <1>2 DEF Readings

-----------------------------------------------------------------------------
(* One call on a half-page *)

\* The page as it comes from flash, cell by cell.
LEMMA PageDumpCells ==
  ASSUME NandInv, nand_base < 2 * Pages
  PROVE  /\ \A i \in 1 .. Half : PageDump[i] = Page.data[1][i]
         /\ \A i \in 1 .. Half : PageDump[Half + i] = Page.data[2][i]
         /\ PageDump[2 * Half + 1] = Page.oob
<1> DEFINE first == Page.data[1]
           second == Page.data[2]
           oob == <<Page.oob>>
           data == first \o second
<1>1. nand_base \in 0 .. 2 * Pages - 1
  BY PageLayout DEF NandInv
<1>2. Page \in FlashPages
  BY <1>1, HalfPageData DEF Page, PageAt
<1>3. /\ first \in Seq(Data) /\ Len(first) = Half
      /\ second \in Seq(Data) /\ Len(second) = Half
      /\ oob \in Seq(Data) /\ Len(oob) = 1 /\ oob[1] = Page.oob
  <2>1. Page.data[1] \in HalfPages /\ Page.data[2] \in HalfPages /\ Page.oob \in Data
    BY <1>2 DEF FlashPages
  <2> QED
    BY <2>1, HalfPageSeq
<1>4. PageDump = data \o oob
  BY DEF PageDump
<1> HIDE DEF first, second, oob
<1>5. /\ data \in Seq(Data) /\ Len(data) = 2 * Half
      /\ \A i \in 1 .. Half : data[i] = first[i]
      /\ \A i \in 1 .. Half : data[Half + i] = second[i]
  <2>1. /\ data \in Seq(Data) /\ Len(data) = Len(first) + Len(second)
        /\ \A i \in 1 .. Len(first) : data[i] = first[i]
        /\ \A i \in 1 .. Len(second) : data[Len(first) + i] = second[i]
    BY <1>3, ConcatCells
  <2> QED
    BY <1>3, <2>1, PageLayout
<1> HIDE DEF data
<1>6. /\ \A i \in 1 .. 2 * Half : PageDump[i] = data[i]
      /\ PageDump[2 * Half + 1] = oob[1]
  <2>1. /\ \A i \in 1 .. Len(data) : PageDump[i] = data[i]
        /\ \A i \in 1 .. Len(oob) : PageDump[Len(data) + i] = oob[i]
    BY <1>3, <1>4, <1>5, ConcatCells, SMTT(30)
  <2> QED
    BY <1>3, <1>5, <2>1
<1>7. ASSUME NEW i \in 1 .. Half
      PROVE  PageDump[i] = first[i] /\ PageDump[Half + i] = second[i]
  <2>1. i \in 1 .. 2 * Half /\ Half + i \in 1 .. 2 * Half
    BY PageLayout
  <2> QED
    BY <1>5, <1>6, <2>1
<1> QED
  BY <1>3, <1>6, <1>7 DEF first, second

\* Cells stored lie where they were stored.
LEMMA StoredCells ==
  ASSUME NEW m, NEW a \in Int, NEW s \in Seq(Data), NEW i \in 1 .. Len(s),
         a + i - 1 \in Dram
  PROVE  Stored(m, a, s)[a + i - 1] = s[i]
<1>1. Len(s) \in Nat /\ DOMAIN s = 1 .. Len(s)
  BY LenProperties
<1>2. a + i - 1 - a + 1 = i
  BY <1>1
<1> DEFINE x == a + i - 1
<1>3. Stored(m, a, s)[x] = IF x - a + 1 \in DOMAIN s THEN s[x - a + 1] ELSE m[x]
  BY DEF Stored
<1> QED
  BY <1>1, <1>2, <1>3

\* A call on the first half of a page leaves all of the page behind base, its
\* first half corrected if the page is not bad, and judges that half.
LEMMA FirstHalf ==
  ASSUME LoaderInv, SaneHeaders, InLoop, NandInv, nand_base < 2 * Pages,
         halfpage = 0, ReadHalf
  PROVE  /\ \A i \in 1 .. Half : mem'[base + Half + i - 1] = Page.data[2][i]
         /\ mem'[base + 2 * Half] = Page.oob
         /\ IF Bad(nand_base) THEN Retry
            ELSE /\ \A i \in 1 .. Half : mem'[base + i - 1] = HalfPage(nand_base)[i]
                 /\ JudgeHalf(Page.data[1], Page.oob)
<1> DEFINE raw == Stored(mem, base, PageDump)
           block == [i \in 1 .. Half |-> raw[base + i - 1]]
<1>1. /\ base \in Int /\ DramBase <= base /\ base + Scratch < AddrMod
      /\ \A i \in 0 .. Scratch - 1 : base + i \in Dram
  BY PageFits
<1>2. PageDump \in Seq(Data) /\ Len(PageDump) = Scratch
  BY PageDumpSeq
<1>3. nand_base \in 0 .. 2 * Pages - 1 /\ nand_base % 2 = 0
  BY PageLayout DEF NandInv, halfpage
<1>4. Page = PageAt(nand_base) /\ Page \in FlashPages
  BY <1>3, HalfPageData DEF Page, PageAt
<1>5. /\ raw \in [Dram -> Data]
      /\ \A i \in 1 .. Scratch : raw[base + i - 1] = PageDump[i]
  <2>1. raw \in [Dram -> Data]
    BY <1>1, <1>2, StoredFrame DEF LoaderInv, LoaderTypeOK
  <2>2. ASSUME NEW i \in 1 .. Scratch PROVE raw[base + i - 1] = PageDump[i]
    <3>1. i - 1 \in 0 .. Scratch - 1 /\ base + (i - 1) = base + i - 1
      BY <1>1, PageLayout
    <3>2. base + i - 1 \in Dram
      BY <1>1, <3>1
    <3> QED
      BY <1>1, <1>2, <3>2, StoredCells
  <2> QED
    BY <2>1, <2>2
<1>6. Fetched = raw
  BY DEF Fetched
<1> HIDE DEF raw
<1>7. ASSUME NEW i \in 1 .. Half
      PROVE  /\ raw[base + i - 1] = Page.data[1][i]
             /\ raw[base + Half + i - 1] = Page.data[2][i]
  <2>1. i \in 1 .. Scratch /\ Half + i \in 1 .. Scratch /\ base + (Half + i) - 1 = base + Half + i - 1
    BY <1>1, PageLayout
  <2> QED
    BY <1>5, <2>1, PageDumpCells
<1>8. raw[base + 2 * Half] = Page.oob
  <2>1. 2 * Half + 1 \in 1 .. Scratch /\ base + (2 * Half + 1) - 1 = base + 2 * Half
    BY <1>1, PageLayout
  <2> QED
    BY <1>5, <2>1, PageDumpCells
<1>9. Oob(raw) = Page.oob
  BY <1>8 DEF Oob
<1>10. block = Page.data[1]
  <2>1. Page.data[1] \in [1 .. Half -> Data]
    BY <1>4 DEF FlashPages, HalfPages
  <2> QED
    BY <1>7, <2>1
<1>11. EccFixed(block, Oob(raw), halfpage) = HalfPage(nand_base)
  BY <1>3, <1>4, <1>9, <1>10 DEF HalfPage, Corrected
<1>12. Bad(nand_base) <=> Marked(Oob(raw))
  BY <1>4, <1>9 DEF Bad
<1>13. HalfPage(nand_base) \in Seq(Data) /\ Len(HalfPage(nand_base)) = Half
  BY <1>3, HalfPageData
<1>14. CASE Bad(nand_base)
  <2>1. mem' = raw /\ Retry
    BY <1>6, <1>12, <1>14 DEF ReadHalf
  <2> QED
    BY <1>7, <1>8, <1>14, <2>1
<1>15. CASE ~Bad(nand_base)
  <2> DEFINE fixed == HalfPage(nand_base)
             stored == Stored(raw, base, fixed)
  <2>1. mem' = stored /\ JudgeHalf(Page.data[1], Page.oob)
    BY <1>6, <1>9, <1>10, <1>11, <1>12, <1>15 DEF ReadHalf
  <2>2. fixed \in Seq(Data) /\ Len(fixed) = Half
    BY <1>13
  <2> HIDE DEF fixed
  <2>3. ASSUME NEW i \in 1 .. Half PROVE stored[base + i - 1] = fixed[i]
    <3>1. i - 1 \in 0 .. Scratch - 1 /\ base + (i - 1) = base + i - 1
      BY <1>1, PageLayout
    <3>2. base + i - 1 \in Dram
      BY <1>1, <3>1
    <3> QED
      BY <1>1, <2>2, <3>2, StoredCells
  <2>4. \A x \in Dram : x \notin base .. base + Half - 1 => stored[x] = raw[x]
    BY <1>1, <1>5, <2>2, StoredFrame
  <2> HIDE DEF stored
  <2>5. ASSUME NEW i \in 1 .. Half PROVE stored[base + Half + i - 1] = Page.data[2][i]
    <3>1. /\ Half + i - 1 \in 0 .. Scratch - 1
          /\ base + (Half + i - 1) = base + Half + i - 1
          /\ base + Half + i - 1 \notin base .. base + Half - 1
      BY <1>1, PageLayout
    <3> QED
      BY <1>1, <1>7, <2>4, <3>1
  <2>6. stored[base + 2 * Half] = Page.oob
    <3>1. 2 * Half \in 0 .. Scratch - 1 /\ base + 2 * Half \notin base .. base + Half - 1
      BY <1>1, PageLayout
    <3> QED
      BY <1>1, <1>8, <2>4, <3>1
  <2> QED
    BY <1>15, <2>1, <2>3, <2>5, <2>6 DEF fixed
<1> QED
  BY <1>14, <1>15

\* A call on the second half of a page judges what lies at base, by the OOB
\* bytes that follow it.
LEMMA SecondHalf ==
  ASSUME LoaderInv, SaneHeaders, InLoop, NandInv, nand_base < 2 * Pages,
         halfpage = 1, ReadHalf,
         NEW block, block = [i \in 1 .. Half |-> mem[base + i - 1]],
         NEW c, c = mem[base + Half]
  PROVE  IF Marked(c) THEN Retry
         ELSE /\ \A i \in 1 .. Half : mem'[base + i - 1] = EccFixed(block, c, 1)[i]
              /\ JudgeHalf(block, c)
<1>1. /\ base \in Int /\ DramBase <= base /\ base + Scratch < AddrMod
      /\ \A i \in 0 .. Scratch - 1 : base + i \in Dram
  BY PageFits
<1>2. Fetched = mem /\ Oob(mem) = c /\ mem \in [Dram -> Data]
  <2>1. (2 - 1) * Half = Half
    BY PageLayout
  <2> QED
    BY <2>1 DEF Fetched, Oob, LoaderInv, LoaderTypeOK
<1>3. \A i \in 1 .. Half : base + i - 1 \in Dram
  <2> SUFFICES ASSUME NEW i \in 1 .. Half PROVE base + i - 1 \in Dram
    OBVIOUS
  <2>1. i - 1 \in 0 .. Scratch - 1 /\ base + (i - 1) = base + i - 1
    BY <1>1, PageLayout
  <2> QED
    BY <1>1, <2>1
<1>4. CASE Marked(c)
  BY <1>2, <1>4 DEF ReadHalf
<1>5. CASE ~Marked(c)
  <2> DEFINE fixed == EccFixed(block, c, 1)
  <2>1. mem' = Stored(mem, base, fixed) /\ JudgeHalf(block, c)
    BY <1>2, <1>5 DEF ReadHalf
  <2>2. fixed \in Seq(Data) /\ Len(fixed) = Half
    <3>1. block \in HalfPages
      BY <1>2, <1>3 DEF HalfPages
    <3>2. c \in Data
      <4>1. Half \in 0 .. Scratch - 1
        BY PageLayout
      <4> QED
        BY <1>1, <1>2, <4>1
    <3>3. fixed \in HalfPages
      BY <3>1, <3>2, NandAssumption DEF NandAssumption
    <3> QED
      BY <3>3, HalfPageSeq
  <2> HIDE DEF fixed
  <2>3. \A i \in 1 .. Half : mem'[base + i - 1] = fixed[i]
    BY <1>1, <1>3, <2>1, <2>2, StoredCells
  <2> QED
    BY <1>5, <2>1, <2>3 DEF fixed
<1> QED
  BY <1>4, <1>5

\* The page under the reader is one SaneFlash speaks of.
LEMMA PageIsSane ==
  ASSUME SaneFlash, NandInv, NEW n \in 0 .. 2 * Pages - 1
  PROVE  SanePage(PageAt(n))
<1>1. n \div 2 + 1 \in 1 .. Pages
  BY PageLayout
<1> QED
  BY <1>1 DEF SaneFlash, NandInv, PageAt

\* The place of a header in memory.
LEMMA HeaderPlace ==
  ASSUME LoaderInv
  PROVE  /\ FirstBlock(mem) \in HalfPages /\ SecondCell(mem) \in Data
         /\ \A i \in 1 .. Half : HeaderBase + i - 1 \in Dram
         /\ HeaderBase + Half \in Dram
<1>1. mem \in [Dram -> Data]
  BY DEF LoaderInv, LoaderTypeOK
<1>2. \A i \in 1 .. Half : HeaderBase + i - 1 \in Dram
  BY AddressMap, PageLayout
<1>3. HeaderBase + Half \in Dram
  BY AddressMap, PageLayout
<1> QED
  BY <1>1, <1>2, <1>3 DEF FirstBlock, SecondCell, HalfPages

\* What becomes of the next half-page of an image: a bad one is passed over, a
\* good one is taken, and one that cannot be corrected ends the attempt.
LEMMA ReadMore ==
  ASSUME LoaderInv, SaneHeaders, SaneFlash, NandInv, FlashInv, InLoop, ~xmodem_enabled,
         nand_base < 2 * Pages, ReadHalf, stream # <<>>
  PROVE  IF Bad(nand_base) THEN Retry
         ELSE IF Intact(nand_base)
           THEN /\ \A i \in 1 .. Half : mem'[base + i - 1] = HalfPage(nand_base)[i]
                /\ Took(Half)
           ELSE Stop
<1> DEFINE n == nand_base
<1>1. n \in 0 .. 2 * Pages - 1 /\ halfpage \in 0 .. 1 /\ halfpage = n % 2
  BY PageLayout DEF NandInv, halfpage
<1>2. Page = PageAt(n) /\ Page \in FlashPages
  BY <1>1, HalfPageData DEF Page, PageAt
<1>3. /\ Page.data[1] \in HalfPages /\ Page.data[2] \in HalfPages
      /\ Page.oob \in Data /\ Page.data[2][1] \in Data
  <2>1. Page.data[1] \in HalfPages /\ Page.data[2] \in HalfPages /\ Page.oob \in Data
    BY <1>2 DEF FlashPages
  <2> QED
    BY <2>1, PageLayout DEF HalfPages
<1>4. ~ExpectHeader
  BY ExpectHeaderEmpty
<1>5. \A block \in HalfPages, c \in Data, h \in 0 .. 1 : EccErrors(block, c, h) \in 0 .. 2
  BY NandAssumption DEF NandAssumption
<1>6. CASE halfpage = 0
  <2>1. IF Bad(n) THEN Retry
        ELSE /\ \A i \in 1 .. Half : mem'[base + i - 1] = HalfPage(n)[i]
             /\ JudgeHalf(Page.data[1], Page.oob)
    BY <1>6, FirstHalf
  <2>2. Intact(n) <=> ~(EccErrors(Page.data[1], Page.oob, halfpage) > 1)
    <3>1. EccErrors(Page.data[1], Page.oob, 0) \in 0 .. 2
      BY <1>3, <1>5
    <3> QED
      BY <1>1, <1>2, <1>6, <3>1 DEF Intact, Correctable
  <2> QED
    BY <1>4, <2>1, <2>2 DEF JudgeHalf
<1>7. CASE halfpage = 1
  <2> DEFINE c == mem[base + Half]
             block == [i \in 1 .. Half |-> mem[base + i - 1]]
  <2>1. SecondHalfInPlace
    BY <1>7 DEF FlashInv, Assembling, InLoop
  <2>2. IF Marked(c) THEN Retry
        ELSE /\ \A i \in 1 .. Half : mem'[base + i - 1] = EccFixed(block, c, 1)[i]
             /\ JudgeHalf(block, c)
    BY <1>7, SecondHalf
  <2>3. CASE Bad(n)
    <3>1. c = Page.data[2][1]
      BY <2>1, <2>3 DEF SecondHalfInPlace
    <3>2. SanePage(Page)
      BY <1>1, <1>2, PageIsSane
    <3>3. Marked(c)
      BY <1>2, <2>3, <3>1, <3>2 DEF SanePage, Bad
    <3> QED
      BY <2>2, <2>3, <3>3
  <2>4. CASE ~Bad(n)
    <3>1. c = Page.oob /\ block = Page.data[2]
      <4>1. c = Page.oob /\ \A i \in 1 .. Half : mem[base + i - 1] = Page.data[2][i]
        BY <2>1, <2>4 DEF SecondHalfInPlace
      <4>2. Page.data[2] \in [1 .. Half -> Data]
        BY <1>3 DEF HalfPages
      <4> QED
        BY <4>1, <4>2
    <3> HIDE DEF c, block
    <3>2. ~Marked(c)
      BY <1>2, <2>4, <3>1 DEF Bad
    <3>3. EccFixed(block, c, 1) = HalfPage(n)
      BY <1>1, <1>2, <1>7, <3>1 DEF HalfPage, Corrected
    <3>4. Intact(n) <=> ~(EccErrors(block, c, halfpage) > 1)
      <4>1. EccErrors(Page.data[2], Page.oob, 1) \in 0 .. 2
        BY <1>3, <1>5
      <4> QED
        BY <1>1, <1>2, <1>7, <3>1, <4>1 DEF Intact, Correctable
    <3> QED
      BY <1>4, <2>2, <2>4, <3>2, <3>3, <3>4 DEF JudgeHalf
  <2> QED
    BY <2>3, <2>4
<1> QED
  BY <1>1, <1>6, <1>7

\* Where a header is expected only the first half of a good page is taken, and
\* only if it is one.
LEMMA ReadHeader ==
  ASSUME LoaderInv, SaneHeaders, SaneFlash, NandInv, FlashInv, InLoop, ~xmodem_enabled,
         nand_base < 2 * Pages, ReadHalf, stream = <<>>
  PROVE  IF /\ halfpage = 0 /\ ~Bad(nand_base) /\ Intact(nand_base)
            /\ IsHeader[HalfPage(nand_base)[1]]
         THEN /\ \A i \in 1 .. Half : mem'[base + i - 1] = HalfPage(nand_base)[i]
              /\ Took(Half)
         ELSE Retry
<1> DEFINE n == nand_base
<1>1. n \in 0 .. 2 * Pages - 1 /\ halfpage \in 0 .. 1 /\ halfpage = n % 2
  BY PageLayout DEF NandInv, halfpage
<1>2. Page = PageAt(n) /\ Page \in FlashPages
  BY <1>1, HalfPageData DEF Page, PageAt
<1>3. base = HeaderBase /\ ExpectHeader
  <2>1. Len(stream) = 0 /\ 0 < HeaderSize
    BY PageLayout
  <2> QED
    BY <2>1, AddressMap DEF LoaderInv, HeaderInv, ExpectHeader
<1>4. CASE halfpage = 0
  <2>1. IF Bad(n) THEN Retry
        ELSE /\ \A i \in 1 .. Half : mem'[base + i - 1] = HalfPage(n)[i]
             /\ JudgeHalf(Page.data[1], Page.oob)
    BY <1>4, FirstHalf
  <2>2. Intact(n) <=> ~(EccErrors(Page.data[1], Page.oob, halfpage) > 1)
    <3>1. Page.data[1] \in HalfPages /\ Page.oob \in Data
      BY <1>2 DEF FlashPages
    <3>2. EccErrors(Page.data[1], Page.oob, 0) \in 0 .. 2
      BY <3>1, NandAssumption DEF NandAssumption
    <3> QED
      BY <1>1, <1>2, <1>4, <3>2 DEF Intact, Correctable
  <2>3. ~Bad(n) => mem'[base] = HalfPage(n)[1]
    <3>1. 1 \in 1 .. Half /\ base + 1 - 1 = base
      BY <1>3, AddressMap, PageLayout
    <3> QED
      BY <2>1, <3>1
  <2> QED
    BY <1>3, <1>4, <2>1, <2>2, <2>3 DEF JudgeHalf
<1>5. CASE halfpage = 1
  <2> DEFINE c == SecondCell(mem)
             block == FirstBlock(mem)
  <2>1. ~PassesForHeader(block, c)
    BY <1>5 DEF FlashInv, NoFalseHeader
  <2>2. block = [i \in 1 .. Half |-> mem[base + i - 1]] /\ c = mem[base + Half]
    BY <1>3 DEF FirstBlock, SecondCell
  <2> HIDE DEF c, block
  <2>3. IF Marked(c) THEN Retry
        ELSE /\ \A i \in 1 .. Half : mem'[base + i - 1] = EccFixed(block, c, 1)[i]
             /\ JudgeHalf(block, c)
    BY <1>5, <2>2, SecondHalf
  <2>4. CASE Marked(c)
    BY <1>5, <2>3, <2>4
  <2>5. CASE ~Marked(c)
    <3>1. mem'[base] = EccFixed(block, c, 1)[1]
      <4>1. 1 \in 1 .. Half /\ base + 1 - 1 = base
        BY <1>3, AddressMap, PageLayout
      <4> QED
        BY <2>3, <2>5, <4>1
    <3>2. EccErrors(block, c, 1) \in 0 .. 2
      <4>1. block \in HalfPages /\ c \in Data
        BY HeaderPlace DEF block, c
      <4> QED
        BY <4>1, NandAssumption DEF NandAssumption
    <3>3. EccErrors(block, c, halfpage) > 1 \/ ~IsHeader[mem'[base]]
      BY <1>5, <2>1, <2>5, <3>1, <3>2 DEF PassesForHeader
    <3> QED
      BY <1>3, <1>5, <2>3, <2>5, <3>3 DEF JudgeHalf
  <2> QED
    BY <2>4, <2>5
<1> QED
  BY <1>1, <1>4, <1>5

-----------------------------------------------------------------------------
(* FlashInv, step by step *)

\* The half-page taken follows what was delivered before.
LEMMA TookHalf ==
  ASSUME LoaderInv, SaneHeaders, InLoop, NandInv, ~xmodem_enabled,
         mem' \in Scribbles, Deliverable(Half), Took(Half),
         NEW block \in Seq(Data), Len(block) = Half,
         \A i \in 1 .. Half : mem'[base + i - 1] = block[i]
  PROVE  stream' = stream \o block
<1>1. /\ stream \in Seq(Data) /\ Len(stream) \in Nat
      /\ Half \in BlockSizes /\ Half \in Nat /\ base \in Int
  BY BaseInDram, PageLayout DEF LoaderInv, LoaderTypeOK
<1>2. /\ stream' \in Seq(Data)
      /\ Len(stream') = Len(stream) + Half
      /\ \A i \in 1 .. Len(stream) : stream'[i] = stream[i]
      /\ \A i \in Len(stream) + 1 .. Len(stream) + Half :
           stream'[i] = mem'[base + i - Len(stream) - 1]
  BY <1>1, TookStream
<1> DEFINE cells == stream \o block
<1>3. /\ cells \in Seq(Data) /\ Len(cells) = Len(stream) + Half
      /\ \A i \in 1 .. Len(stream) : cells[i] = stream[i]
      /\ \A i \in 1 .. Half : cells[Len(stream) + i] = block[i]
  <2>1. /\ cells \in Seq(Data) /\ Len(cells) = Len(stream) + Len(block)
        /\ \A i \in 1 .. Len(stream) : cells[i] = stream[i]
        /\ \A i \in 1 .. Len(block) : cells[Len(stream) + i] = block[i]
    BY <1>1, ConcatCells
  <2> QED
    BY <2>1
<1> HIDE DEF cells
<1>4. ASSUME NEW i \in 1 .. Len(stream) + Half PROVE stream'[i] = cells[i]
  <2>1. CASE i <= Len(stream)
    BY <1>1, <1>2, <1>3, <2>1
  <2>2. CASE i > Len(stream)
    <3> DEFINE j == i - Len(stream)
    <3>1. j \in 1 .. Half /\ i = Len(stream) + j /\ base + i - Len(stream) - 1 = base + j - 1
      BY <1>1, <2>2
    <3>2. stream'[i] = mem'[base + i - Len(stream) - 1]
      <4>1. i \in Len(stream) + 1 .. Len(stream) + Half
        BY <1>1, <2>2
      <4> QED
        BY <1>2, <4>1, Zenon
    <3> HIDE DEF j
    <3> QED
      BY <1>3, <3>1, <3>2
  <2> QED
    BY <1>1, <2>1, <2>2
<1>5. stream' = cells
  BY <1>1, <1>2, <1>3, <1>4, SeqEqual
<1> QED
  BY <1>5 DEF cells

\* Behind a complete header, the place of the header is not written to.
LEMMA HeaderKept ==
  ASSUME LoaderInv, SaneHeaders, NandInv, Len(stream) >= HeaderSize, mem' \in Scribbles
  PROVE  FirstBlock(mem') = FirstBlock(mem) /\ SecondCell(mem') = SecondCell(mem)
<1>1. base \in Int /\ base >= HeaderBase + 2 * Half
  <2> DEFINE h == stream[1]
  <2>1. stream \in Seq(Data) /\ Len(stream) \in Nat
    BY DEF LoaderInv, LoaderTypeOK
  <2>2. h \in Data /\ IsHeader[h] /\ base = LoadBase(h) + Len(stream) - HeaderSize
    BY <2>1, PageLayout DEF LoaderInv, ImageInv
  <2>3. LoadBase(h) \in Nat /\ LoadBase(h) >= HeaderBase + HeaderSize
    BY <2>2, HeaderFields
  <2> HIDE DEF h
  <2> QED
    BY <2>1, <2>2, <2>3, AddressMap, PageLayout
<1>2. \A a \in Dram : a < base => mem'[a] = mem[a]
  BY <1>1, AddressMap DEF Scribbles
<1>3. \A i \in 1 .. Half : HeaderBase + i - 1 \in Dram /\ HeaderBase + i - 1 < base
  BY <1>1, HeaderPlace, AddressMap, PageLayout
<1>4. HeaderBase + Half \in Dram /\ HeaderBase + Half < base
  BY <1>1, HeaderPlace, AddressMap, PageLayout
<1>5. \A i \in 1 .. Half : mem'[HeaderBase + i - 1] = mem[HeaderBase + i - 1]
  BY <1>2, <1>3
<1>6. SecondCell(mem') = SecondCell(mem)
  BY <1>2, <1>4 DEF SecondCell
<1> QED
  BY <1>5, <1>6 DEF FirstBlock

LEMMA NoFalseHeaderKept ==
  ASSUME LoaderInv, SaneHeaders, NandInv, FlashInv, ~xmodem_enabled,
         Len(stream) >= HeaderSize, mem' \in Scribbles
  PROVE  NoFalseHeader'
<1>1. NoFalseHeader
  BY DEF FlashInv
<1>2. FirstBlock(mem') = FirstBlock(mem) /\ SecondCell(mem') = SecondCell(mem)
  BY HeaderKept
<1>3. FirstBlock(mem)' = FirstBlock(mem') /\ SecondCell(mem)' = SecondCell(mem')
  BY DEF FirstBlock, SecondCell
<1> QED
  BY <1>1, <1>2, <1>3 DEF NoFalseHeader

\* The first half of a header.
LEMMA TookFirst ==
  ASSUME LoaderInv, SaneHeaders, NandInv, InLoop, ~xmodem_enabled,
         nand_base < 2 * Pages, ReadHalf, UNCHANGED <<flash, xmodem_enabled>>,
         mem' \in Scribbles, Deliverable(Half), Took(Half),
         stream = <<>>, halfpage = 0, ~Bad(nand_base), Intact(nand_base),
         IsHeader[HalfPage(nand_base)[1]],
         \A i \in 1 .. Half : mem'[base + i - 1] = HalfPage(nand_base)[i]
  PROVE  FlashInv'
<1> DEFINE n == nand_base
<1>1. /\ n \in 0 .. 2 * Pages - 1 /\ n % 2 = 0 /\ n + 1 \in 0 .. 2 * Pages
      /\ (n + 1) % 2 = 1 /\ (n + 1) \div 2 = n \div 2 /\ n + 1 - 1 = n
  BY PageLayout DEF NandInv, halfpage
<1>2. nand_base' = n + 1 /\ pc' = "loop"
  BY DEF ReadHalf, Took, Advance
<1>3. HalfPage(n) \in Seq(Data) /\ Len(HalfPage(n)) = Half
  BY <1>1, HalfPageData
<1>4. stream' = HalfPage(n)
  <2>1. stream' = stream \o HalfPage(n)
    BY <1>3, TookHalf
  <2> QED
    BY <1>3, <2>1, ConcatEmptySeq
<1>5. ReadSince(n + 1, HalfPage(n))
  BY <1>1, ReadFirst
<1>6. base = HeaderBase /\ base' = base + Half
  <2>1. Len(stream) = 0 /\ 0 < HeaderSize
    BY PageLayout
  <2>2. base = HeaderBase
    BY <2>1, AddressMap DEF LoaderInv, HeaderInv
  <2>3. (base + Half) % AddrMod = base + Half /\ base + Half # HeaderBase + HeaderSize
    <3>1. /\ HeaderBase \in Nat /\ Half \in Nat /\ AddrMod \in Nat
          /\ HeaderBase + Half < HeaderBase + HeaderSize /\ HeaderBase + Half < AddrMod
      BY AddressMap, PageLayout
    <3>2. (HeaderBase + Half) % AddrMod = HeaderBase + Half
      BY <3>1, RemainderOfLess
    <3> QED
      BY <2>2, <3>1, <3>2
  <2> QED
    BY <2>2, <2>3 DEF Took, Advance
<1>7. StreamIsFlashed'
  <2>1. \E p \in 1 .. Pages : stream' \in Readings(p)
    BY <1>1, <1>4, <1>5, ReadIsFlashed
  <2> QED
    BY <2>1, FlashUnchanged DEF StreamIsFlashed
<1>8. ReadSince(nand_base, stream)'
  BY <1>2, <1>4, <1>5, FlashUnchanged DEF ReadSince
<1>9. Page' = Page /\ Page = PageAt(n) /\ (Bad(nand_base)' <=> Bad(n))
  BY <1>1, <1>2 DEF Page, PageAt, Bad
<1>10. SecondHalfInPlace'
  <2>1. /\ \A i \in 1 .. Half : mem'[base + Half + i - 1] = Page.data[2][i]
        /\ mem'[base + 2 * Half] = Page.oob
    BY FirstHalf
  <2>2. base' + Half = base + 2 * Half
    BY <1>6, AddressMap, PageLayout
  <2>3. mem'[base' + Half] = Page'.oob /\ \A i \in 1 .. Half : mem'[base' + i - 1] = Page'.data[2][i]
    BY <1>6, <1>9, <2>1, <2>2
  <2> QED
    BY <1>9, <2>3 DEF SecondHalfInPlace
<1>11. HalfHeader'
  <2>1. halfpage' = 1
    BY <1>1, <1>2 DEF halfpage
  <2>2. Intact(nand_base - 1)' /\ HalfPage(nand_base - 1)' = HalfPage(n)
    BY <1>1, <1>2 DEF Intact, HalfPage, Correctable, Corrected, PageAt
  <2> QED
    BY <1>4, <1>9, <2>1, <2>2 DEF HalfHeader
<1>12. Len(stream') < HeaderSize /\ stream' # <<>>
  BY <1>3, <1>4, PageLayout
<1> QED
  BY <1>2, <1>7, <1>8, <1>10, <1>11, <1>12, PageLayout DEF FlashInv, Assembling

\* The next call is on the other half of the page, or on the next page.
LEMMA NextHalf ==
  ASSUME NandInv, nand_base < 2 * Pages, nand_base' = nand_base + 1, flash' = flash
  PROVE  /\ nand_base \in 0 .. 2 * Pages - 1 /\ nand_base + 1 \in 0 .. 2 * Pages
         /\ halfpage \in 0 .. 1
         /\ halfpage = 1 => halfpage' = 0
         /\ halfpage = 0 => /\ halfpage' = 1 /\ Page' = Page
                            /\ Bad(nand_base)' <=> Bad(nand_base)
<1>1. nand_base \in 0 .. 2 * Pages - 1 /\ nand_base + 1 \in 0 .. 2 * Pages
  BY PageLayout DEF NandInv
<1>2. halfpage \in 0 .. 1 /\ (halfpage = 1 => halfpage' = 0) /\ (halfpage = 0 => halfpage' = 1)
  BY <1>1 DEF halfpage
<1>3. ASSUME halfpage = 0
      PROVE  Page' = Page /\ (Bad(nand_base)' <=> Bad(nand_base))
  <2>1. (nand_base + 1) \div 2 = nand_base \div 2
    BY <1>1, <1>3 DEF halfpage
  <2> QED
    BY <2>1 DEF Page, PageAt, Bad
<1> QED
  BY <1>1, <1>2, <1>3

\* A header received completely is not followed by a false one.
LEMMA CompleteHeader ==
  ASSUME LoaderInv, SaneHeaders, SaneFlash, NandInv, FlashInv, InLoop, ~xmodem_enabled,
         nand_base < 2 * Pages, mem' \in Scribbles, Len(stream) = Half,
         Intact(nand_base),
         \A i \in 1 .. Half : mem'[base + i - 1] = HalfPage(nand_base)[i]
  PROVE  NoFalseHeader'
<1> DEFINE n == nand_base
           page == PageAt(n)
           first == Corrected(page, 0)
           second == Corrected(page, 1)
<1>1. stream # <<>> /\ Len(stream) < HeaderSize /\ Half \in Nat /\ Half >= 1
  BY PageLayout
<1>2. HalfHeader
  BY <1>1 DEF FlashInv, Assembling, InLoop
<1>3. /\ n \in 0 .. 2 * Pages - 1 /\ n % 2 = 1
      /\ n - 1 \in 0 .. 2 * Pages - 1 /\ (n - 1) % 2 = 0 /\ (n - 1) \div 2 = n \div 2
  <2>1. n \in 0 .. 2 * Pages /\ n < 2 * Pages /\ n % 2 = 1 /\ Pages \in Nat
    BY <1>2, PageLayout DEF HalfHeader, NandInv, halfpage
  <2> HIDE DEF n
  <2>2. n \in Nat /\ n >= 1
    BY <2>1
  <2>3. (n - 1) % 2 = 0 /\ (n - 1) \div 2 = n \div 2
    BY <2>1, <2>2
  <2> QED
    BY <2>1, <2>2, <2>3
<1>4. PageAt(n - 1) = page
  BY <1>3 DEF PageAt
<1>5. first = HalfPage(n - 1) /\ second = HalfPage(n)
  BY <1>3, <1>4 DEF HalfPage
<1>6. stream = first /\ ~Marked(page.oob) /\ Correctable(page, 0) /\ Correctable(page, 1)
  BY <1>2, <1>3, <1>4, <1>5 DEF HalfHeader, Bad, Intact
<1>7. first \in [1 .. Half -> Data]
  <2>1. page.data \in HalfPages \X HalfPages /\ page.oob \in Data
    BY <1>3, HalfPageData DEF FlashPages
  <2>2. page.data[1] \in HalfPages
    BY <2>1
  <2>3. first \in HalfPages
    BY <2>1, <2>2, NandAssumption DEF NandAssumption, Corrected
  <2> QED
    BY <2>3 DEF HalfPages
<1>8. base = HeaderBase + Half /\ IsHeader[stream[1]]
  BY <1>1 DEF LoaderInv, HeaderInv
<1>9. FirstBlock(mem') = first
  <2>1. \A i \in 1 .. Half : mem'[HeaderBase + i - 1] = stream[i]
    BY <1>1, WindowIsFree
  <2> HIDE DEF first
  <2> QED
    BY <1>6, <1>7, <2>1 DEF FirstBlock
<1>10. SecondCell(mem') = second[1]
  <2>1. 1 \in 1 .. Half /\ base + 1 - 1 = HeaderBase + Half
    BY <1>1, <1>8, AddressMap
  <2>2. mem'[base + 1 - 1] = HalfPage(n)[1]
    BY <2>1
  <2> QED
    BY <1>5, <2>1, <2>2 DEF SecondCell
<1>11. SanePage(page)
  BY <1>3, PageIsSane
<1>12. ~PassesForHeader(first, second[1])
  BY <1>6, <1>8, <1>11 DEF SanePage
<1>13. FirstBlock(mem)' = FirstBlock(mem') /\ SecondCell(mem)' = SecondCell(mem')
  BY DEF FirstBlock, SecondCell
<1>14. PassesForHeader(FirstBlock(mem), SecondCell(mem))' <=> PassesForHeader(first, second[1])
  <2> HIDE DEF first, second
  <2> QED
    BY <1>9, <1>10, <1>13 DEF PassesForHeader
<1> QED
  BY <1>12, <1>14 DEF NoFalseHeader

\* Another half-page of an image.
LEMMA TookMore ==
  ASSUME LoaderInv, SaneHeaders, SaneFlash, NandInv, FlashInv, InLoop, ~xmodem_enabled,
         nand_base < 2 * Pages, ReadHalf, UNCHANGED <<flash, xmodem_enabled>>,
         mem' \in Scribbles, Deliverable(Half), Took(Half),
         stream # <<>>, ~Bad(nand_base), Intact(nand_base),
         \A i \in 1 .. Half : mem'[base + i - 1] = HalfPage(nand_base)[i]
  PROVE  FlashInv'
<1> DEFINE n == nand_base
<1>1. nand_base' = n + 1 /\ pc' = "loop"
  BY DEF ReadHalf, Took, Advance
<1>2. /\ n \in 0 .. 2 * Pages - 1 /\ n + 1 \in 0 .. 2 * Pages
      /\ halfpage \in 0 .. 1 /\ (halfpage = 1 => halfpage' = 0)
      /\ halfpage = 0 => Page' = Page /\ (Bad(nand_base)' <=> Bad(n))
  BY <1>1, NextHalf
<1>3. HalfPage(n) \in Seq(Data) /\ Len(HalfPage(n)) = Half
  BY <1>2, HalfPageData
<1>4. stream' = stream \o HalfPage(n)
  BY <1>3, TookHalf
<1>5. /\ stream \in Seq(Data) /\ Len(stream) \in Nat /\ Len(stream) >= Half
      /\ Len(stream) < HeaderSize => Len(stream) = Half
      /\ Len(stream') = Len(stream) + Half
  <2>1. stream \in Seq(Data) /\ Len(stream) \in Nat /\ Len(stream) # 0
    BY LenProperties, EmptySeq DEF LoaderInv, LoaderTypeOK
  <2>2. Len(stream') = Len(stream) + Half
    BY <1>3, <1>4, <2>1, ConcatCells
  <2> QED
    BY <2>1, <2>2, PageLayout DEF NandInv
<1>6. Assembling
  BY DEF FlashInv, InLoop
<1>7. ReadSince(n + 1, stream')
  <2>1. ReadSince(n + 1, IF Bad(n) THEN stream ELSE stream \o HalfPage(n))
    BY <1>2, <1>6, ReadOn DEF Assembling
  <2> QED
    BY <1>4, <2>1
<1>8. StreamIsFlashed'
  <2>1. \E p \in 1 .. Pages : stream' \in Readings(p)
    BY <1>2, <1>7, ReadIsFlashed
  <2> QED
    BY <2>1, FlashUnchanged DEF StreamIsFlashed
<1>9. ReadSince(nand_base, stream)'
  BY <1>1, <1>7, FlashUnchanged DEF ReadSince
<1>10. ASSUME halfpage = 0 PROVE SecondHalfInPlace'
  <2>1. Len(stream) # Half
    BY <1>6, <1>10 DEF Assembling, HalfHeader
  <2>2. base' = base + Half
    BY <1>5, <2>1, TookInv, PageLayout
  <2>3. /\ \A i \in 1 .. Half : mem'[base + Half + i - 1] = Page.data[2][i]
        /\ mem'[base + 2 * Half] = Page.oob
    BY <1>10, FirstHalf
  <2>4. base' + Half = base + 2 * Half
    BY <2>2, BaseInDram, PageLayout
  <2>5. Page' = Page /\ ~Bad(nand_base)'
    BY <1>2, <1>10
  <2>6. mem'[base' + Half] = Page'.oob /\ \A i \in 1 .. Half : mem'[base' + i - 1] = Page'.data[2][i]
    BY <2>2, <2>3, <2>4, <2>5
  <2> QED
    BY <2>5, <2>6 DEF SecondHalfInPlace
<1>11. NoFalseHeader'
  <2>1. CASE Len(stream) = Half
    BY <2>1, CompleteHeader
  <2>2. CASE Len(stream) >= HeaderSize
    BY <2>2, NoFalseHeaderKept
  <2> QED
    BY <1>5, <2>1, <2>2, PageLayout
<1>12. Len(stream') # Half
  BY <1>5, PageLayout
<1>13. (halfpage = 1 => SecondHalfInPlace)'
  BY <1>2, <1>10
<1>14. Assembling'
  BY <1>9, <1>12, <1>13 DEF Assembling
<1> QED
  BY <1>1, <1>8, <1>11, <1>14 DEF FlashInv

\* Where a header is expected, what is not one is left where it is; a call on
\* the second half of the page does not take it for a header either.
LEMMA RetryFirst ==
  ASSUME LoaderInv, SaneHeaders, SaneFlash, NandInv, FlashInv, InLoop, ~xmodem_enabled,
         nand_base < 2 * Pages, ReadHalf, UNCHANGED <<flash, xmodem_enabled>>,
         Retry, stream = <<>>,
         ~(/\ halfpage = 0 /\ ~Bad(nand_base) /\ Intact(nand_base)
           /\ IsHeader[HalfPage(nand_base)[1]])
  PROVE  FlashInv'
<1> DEFINE n == nand_base
           page == PageAt(n)
           first == Corrected(page, 0)
<1>1. nand_base' = n + 1 /\ pc' = "loop" /\ stream' = <<>>
  BY DEF ReadHalf, Retry, Advance
<1>2. /\ n \in 0 .. 2 * Pages - 1 /\ halfpage \in 0 .. 1
      /\ halfpage = 1 => halfpage' = 0
  BY <1>1, NextHalf
<1>3. StreamIsFlashed'
  BY <1>1 DEF StreamIsFlashed
<1>4. Len(stream') = 0 /\ ~(Len(stream') >= HeaderSize)
  BY <1>1, PageLayout
<1>5. ASSUME halfpage = 0 PROVE NoFalseHeader'
  <2>1. Page = page /\ n % 2 = 0
    BY <1>5 DEF Page, PageAt, halfpage
  <2>2. base = HeaderBase
    <3>1. Len(stream) = 0 /\ 0 < HeaderSize
      BY PageLayout
    <3> QED
      BY <3>1, AddressMap DEF LoaderInv, HeaderInv
  <2>3. /\ mem'[base + Half] = page.data[2][1]
        /\ ~Bad(n) => \A i \in 1 .. Half : mem'[base + i - 1] = HalfPage(n)[i]
    <3>1. 1 \in 1 .. Half /\ base + Half + 1 - 1 = base + Half
      BY <2>2, AddressMap, PageLayout
    <3>2. \A i \in 1 .. Half : mem'[base + Half + i - 1] = Page.data[2][i]
      BY <1>5, FirstHalf
    <3>3. ~Bad(n) => \A i \in 1 .. Half : mem'[base + i - 1] = HalfPage(n)[i]
      BY <1>5, FirstHalf
    <3> QED
      BY <2>1, <3>1, <3>2, <3>3
  <2>4. SanePage(page)
    BY <1>2, PageIsSane
  <2>5. SecondCell(mem') = page.data[2][1]
    BY <2>2, <2>3 DEF SecondCell
  <2>6. ~PassesForHeader(FirstBlock(mem'), SecondCell(mem'))
    <3>1. CASE Bad(n)
      <4>1. Marked(page.data[2][1])
        BY <2>4, <3>1 DEF SanePage, Bad
      <4> QED
        BY <2>5, <4>1 DEF PassesForHeader
    <3>2. CASE ~Bad(n)
      <4>1. first = HalfPage(n)
        BY <2>1 DEF HalfPage
      <4>2. first \in [1 .. Half -> Data]
        <5>1. page.data \in HalfPages \X HalfPages /\ page.oob \in Data
          BY <1>2, HalfPageData DEF FlashPages
        <5>2. page.data[1] \in HalfPages
          BY <5>1
        <5>3. first \in HalfPages
          BY <5>1, <5>2, NandAssumption DEF NandAssumption, Corrected
        <5> QED
          BY <5>3 DEF HalfPages
      <4> HIDE DEF first
      <4>3. FirstBlock(mem') = first
        BY <2>2, <2>3, <3>2, <4>1, <4>2 DEF FirstBlock
      <4>4. ~(Correctable(page, 0) /\ IsHeader[first[1]])
        BY <1>5, <2>1, <3>2, <4>1 DEF Intact
      <4>5. ~PassesForHeader(first, page.data[2][1])
        BY <2>4, <3>2, <4>4 DEF SanePage, Bad, first
      <4> QED
        BY <2>5, <4>3, <4>5
    <3> QED
      BY <3>1, <3>2
  <2>7. FirstBlock(mem)' = FirstBlock(mem') /\ SecondCell(mem)' = SecondCell(mem')
    BY DEF FirstBlock, SecondCell
  <2>8. PassesForHeader(FirstBlock(mem), SecondCell(mem))'
          <=> PassesForHeader(FirstBlock(mem'), SecondCell(mem'))
    BY <2>7 DEF PassesForHeader
  <2> QED
    BY <2>6, <2>8 DEF NoFalseHeader
<1>6. pc' # "end"
  BY <1>1
<1>7. halfpage' = 1 => NoFalseHeader'
  BY <1>2, <1>5
<1> QED
  BY <1>1, <1>3, <1>4, <1>6, <1>7 DEF FlashInv

\* A bad page inside an image.
LEMMA RetryMore ==
  ASSUME LoaderInv, SaneHeaders, SaneFlash, NandInv, FlashInv, InLoop, ~xmodem_enabled,
         nand_base < 2 * Pages, ReadHalf, UNCHANGED <<flash, xmodem_enabled>>,
         mem' \in Scribbles, Retry, stream # <<>>, Bad(nand_base)
  PROVE  FlashInv'
<1> DEFINE n == nand_base
<1>1. nand_base' = n + 1 /\ pc' = "loop" /\ stream' = stream
  BY DEF ReadHalf, Retry, Advance
<1>2. /\ n \in 0 .. 2 * Pages - 1 /\ n + 1 \in 0 .. 2 * Pages
      /\ halfpage \in 0 .. 1 /\ (halfpage = 1 => halfpage' = 0)
      /\ halfpage = 0 => Page' = Page /\ (Bad(nand_base)' <=> Bad(n))
  BY <1>1, NextHalf
<1>3. Assembling
  BY DEF FlashInv, InLoop
<1>4. Len(stream) # Half
  BY <1>3 DEF Assembling, HalfHeader
<1>5. Len(stream) >= HeaderSize
  <2>1. Len(stream) \in Nat /\ Len(stream) # 0
    BY LenProperties, EmptySeq DEF LoaderInv, LoaderTypeOK
  <2> QED
    BY <1>4, <2>1, PageLayout DEF NandInv
<1>6. ReadSince(n + 1, stream)
  <2>1. ReadSince(n + 1, IF Bad(n) THEN stream ELSE stream \o HalfPage(n))
    BY <1>2, <1>3, ReadOn DEF Assembling
  <2> QED
    BY <2>1
<1>7. ReadSince(nand_base, stream)'
  BY <1>1, <1>6, FlashUnchanged DEF ReadSince
<1>8. StreamIsFlashed'
  <2>1. \E p \in 1 .. Pages : stream' \in Readings(p)
    BY <1>1, <1>2, <1>6, ReadIsFlashed
  <2> QED
    BY <2>1, FlashUnchanged DEF StreamIsFlashed
<1>9. ASSUME halfpage = 0 PROVE SecondHalfInPlace'
  <2>1. base' = base
    BY RetryInv
  <2>2. \A i \in 1 .. Half : mem'[base + Half + i - 1] = Page.data[2][i]
    BY <1>9, FirstHalf
  <2>3. 1 \in 1 .. Half /\ base + Half + 1 - 1 = base + Half
    BY BaseInDram, PageLayout
  <2>4. mem'[base' + Half] = Page'.data[2][1]
    BY <1>2, <1>9, <2>1, <2>2, <2>3
  <2> QED
    BY <1>2, <1>9, <2>4 DEF SecondHalfInPlace
<1>10. NoFalseHeader'
  BY <1>5, NoFalseHeaderKept
<1>11. (halfpage = 1 => SecondHalfInPlace)'
  BY <1>2, <1>9
<1>12. Assembling'
  BY <1>1, <1>4, <1>7, <1>11 DEF Assembling
<1> QED
  BY <1>1, <1>8, <1>10, <1>12 DEF FlashInv

\* An attempt that ends on a half-page that cannot be corrected.
LEMMA StopMore ==
  ASSUME LoaderInv, SaneHeaders, SaneFlash, NandInv, FlashInv, InLoop, ~xmodem_enabled,
         nand_base < 2 * Pages, ReadHalf, UNCHANGED <<flash, xmodem_enabled>>,
         mem' \in Scribbles, Stop, stream # <<>>
  PROVE  FlashInv'
<1>1. nand_base' = nand_base + 1 /\ pc' = "end" /\ stream' = stream
  BY DEF ReadHalf, Stop
<1>2. halfpage = 1 => halfpage' = 0
  BY <1>1, NextHalf
<1>3. Assembling /\ StreamIsFlashed
  BY DEF FlashInv, InLoop
<1>4. StreamIsFlashed'
  BY <1>1, <1>3, FlashUnchanged DEF StreamIsFlashed
<1>5. Len(stream) = Half => halfpage' = 0
  BY <1>2, <1>3 DEF Assembling, HalfHeader
<1>6. Len(stream') >= HeaderSize => NoFalseHeader'
  BY <1>1, NoFalseHeaderKept
<1> QED
  BY <1>1, <1>4, <1>5, <1>6 DEF FlashInv

\* One call of the reader on a half-page.
LEMMA ReadHalfInv ==
  ASSUME LoaderInv, SaneHeaders, SaneFlash, NandInv, FlashInv, InLoop, ~xmodem_enabled,
         nand_base < 2 * Pages, ReadHalf, UNCHANGED <<flash, xmodem_enabled>>,
         mem' \in Scribbles
  PROVE  FlashInv'
<1> DEFINE n == nand_base
<1>1. CASE stream = <<>>
  <2> DEFINE found == halfpage = 0 /\ ~Bad(n) /\ Intact(n) /\ IsHeader[HalfPage(n)[1]]
  <2>1. IF found
          THEN (\A i \in 1 .. Half : mem'[base + i - 1] = HalfPage(n)[i]) /\ Took(Half)
          ELSE Retry
    BY <1>1, ReadHeader
  <2>2. CASE ~found
    BY <1>1, <2>1, <2>2, RetryFirst
  <2>3. CASE found
    <3>1. mem'[base] = HalfPage(n)[1]
      <4>1. 1 \in 1 .. Half /\ base + 1 - 1 = base
        BY BaseInDram, PageLayout
      <4> QED
        BY <2>1, <2>3, <4>1
    <3>2. Deliverable(Half)
      BY <2>3, <3>1, HalfDeliverable
    <3> QED
      BY <1>1, <2>1, <2>3, <3>2, TookFirst
  <2> QED
    BY <2>2, <2>3
<1>2. CASE stream # <<>>
  <2>1. IF Bad(n) THEN Retry
        ELSE IF Intact(n)
          THEN (\A i \in 1 .. Half : mem'[base + i - 1] = HalfPage(n)[i]) /\ Took(Half)
          ELSE Stop
    BY <1>2, ReadMore
  <2>2. Deliverable(Half)
    BY <1>2, ExpectHeaderEmpty, HalfDeliverable
  <2>3. CASE Bad(n)
    BY <1>2, <2>1, <2>3, RetryMore
  <2>4. CASE ~Bad(n) /\ Intact(n)
    BY <1>2, <2>1, <2>2, <2>4, TookMore
  <2>5. CASE ~Bad(n) /\ ~Intact(n)
    BY <1>2, <2>1, <2>5, StopMore
  <2> QED
    BY <2>3, <2>4, <2>5
<1> QED
  BY <1>1, <1>2

\* Inside a header the image's end is not reached.
LEMMA HalfHeaderIsNoEnd ==
  ASSUME LoaderInv, SaneHeaders, NandInv, Len(stream) < HeaderSize
  PROVE  base < data_end
<1>1. Len(stream) \in Nat
  BY DEF LoaderInv, LoaderTypeOK
<1> QED
  BY <1>1, AddressMap DEF LoaderInv, HeaderInv

\* A call of the reader.
LEMMA FlashGetBlockInv ==
  ASSUME LoaderInv, SaneHeaders, SaneFlash, NandInv, FlashInv, NandGetBlock
  PROVE  FlashInv'
<1>1. InLoop /\ ~xmodem_enabled /\ flash' = flash
  BY DEF NandGetBlock
<1>2. CASE Eof /\ Stop /\ UNCHANGED <<nand_base, mem, xmodem_enabled>>
  <2>1. Len(stream) >= HeaderSize
    <3>1. Len(stream) \in Nat /\ ~(base < data_end)
      BY <1>2, AddressMap DEF LoaderInv, LoaderTypeOK, Eof
    <3> QED
      BY <3>1, HalfHeaderIsNoEnd, PageLayout
  <2>2. stream' = stream /\ pc' = "end"
    BY <1>2 DEF Stop
  <2>3. NoFalseHeader'
    BY <1>1, <1>2, <2>1, NoFalseHeaderKept, NothingScribbled DEF LoaderInv
  <2>4. StreamIsFlashed'
    BY <1>1, <2>2, FlashUnchanged DEF StreamIsFlashed, FlashInv
  <2>5. Len(stream') # Half
    BY <2>1, <2>2, PageLayout
  <2> QED
    BY <2>2, <2>3, <2>4, <2>5 DEF FlashInv
<1>3. CASE xmodem_enabled' = TRUE
  BY <1>3 DEF FlashInv
<1>4. CASE nand_base < 2 * Pages /\ ReadHalf /\ UNCHANGED xmodem_enabled
  <2>1. mem' \in Scribbles
    BY NandKeepsContract DEF GetBlock
  <2> QED
    BY <1>1, <1>4, <2>1, ReadHalfInv
<1> QED
  BY <1>2, <1>3, <1>4 DEF NandGetBlock

\* A new attempt.
LEMMA FlashStartLoadInv ==
  ASSUME LoaderInv, SaneHeaders, SaneFlash, NandInv, FlashInv, StartLoad,
         UNCHANGED <<flash, nand_base, xmodem_enabled>>,
         mem' \in Residues \/ (mem' = mem /\ (pc = "end" \/ base > data_end))
  PROVE  FlashInv'
<1>1. pc' = "loop" /\ stream' = <<>>
  BY DEF StartLoad
<1>2. StreamIsFlashed'
  BY <1>1 DEF StreamIsFlashed
<1>3. Len(stream') = 0 /\ ~(Len(stream') >= HeaderSize)
  BY <1>1, PageLayout
<1>4. FirstBlock(mem)' = FirstBlock(mem') /\ SecondCell(mem)' = SecondCell(mem')
  BY DEF FirstBlock, SecondCell
<1>5. PassesForHeader(FirstBlock(mem), SecondCell(mem))'
        <=> PassesForHeader(FirstBlock(mem'), SecondCell(mem'))
  BY <1>4 DEF PassesForHeader
<1>6. halfpage' = halfpage
  BY DEF halfpage
<1>7. ASSUME halfpage = 1, ~xmodem_enabled PROVE NoFalseHeader'
  <2>1. CASE mem' \in Residues
    BY <1>5, <2>1 DEF SaneFlash, NoFalseHeader
  <2>2. CASE mem' = mem /\ (pc = "end" \/ base > data_end)
    <3>1. Len(stream) >= HeaderSize \/ stream = <<>>
      <4>1. Len(stream) \in Nat /\ base \in Int /\ data_end \in Int
        BY AddressMap DEF LoaderInv, LoaderTypeOK
      <4>2. CASE pc = "end"
        <5>1. Len(stream) # Half
          BY <1>7, <4>2 DEF FlashInv
        <5>2. Len(stream) = 0 => stream = <<>>
          BY EmptySeq DEF LoaderInv, LoaderTypeOK
        <5> QED
          BY <1>7, <4>1, <5>1, <5>2, PageLayout DEF NandInv
      <4>3. CASE base > data_end
        BY <4>1, <4>3, HalfHeaderIsNoEnd, PageLayout
      <4> QED
        BY <2>2, <4>2, <4>3
    <3>2. NoFalseHeader
      BY <1>7, <3>1 DEF FlashInv
    <3>3. mem' = mem
      BY <2>2
    <3> QED
      BY <1>5, <3>2, <3>3 DEF NoFalseHeader
  <2> QED
    BY <2>1, <2>2
<1>8. ~xmodem_enabled' /\ halfpage' = 1 => NoFalseHeader'
  BY <1>6, <1>7
<1> QED
  BY <1>1, <1>2, <1>3, <1>8 DEF FlashInv

\* The call of an image, and steps that concern neither the loader nor the
\* reader.
LEMMA FlashKeptInv ==
  ASSUME LoaderInv, FlashInv, UNCHANGED <<flash, nand_base, xmodem_enabled, mem, stream>>,
         pc' = "image" \/ UNCHANGED loaderVars
  PROVE  FlashInv'
<1>1. StreamIsFlashed' <=> StreamIsFlashed
  BY FlashUnchanged DEF StreamIsFlashed
<1>2. NoFalseHeader' <=> NoFalseHeader
  BY DEF NoFalseHeader, PassesForHeader, FirstBlock, SecondCell
<1>3. CASE pc' = "image"
  BY <1>1, <1>2, <1>3 DEF FlashInv, halfpage
<1>4. CASE UNCHANGED loaderVars
  <2>1. pc' = pc /\ base' = base
    BY <1>4 DEF loaderVars
  <2>2. ReadSince(nand_base, stream)' <=> ReadSince(nand_base, stream)
    BY FlashUnchanged DEF ReadSince
  <2>3. SecondHalfInPlace' <=> SecondHalfInPlace
    BY <2>1 DEF SecondHalfInPlace, Bad, Page, PageAt
  <2>4. HalfHeader' <=> HalfHeader
    BY DEF HalfHeader, Bad, Intact, HalfPage, Correctable, Corrected, PageAt, halfpage
  <2>5. Assembling' <=> Assembling
    BY <2>2, <2>3, <2>4 DEF Assembling, halfpage
  <2> QED
    BY <1>1, <1>2, <2>1, <2>5 DEF FlashInv, halfpage
<1> QED
  BY <1>3, <1>4

\* The end of an attempt, and of an image.
LEMMA FlashRestInv ==
  ASSUME LoaderInv, SaneHeaders, SaneFlash, NandInv, FlashInv,
         EndLoad \/ ImageReturns, UNCHANGED nandVars
  PROVE  FlashInv'
<1>1. UNCHANGED <<flash, nand_base, xmodem_enabled>>
  BY DEF nandVars
<1>2. CASE EndLoad /\ pc' = "image"
  <2>1. UNCHANGED <<mem, stream>>
    BY <1>2 DEF EndLoad, StartLoad
  <2> QED
    BY <1>1, <1>2, <2>1, FlashKeptInv
<1>3. CASE EndLoad /\ pc' # "image"
  <2>1. StartLoad /\ mem' = mem /\ (pc = "end" \/ base > data_end)
    BY <1>3 DEF EndLoad
  <2> QED
    BY <1>1, <2>1, FlashStartLoadInv
<1>4. CASE ImageReturns
  BY <1>1, <1>4, FlashStartLoadInv DEF ImageReturns
<1> QED
  BY <1>2, <1>3, <1>4

-----------------------------------------------------------------------------

LEMMA FlashInitInv ==
  ASSUME SaneFlash, NandInit
  PROVE  FlashInv
<1>1. stream = <<>> /\ pc = "loop" /\ mem \in Residues
  BY DEF NandInit, LoaderInit
<1>2. StreamIsFlashed
  BY <1>1 DEF StreamIsFlashed
<1>3. NoFalseHeader
  BY <1>1 DEF SaneFlash, NoFalseHeader
<1> QED
  BY <1>1, <1>2, <1>3 DEF FlashInv

\* FlashInv holds while flash is read, and what was delivered stays delivered
\* when Xmodem takes over.
LEMMA FlashStep ==
  ASSUME LoaderInv, SaneHeaders, SaneFlash, NandInv, FlashInv, StreamIsFlashed,
         [NandNext]_<<loaderVars, nandVars>>
  PROVE  FlashInv' /\ StreamIsFlashed'
<1>1. ASSUME flash' = flash, stream' = stream \/ stream' = <<>> PROVE StreamIsFlashed'
  BY <1>1, FlashUnchanged DEF StreamIsFlashed
<1>2. CASE NandGetBlock
  <2>1. FlashInv' /\ flash' = flash
    BY <1>2, FlashGetBlockInv DEF NandGetBlock
  <2>2. CASE xmodem_enabled'
    <3>1. stream' = stream
      BY <1>2, <2>2 DEF NandGetBlock, Stop
    <3> QED
      BY <1>1, <2>1, <3>1
  <2>3. CASE ~xmodem_enabled'
    BY <2>1, <2>3 DEF FlashInv
  <2> QED
    BY <2>1, <2>2, <2>3
<1>3. CASE Delegate
  <2>1. stream' = stream /\ flash' = flash
    BY <1>3 DEF Delegate, Retry, nandVars
  <2>2. xmodem_enabled'
    BY <1>3 DEF Delegate, nandVars
  <2> QED
    BY <1>1, <2>1, <2>2 DEF FlashInv
<1>4. CASE NandEndLoad \/ NandImageReturns
  <2>1. (EndLoad \/ ImageReturns) /\ UNCHANGED nandVars
    BY <1>4 DEF NandEndLoad, NandImageReturns
  <2>2. FlashInv'
    BY <2>1, FlashRestInv
  <2>3. flash' = flash /\ (stream' = stream \/ stream' = <<>>)
    BY <2>1 DEF EndLoad, ImageReturns, StartLoad, nandVars
  <2> QED
    BY <1>1, <2>2, <2>3
<1>5. CASE ToggleSwitch \/ UNCHANGED <<loaderVars, nandVars>>
  <2>1. UNCHANGED loaderVars /\ UNCHANGED <<flash, nand_base, xmodem_enabled>>
    BY <1>5 DEF ToggleSwitch, nandVars
  <2>2. mem' = mem /\ stream' = stream
    BY <2>1 DEF loaderVars
  <2> QED
    BY <1>1, <2>1, <2>2, FlashKeptInv
<1> QED
  BY <1>2, <1>3, <1>4, <1>5 DEF NandNext

\* The reader delivers what flash holds and nothing else.
THEOREM FlashInvariant ==
  SaneHeaders /\ SaneFlash => (NandSpec => [](FlashInv /\ StreamIsFlashed))
<1> SUFFICES ASSUME SaneHeaders, SaneFlash
             PROVE  NandSpec => [](FlashInv /\ StreamIsFlashed)
  OBVIOUS
<1>1. NandInit => FlashInv /\ StreamIsFlashed
  <2> SUFFICES ASSUME NandInit PROVE FlashInv /\ StreamIsFlashed
    OBVIOUS
  <2>1. stream = <<>>
    BY DEF NandInit, LoaderInit
  <2> QED
    BY <2>1, FlashInitInv DEF StreamIsFlashed
<1>2. LoaderInv /\ NandInv /\ FlashInv /\ StreamIsFlashed
      /\ [NandNext]_<<loaderVars, nandVars>> => (FlashInv /\ StreamIsFlashed)'
  BY FlashStep
<1>3. NandSpec => [](LoaderInv /\ NandInv)
  BY NandInvariant
<1> QED
  BY <1>1, <1>2, <1>3, PTL DEF NandSpec

\* What has been delivered is what flash holds from some page on, corrected and
\* in order, with the bad pages left out, for every flash that gives a call on
\* the second half of a page no false header to find.
THEOREM FlashStreamIsFlashed ==
  SaneHeaders /\ SaneFlash => (NandSpec => []StreamIsFlashed)
BY FlashInvariant, PTL

\* No call on a bad page delivers anything or ends an attempt.
THEOREM FlashSkipsBadPages ==
  SaneHeaders /\ SaneFlash => (NandSpec => BadPagesSkipped)
<1> DEFINE Skips == nand_base' # nand_base /\ Marked(Page.oob)
                      => pc' = "loop" /\ stream' = stream
<1> SUFFICES ASSUME SaneHeaders, SaneFlash
             PROVE  NandSpec => [][Skips]_<<loaderVars, nandVars>>
  BY DEF BadPagesSkipped
<1>1. ASSUME LoaderInv, NandInv, FlashInv, [NandNext]_<<loaderVars, nandVars>>
      PROVE  [Skips]_<<loaderVars, nandVars>>
  <2> SUFFICES ASSUME nand_base' # nand_base, Marked(Page.oob)
               PROVE  pc' = "loop" /\ stream' = stream
    OBVIOUS
  <2>1. InLoop /\ ~xmodem_enabled /\ nand_base < 2 * Pages /\ ReadHalf
    BY <1>1 DEF NandNext, NandGetBlock, Delegate, NandEndLoad, NandImageReturns,
         ToggleSwitch, nandVars
  <2>2. Bad(nand_base)
    BY DEF Page, Bad, PageAt
  <2>3. Retry
    BY <1>1, <2>1, <2>2, ReadMore, ReadHeader
  <2> QED
    BY <2>3 DEF Retry, Advance
<1>2. LoaderInv /\ NandInv /\ FlashInv /\ [NandNext]_<<loaderVars, nandVars>>
        => [Skips]_<<loaderVars, nandVars>>
  BY <1>1
<1> HIDE DEF Skips
<1>3. NandSpec => [](LoaderInv /\ NandInv)
  BY NandInvariant
<1>4. NandSpec => [](FlashInv /\ StreamIsFlashed)
  BY FlashInvariant
<1> QED
  BY <1>2, <1>3, <1>4, PTL DEF NandSpec

-----------------------------------------------------------------------------
(***************************************************************************)
(* The Xmodem receiver keeps the contract main.c relies on, whatever bytes *)
(* the line delivers and whenever: every call is a GetBlock.  And its ten  *)
(* seconds are noticed before the timer, which has a finite width, makes   *)
(* half a turn.  For every width of bytes and timer, all buffer sizes, any *)
(* number of line faults and restarts, and all files.                      *)
(*                                                                         *)
(* On a line that alters nothing on its way to the receiver, where replies *)
(* get lost and senders start again, what is received is the file, and a   *)
(* block is acknowledged only when it was taken.                           *)
(***************************************************************************)

Reply == {"ACK", "NAK", "CAN"}

\* The parts of the state, and that the byte loop is inside a get_block() call.
ReceiverInv ==
  /\ xmodem_ack \in {"ACK", "NAK"}
  /\ xmodem_block \in Byte
  /\ quiet \in 0 .. HalfTurn
  /\ receiving \in BOOLEAN
  /\ rx \in Seq(Byte) /\ Len(rx) <= 4
  /\ waited \in 0 .. Short + 1
  /\ receiving => InLoop

LineInv ==
  /\ toReceiver \in Seq(Byte) /\ Len(toReceiver) <= LineCap
  /\ toSender \in Seq(Reply) /\ Len(toSender) <= ReplyCap
  /\ faults \in 0 .. MaxFaults

SenderInv ==
  /\ file \in Files
  /\ sender \in {"off", "on", "done"}
  /\ sent \in 0 .. Len(file) + 1
  /\ restarts \in 0 .. MaxRestarts

XmodemInv == ReceiverInv /\ LineInv /\ SenderInv

\* Since the last block of an image, no more time has passed than the long
\* timeout and the one call that may have been waiting when it expired.
QuietInv ==
  InLoop /\ ~ExpectHeader
    => quiet <= Long + (IF receiving THEN waited ELSE Short + 1)

-----------------------------------------------------------------------------
(* The constants *)

LEMMA XmodemSizes ==
  /\ ByteMod \in Nat /\ ByteMod >= 1 /\ Data = Byte
  /\ SOH \in Byte /\ EOT \in Byte
  /\ Short \in Nat /\ Long \in Nat /\ Short <= Long
  /\ TimerMod \in Nat /\ HalfTurn \in Nat /\ TimerMod = 2 * HalfTurn
  /\ Long + Short + 2 <= HalfTurn
  /\ LineCap \in Nat /\ ReplyCap \in Nat /\ MaxFaults \in Nat /\ MaxRestarts \in Nat
  /\ 1 \in BlockSizes /\ Scratch >= 1 /\ Scratch \in Nat
<1>1. TimerMod \in Nat /\ TimerMod % 2 = 0 /\ HalfTurn = TimerMod \div 2
  BY XmodemAssumption DEF XmodemAssumption, HalfTurn
<1>2. HalfTurn \in Nat /\ TimerMod = 2 * HalfTurn
  BY <1>1
<1>3. /\ ByteMod \in Nat \ {0} /\ Data = Byte
      /\ SOH \in Byte /\ EOT \in Byte
      /\ Short \in Nat /\ Long \in Nat /\ Short <= Long
      /\ Long + Short + 2 <= HalfTurn
      /\ LineCap \in Nat /\ ReplyCap \in Nat /\ MaxFaults \in Nat /\ MaxRestarts \in Nat
      /\ 1 \in BlockSizes
  BY <1>1, XmodemAssumption DEF XmodemAssumption
<1>4. Scratch \in Nat /\ Scratch >= 1
  BY <1>3, AddressMap
<1> QED
  BY <1>1, <1>2, <1>3, <1>4

\* Below half a turn of the timer the test is the comparison it looks like.
LEMMA TimedOutIsAfter ==
  ASSUME NEW elapsed \in Nat, elapsed < HalfTurn, NEW timeout \in {Short, Long}
  PROVE  TimedOut(elapsed, timeout) <=> elapsed > timeout
<1>1. \A x \in Nat : 2 * x < TimerMod => (2 * x) % TimerMod = 2 * x
  BY XmodemSizes
<1>2. timeout \in Nat /\ timeout < HalfTurn
  BY XmodemSizes
<1>3. 2 * elapsed < TimerMod /\ 2 * timeout < TimerMod
  BY <1>2, XmodemSizes
<1>4. (2 * elapsed) % TimerMod = 2 * elapsed /\ (2 * timeout) % TimerMod = 2 * timeout
  BY <1>1, <1>2, <1>3
<1> QED
  BY <1>2, <1>4 DEF TimedOut

\* The transmit buffer holds replies, and no more than it has room for.
LEMMA TransmitInv ==
  ASSUME NEW replies \in Seq(Reply), Transmit(replies),
         toSender \in Seq(Reply), Len(toSender) <= ReplyCap
  PROVE  toSender' \in Seq(Reply) /\ Len(toSender') <= ReplyCap
<1> DEFINE room == ReplyCap - Len(toSender)
           count == IF room < Len(replies) THEN room ELSE Len(replies)
           accepted == SubSeq(replies, 1, count)
<1>1. toSender' = toSender \o accepted
  BY DEF Transmit
<1>2. Len(toSender) \in Nat /\ Len(replies) \in Nat /\ ReplyCap \in Nat
  BY LenProperties, XmodemSizes
<1>3. count \in Nat /\ count <= Len(replies) /\ count <= ReplyCap - Len(toSender)
  BY <1>2
<1> HIDE DEF count
<1>4. \A i \in 1 .. count : replies[i] \in Reply
  BY <1>2, <1>3, ElementOfSeq
<1>5. accepted \in Seq(Reply) /\ Len(accepted) = (IF 1 <= count THEN count - 1 + 1 ELSE 0)
  BY <1>3, <1>4, SubSeqProperties
<1>6. Len(accepted) = count
  BY <1>3, <1>5
<1> HIDE DEF accepted
<1>7. /\ toSender \o accepted \in Seq(Reply)
      /\ Len(toSender \o accepted) = Len(toSender) + Len(accepted)
  BY <1>5, ConcatProperties
<1> QED
  BY <1>1, <1>2, <1>3, <1>6, <1>7

-----------------------------------------------------------------------------
(* The contract of get_block() *)

\* The data byte goes to base, where there is room for it.
LEMMA StoreDataFrame ==
  ASSUME LoaderInv, SaneHeaders, InLoop, NEW bytes \in Seq(Byte), StoreData(bytes)
  PROVE  /\ mem' \in Scribbles
         /\ Len(bytes) >= 4 => mem'[base] = bytes[4]
<1>1. base \in Nat /\ base \in Dram /\ mem \in [Dram -> Data]
  BY BaseInDram DEF LoaderInv, LoaderTypeOK
<1>2. Len(bytes) \in Nat
  BY LenProperties
<1>3. CASE Len(bytes) < 4
  <2>1. mem' = mem
    BY <1>3 DEF StoreData
  <2> QED
    BY <1>2, <1>3, <2>1, NothingScribbled DEF LoaderInv
<1>4. CASE Len(bytes) >= 4
  <2>1. mem' = [mem EXCEPT ![base] = bytes[4]]
    BY <1>1, <1>2, <1>4 DEF StoreData
  <2>2. bytes[4] \in Data
    BY <1>2, <1>4, ElementOfSeq, XmodemSizes
  <2>3. base \in base .. base + Scratch - 1
    BY <1>1, XmodemSizes
  <2>4. mem' \in [Dram -> Data] /\ \A a \in Dram : a # base => mem'[a] = mem[a]
    BY <1>1, <2>1, <2>2
  <2>5. mem' \in Scribbles
    BY <2>3, <2>4 DEF Scribbles
  <2> QED
    BY <1>1, <2>1, <2>5
<1> QED
  BY <1>2, <1>3, <1>4

LEMMA BlockDeliverable ==
  ASSUME LoaderInv, SaneHeaders, InLoop, ExpectHeader => IsHeader[mem'[base]]
  PROVE  Deliverable(1)
<1>1. /\ base \in Nat /\ base \in Dram /\ Len(stream) \in Nat
  BY BaseInDram
<1>2. base + 1 - 1 = base
  BY <1>1
<1>3. Len(stream) < HeaderSize => Len(stream) + 1 <= HeaderSize
  BY <1>1, AddressMap
<1> QED
  BY <1>1, <1>2, <1>3 DEF Deliverable

\* How a call comes back: with a block, the clock then being set; with
\* nothing; or with the end of the attempt.
Returns ==
  /\ receiving' = FALSE /\ rx' = <<>>
  /\ mem' \in Scribbles
  /\ \/ quiet' = 0 /\ Took(1) /\ Deliverable(1)
     \/ quiet' = quiet /\ Retry
     \/ quiet' = quiet /\ Stop

LEMMA ReturnsIsGetBlock == ASSUME InLoop, Returns PROVE GetBlock
BY XmodemSizes DEF Returns, GetBlock

\* Only a frame in sequence, with both checks passed, is taken.
LEMMA JudgeFrameReturns ==
  ASSUME LoaderInv, SaneHeaders, InLoop, ReceiverInv, LineInv,
         NEW frame \in Seq(Byte), Len(frame) = 5, JudgeFrame(frame)
  PROVE  /\ Returns
         /\ xmodem_ack' \in {"ACK", "NAK"} /\ xmodem_block' \in Byte
         /\ toSender' \in Seq(Reply) /\ Len(toSender') <= ReplyCap
<1>1. /\ mem' \in Scribbles
      /\ mem'[base] = frame[4]
      /\ frame[2] \in Byte
  BY StoreDataFrame, ElementOfSeq DEF JudgeFrame
<1>2. /\ xmodem_ack \in {"ACK", "NAK"} /\ xmodem_block \in Byte
      /\ toSender \in Seq(Reply) /\ Len(toSender) <= ReplyCap
  BY DEF ReceiverInv, LineInv
<1>3. \/ RefuseFrame
      \/ /\ xmodem_ack' = "ACK" /\ ReturnZero
         /\ UNCHANGED <<xmodem_block, quiet, toSender>>
      \/ /\ Transmit(<<"CAN", "CAN", "CAN">>)
         /\ Stop /\ receiving' = FALSE /\ rx' = <<>>
         /\ UNCHANGED <<xmodem_ack, xmodem_block, quiet>>
      \/ TakeFrame(frame) /\ (ExpectHeader => IsHeader[frame[4]])
  BY DEF JudgeFrame
<1>4. CASE RefuseFrame
  BY <1>1, <1>2, <1>4 DEF RefuseFrame, ReturnZero, Returns
<1>5. CASE /\ xmodem_ack' = "ACK" /\ ReturnZero
           /\ UNCHANGED <<xmodem_block, quiet, toSender>>
  BY <1>1, <1>2, <1>5 DEF ReturnZero, Returns
<1>6. CASE /\ Transmit(<<"CAN", "CAN", "CAN">>)
           /\ Stop /\ receiving' = FALSE /\ rx' = <<>>
           /\ UNCHANGED <<xmodem_ack, xmodem_block, quiet>>
  <2>1. <<"CAN", "CAN", "CAN">> \in Seq(Reply)
    BY DEF Reply
  <2>2. toSender' \in Seq(Reply) /\ Len(toSender') <= ReplyCap
    BY <1>2, <1>6, <2>1, TransmitInv
  <2> QED
    BY <1>1, <1>2, <1>6, <2>2 DEF Returns
<1>7. CASE TakeFrame(frame) /\ (ExpectHeader => IsHeader[frame[4]])
  <2>1. Deliverable(1)
    BY <1>1, <1>7, BlockDeliverable
  <2>2. Returns
    BY <1>1, <1>7, <2>1 DEF TakeFrame, Returns
  <2> QED
    BY <1>1, <1>2, <1>7, <2>2 DEF TakeFrame, NumberOf
<1> QED
  BY <1>3, <1>4, <1>5, <1>6, <1>7

\* A byte ends the call, or is kept until the frame is complete.
LEMMA ReceiveByteReturns ==
  ASSUME LoaderInv, SaneHeaders, ReceiverInv, LineInv, ReceiveByte
  PROVE  /\ \/ Returns
            \/ /\ UNCHANGED <<loaderVars, receiving, quiet>>
               /\ rx' \in Seq(Byte) /\ Len(rx') <= 4
         /\ xmodem_ack' \in {"ACK", "NAK"} /\ xmodem_block' \in Byte
         /\ toSender' \in Seq(Reply) /\ Len(toSender') <= ReplyCap
<1> DEFINE bytes == Append(rx, Head(toReceiver))
<1>1. InLoop /\ mem \in [Dram -> Data] /\ LoaderTypeOK
  BY DEF ReceiveByte, ReceiverInv, LoaderInv, LoaderTypeOK
<1>2. /\ xmodem_ack \in {"ACK", "NAK"} /\ xmodem_block \in Byte
      /\ toSender \in Seq(Reply) /\ Len(toSender) <= ReplyCap
  BY DEF ReceiverInv, LineInv
<1>3. Head(toReceiver) \in Byte
  BY HeadTailProperties DEF LineInv, ReceiveByte
<1>4. bytes \in Seq(Byte) /\ Len(bytes) = Len(rx) + 1 /\ Len(rx) \in Nat /\ Len(rx) <= 4
  BY <1>3, AppendProperties, LenProperties DEF ReceiverInv
<1>5. \/ /\ Transmit(<<"ACK", "ACK">>)
         /\ Stop /\ receiving' = FALSE /\ rx' = <<>>
         /\ UNCHANGED <<mem, xmodem_ack, xmodem_block, quiet>>
      \/ /\ mem' = mem
         /\ ReturnZero
         /\ UNCHANGED <<xmodem_ack, xmodem_block, quiet, toSender>>
      \/ Len(bytes) = 5 /\ JudgeFrame(bytes)
      \/ /\ Len(bytes) # 5 /\ rx' = bytes
         /\ UNCHANGED <<loaderVars, xmodem_ack, xmodem_block, quiet, receiving, toSender>>
  BY DEF ReceiveByte
<1> HIDE DEF bytes
<1>6. CASE /\ Transmit(<<"ACK", "ACK">>)
           /\ Stop /\ receiving' = FALSE /\ rx' = <<>>
           /\ UNCHANGED <<mem, xmodem_ack, xmodem_block, quiet>>
  <2>1. <<"ACK", "ACK">> \in Seq(Reply)
    BY DEF Reply
  <2>2. toSender' \in Seq(Reply) /\ Len(toSender') <= ReplyCap
    BY <1>2, <1>6, <2>1, TransmitInv
  <2> QED
    BY <1>1, <1>2, <1>6, <2>2, NothingScribbled DEF Returns
<1>7. CASE /\ mem' = mem
           /\ ReturnZero
           /\ UNCHANGED <<xmodem_ack, xmodem_block, quiet, toSender>>
  BY <1>1, <1>2, <1>7, NothingScribbled DEF ReturnZero, Returns
<1>8. CASE Len(bytes) = 5 /\ JudgeFrame(bytes)
  BY <1>1, <1>4, <1>8, JudgeFrameReturns
<1>9. CASE /\ Len(bytes) # 5 /\ rx' = bytes
           /\ UNCHANGED <<loaderVars, xmodem_ack, xmodem_block, quiet, receiving, toSender>>
  BY <1>2, <1>4, <1>9
<1> QED
  BY <1>5, <1>6, <1>7, <1>8, <1>9

LEMMA ReceiveTimeoutReturns ==
  ASSUME LoaderInv, SaneHeaders, ReceiverInv, ReceiveTimeout
  PROVE  Returns /\ UNCHANGED <<xmodem_ack, xmodem_block, waited, lineVars, senderVars>>
<1>1. InLoop /\ rx \in Seq(Byte) /\ StoreData(rx)
  BY DEF ReceiverInv, ReceiveTimeout
<1>2. mem' \in Scribbles
  BY <1>1, StoreDataFrame
<1> QED
  BY <1>2 DEF ReceiveTimeout, ReturnZero, Returns

-----------------------------------------------------------------------------
(* Steps of the receiver and of the rest of main.c *)

\* A call that comes back leaves the loop's variables to the next call.
LEMMA ReturnedInv ==
  ASSUME Returns, xmodem_ack' \in {"ACK", "NAK"}, xmodem_block' \in Byte,
         quiet \in 0 .. HalfTurn, waited' \in 0 .. Short + 1
  PROVE  ReceiverInv'
<1>1. quiet' \in 0 .. HalfTurn
  BY XmodemSizes DEF Returns
<1>2. rx' \in Seq(Byte) /\ Len(rx') <= 4
  BY DEF Returns
<1>3. receiving' = FALSE /\ receiving' \in BOOLEAN
  BY Zenon DEF Returns
<1> QED
  BY Zenon, <1>1, <1>2, <1>3 DEF ReceiverInv

LEMMA CallStep ==
  ASSUME LoaderInv, SaneHeaders, XmodemInv, Call
  PROVE  [LoaderNext]_loaderVars /\ XmodemInv'
<1>1. InLoop /\ LoaderTypeOK
  BY DEF Call, LoaderInv
<1>2. CASE Stop /\ UNCHANGED <<mem, xmodemVars>>
  <2>1. GetBlock
    BY <1>1, <1>2, NothingScribbled DEF GetBlock
  <2>2. ~receiving /\ UNCHANGED xmodemVars
    BY <1>2 DEF Call
  <2>3. ReceiverInv' /\ LineInv' /\ SenderInv'
    BY <2>2 DEF XmodemInv, ReceiverInv, LineInv, SenderInv,
                xmodemVars, receiverVars, lineVars, senderVars
  <2> QED
    BY <2>1, <2>3 DEF LoaderNext, XmodemInv
<1>3. CASE /\ Transmit(<<xmodem_ack>>)
           /\ xmodem_ack' = "NAK"
           /\ receiving' = TRUE /\ rx' = <<>> /\ waited' = 0
           /\ UNCHANGED <<xmodem_block, quiet, toReceiver, faults, senderVars, loaderVars>>
  <2>1. <<xmodem_ack>> \in Seq(Reply)
    BY DEF XmodemInv, ReceiverInv, Reply
  <2>2. toSender' \in Seq(Reply) /\ Len(toSender') <= ReplyCap
    BY <1>3, <2>1, TransmitInv DEF XmodemInv, LineInv
  <2>3. LineInv' /\ SenderInv'
    BY <1>3, <2>2 DEF XmodemInv, LineInv, SenderInv, senderVars
  <2>4. InLoop'
    BY <1>1, <1>3 DEF InLoop, loaderVars
  <2>5. waited' \in 0 .. Short + 1 /\ rx' \in Seq(Byte) /\ Len(rx') <= 4
    BY <1>3, XmodemSizes
  <2>6. receiving' \in BOOLEAN /\ xmodem_ack' \in {"ACK", "NAK"}
    BY Zenon, <1>3
  <2>7. xmodem_block' \in Byte /\ quiet' \in 0 .. HalfTurn
    BY Zenon, <1>3 DEF XmodemInv, ReceiverInv
  <2>8. ReceiverInv'
    BY Zenon, <2>4, <2>5, <2>6, <2>7 DEF ReceiverInv
  <2> QED
    BY <1>3, <2>3, <2>8 DEF XmodemInv
<1> QED
  BY <1>2, <1>3 DEF Call

LEMMA ReceiveByteStep ==
  ASSUME LoaderInv, SaneHeaders, XmodemInv, ReceiveByte
  PROVE  [LoaderNext]_loaderVars /\ XmodemInv'
<1>1. /\ \/ Returns
         \/ /\ UNCHANGED <<loaderVars, receiving, quiet>>
            /\ rx' \in Seq(Byte) /\ Len(rx') <= 4
      /\ xmodem_ack' \in {"ACK", "NAK"} /\ xmodem_block' \in Byte
      /\ toSender' \in Seq(Reply) /\ Len(toSender') <= ReplyCap
  BY ReceiveByteReturns DEF XmodemInv
<1>2. InLoop /\ quiet \in 0 .. HalfTurn /\ waited' \in 0 .. Short + 1
  BY Zenon DEF XmodemInv, ReceiverInv, ReceiveByte
<1>3. toReceiver' \in Seq(Byte) /\ Len(toReceiver') <= LineCap
  <2>1. toReceiver \in Seq(Byte) /\ Len(toReceiver) <= LineCap /\ Len(toReceiver) \in Nat
    BY LenProperties DEF XmodemInv, LineInv
  <2>2. Tail(toReceiver) \in Seq(Byte) /\ Len(Tail(toReceiver)) = Len(toReceiver) - 1
    BY <2>1, HeadTailProperties DEF ReceiveByte
  <2> QED
    BY <2>1, <2>2, XmodemSizes DEF ReceiveByte
<1>4. LineInv' /\ SenderInv'
  BY <1>1, <1>3 DEF XmodemInv, LineInv, SenderInv, ReceiveByte, senderVars
<1>5. CASE Returns
  BY <1>1, <1>2, <1>4, <1>5, ReturnedInv, ReturnsIsGetBlock DEF LoaderNext, XmodemInv
<1>6. CASE /\ UNCHANGED <<loaderVars, receiving, quiet>>
           /\ rx' \in Seq(Byte) /\ Len(rx') <= 4
  <2>1. InLoop'
    BY <1>2, <1>6 DEF InLoop, loaderVars
  <2>2. receiving' \in BOOLEAN /\ quiet' \in 0 .. HalfTurn
    BY Zenon, <1>2, <1>6 DEF XmodemInv, ReceiverInv
  <2>3. ReceiverInv'
    BY Zenon, <1>1, <1>2, <1>6, <2>1, <2>2 DEF ReceiverInv
  <2> QED
    BY <1>4, <1>6, <2>3 DEF XmodemInv
<1> QED
  BY <1>1, <1>5, <1>6

LEMMA ReceiveTimeoutStep ==
  ASSUME LoaderInv, SaneHeaders, XmodemInv, ReceiveTimeout
  PROVE  [LoaderNext]_loaderVars /\ XmodemInv'
<1>1. Returns /\ UNCHANGED <<xmodem_ack, xmodem_block, waited, lineVars, senderVars>>
  BY ReceiveTimeoutReturns DEF XmodemInv
<1>2. /\ InLoop /\ quiet \in 0 .. HalfTurn /\ waited' \in 0 .. Short + 1
      /\ xmodem_ack' \in {"ACK", "NAK"} /\ xmodem_block' \in Byte
  BY Zenon, <1>1 DEF XmodemInv, ReceiverInv, ReceiveTimeout
<1>3. LineInv' /\ SenderInv'
  BY <1>1 DEF XmodemInv, LineInv, SenderInv, lineVars, senderVars
<1> QED
  BY <1>1, <1>2, <1>3, ReturnedInv, ReturnsIsGetBlock DEF LoaderNext, XmodemInv

\* After the loop, or the image, the receiver is not inside a call.
LEMMA AfterLoopStep ==
  ASSUME LoaderInv, XmodemInv, EndAttempt \/ XmodemImageReturns
  PROVE  LoaderNext /\ XmodemInv'
<1>1. LoaderNext
  BY DEF EndAttempt, XmodemImageReturns, LoaderNext
<1>2. ~InLoop
  <2>1. base \in Int /\ data_end \in Int
    BY AddressMap DEF LoaderInv, LoaderTypeOK
  <2> QED
    BY <2>1 DEF EndAttempt, XmodemImageReturns, EndLoad, ImageReturns, InLoop
<1>3. UNCHANGED <<quiet, receiving, rx, waited, lineVars, senderVars>>
  BY DEF EndAttempt, XmodemImageReturns
<1>4. xmodem_ack' \in {"ACK", "NAK"} /\ xmodem_block' \in Byte
  <2>1. 0 \in Byte
    BY XmodemSizes DEF Byte
  <2> QED
    BY <2>1 DEF EndAttempt, XmodemImageReturns, ResetReceiver, XmodemInv, ReceiverInv
<1>5. ReceiverInv'
  <2>1. ~receiving' /\ receiving' \in BOOLEAN
    BY Zenon, <1>2, <1>3 DEF XmodemInv, ReceiverInv
  <2> QED
    BY Zenon, <1>3, <1>4, <2>1 DEF XmodemInv, ReceiverInv
<1>6. LineInv' /\ SenderInv'
  BY <1>3 DEF XmodemInv, LineInv, SenderInv, lineVars, senderVars
<1> QED
  BY <1>1, <1>5, <1>6 DEF XmodemInv

-----------------------------------------------------------------------------
(* Steps of the line, the sender and the clock *)

LEMMA PacketBytes ==
  ASSUME file \in Files, NEW k \in 1 .. Len(file) + 1
  PROVE  Packet(k) \in Seq(Byte)
<1>1. file \in Seq(Byte) /\ Len(file) \in Nat
  BY XmodemAssumption, LenProperties DEF XmodemAssumption
<1>2. CASE k > Len(file)
  BY <1>2, XmodemSizes DEF Packet
<1>3. CASE k <= Len(file)
  <2> DEFINE n == k % ByteMod
  <2>1. n \in 0 .. ByteMod - 1
    <3>1. \A x \in Nat : x % ByteMod \in 0 .. ByteMod - 1
      BY XmodemSizes
    <3> QED
      BY <1>1, <3>1
  <2> HIDE DEF n
  <2>2. n \in Byte /\ ByteMod - 1 - n \in Byte
    BY <2>1, XmodemSizes DEF Byte
  <2>3. file[k] \in Byte
    BY <1>1, <1>3, ElementOfSeq
  <2>4. Frame(k) = <<SOH, n, ByteMod - 1 - n, file[k], file[k]>>
    BY DEF Frame, n
  <2>5. <<SOH, n, ByteMod - 1 - n, file[k], file[k]>> \in Seq(Byte)
    BY <2>2, <2>3, XmodemSizes
  <2> QED
    BY <1>1, <1>3, <2>4, <2>5 DEF Packet
<1> QED
  BY <1>1, <1>2, <1>3

LEMMA SendInv ==
  ASSUME XmodemInv, NEW k \in 1 .. Len(file) + 1, Send(k)
  PROVE  toReceiver' \in Seq(Byte) /\ Len(toReceiver') <= LineCap
<1>1. toReceiver \in Seq(Byte) /\ Packet(k) \in Seq(Byte)
  BY PacketBytes DEF XmodemInv, LineInv, SenderInv
<1>2. /\ toReceiver \o Packet(k) \in Seq(Byte)
      /\ Len(toReceiver \o Packet(k)) = Len(toReceiver) + Len(Packet(k))
  BY <1>1, ConcatProperties
<1> QED
  BY <1>2 DEF Send

\* Nothing but its own variables tells the receiver that something happened.
LEMMA ReceiverUndisturbed ==
  ASSUME XmodemInv, UNCHANGED <<loaderVars, receiverVars>>
  PROVE  ReceiverInv'
BY DEF XmodemInv, ReceiverInv, receiverVars, loaderVars, InLoop

LEMMA SenderRepliesStep ==
  ASSUME XmodemInv, SenderReplies
  PROVE  UNCHANGED loaderVars /\ XmodemInv'
<1>1. UNCHANGED <<file, restarts, faults, receiverVars, loaderVars>>
  BY DEF SenderReplies
<1>2. /\ file \in Seq(Byte) /\ Len(file) \in Nat
      /\ toReceiver \in Seq(Byte) /\ Len(toReceiver) <= LineCap
      /\ toSender \in Seq(Reply) /\ Len(toSender) <= ReplyCap
      /\ sender \in {"off", "on", "done"} /\ sent \in 0 .. Len(file) + 1
  BY XmodemAssumption, LenProperties DEF XmodemInv, LineInv, SenderInv, XmodemAssumption
<1>3. toSender' \in Seq(Reply) /\ Len(toSender') <= ReplyCap
  <2>1. Tail(toSender) \in Seq(Reply) /\ Len(Tail(toSender)) = Len(toSender) - 1
    BY <1>2, HeadTailProperties DEF SenderReplies
  <2> QED
    BY <1>2, <2>1, LenProperties, XmodemSizes, SMTT(30) DEF SenderReplies
<1>4. /\ toReceiver' \in Seq(Byte) /\ Len(toReceiver') <= LineCap
      /\ sender' \in {"off", "on", "done"} /\ sent' \in 0 .. Len(file) + 1
  <2>1. \/ \E k \in 1 .. Len(file) + 1 : Send(k) /\ sent' = k /\ sender' = sender
        \/ sender' \in {"off", "done"} /\ UNCHANGED <<sent, toReceiver>>
        \/ UNCHANGED <<sender, sent, toReceiver>>
    <3>1. \/ LET k == IF sent = 0 THEN 1 ELSE sent
             IN  Send(k) /\ sent' = k /\ sender' = sender
          \/ /\ sent \in 1 .. Len(file)
             /\ Send(sent + 1) /\ sent' = sent + 1 /\ sender' = sender
          \/ sender' \in {"off", "done"} /\ UNCHANGED <<sent, toReceiver>>
          \/ UNCHANGED <<sender, sent, toReceiver>>
      BY DEF SenderReplies
    <3>2. sent \in 1 .. Len(file) => sent + 1 \in 1 .. Len(file) + 1
      BY <1>2
    <3>3. (IF sent = 0 THEN 1 ELSE sent) \in 1 .. Len(file) + 1
      BY <1>2
    <3> QED
      BY <3>1, <3>2, <3>3
  <2>2. CASE \E k \in 1 .. Len(file) + 1 : Send(k) /\ sent' = k /\ sender' = sender
    BY <1>2, <2>2, SendInv
  <2> QED
    BY <1>2, <2>1, <2>2
<1>5. ReceiverInv'
  BY <1>1, ReceiverUndisturbed
<1>6. LineInv' /\ SenderInv'
  BY <1>1, <1>3, <1>4 DEF XmodemInv, LineInv, SenderInv
<1> QED
  BY <1>1, <1>5, <1>6 DEF XmodemInv

LEMMA StartSenderStep ==
  ASSUME XmodemInv, StartSender
  PROVE  UNCHANGED loaderVars /\ XmodemInv'
<1>1. ReceiverInv' /\ LineInv'
  BY ReceiverUndisturbed DEF StartSender, XmodemInv, LineInv, lineVars
<1>2. Len(file) \in Nat
  BY XmodemAssumption, LenProperties DEF XmodemInv, SenderInv, XmodemAssumption
<1>3. SenderInv'
  BY <1>2, XmodemSizes DEF StartSender, XmodemInv, SenderInv
<1> QED
  BY <1>1, <1>3 DEF StartSender, XmodemInv

\* A byte or a reply lost leaves a shorter line.
LEMMA RemoveAtInv ==
  ASSUME NEW S, NEW s \in Seq(S), NEW i \in 1 .. Len(s)
  PROVE  RemoveAt(s, i) \in Seq(S) /\ Len(RemoveAt(s, i)) = Len(s) - 1
<1> DEFINE before == SubSeq(s, 1, i - 1)
           after == SubSeq(s, i + 1, Len(s))
<1>1. Len(s) \in Nat /\ i \in Int /\ 1 <= i /\ i <= Len(s)
  BY LenProperties
<1>2. before \in Seq(S) /\ Len(before) = i - 1
  <2>1. \A j \in 1 .. i - 1 : s[j] \in S
    BY <1>1, ElementOfSeq
  <2>2. 1 \in Int /\ i - 1 \in Int
    BY <1>1
  <2>3. before \in Seq(S) /\ Len(before) = (IF 1 <= i - 1 THEN i - 1 - 1 + 1 ELSE 0)
    BY <2>1, <2>2, SubSeqProperties
  <2> QED
    BY <1>1, <2>3
<1>3. after \in Seq(S) /\ Len(after) = Len(s) - i
  <2>1. \A j \in i + 1 .. Len(s) : s[j] \in S
    BY <1>1, ElementOfSeq
  <2>2. i + 1 \in Int /\ Len(s) \in Int
    BY <1>1
  <2>3. /\ after \in Seq(S)
        /\ Len(after) = (IF i + 1 <= Len(s) THEN Len(s) - (i + 1) + 1 ELSE 0)
    BY <2>1, <2>2, SubSeqProperties
  <2> QED
    BY <1>1, <2>3
<1>4. RemoveAt(s, i) = before \o after
  BY DEF RemoveAt
<1> HIDE DEF before, after
<1>5. before \o after \in Seq(S) /\ Len(before \o after) = Len(before) + Len(after)
  BY <1>2, <1>3, ConcatProperties
<1> QED
  BY <1>1, <1>2, <1>3, <1>4, <1>5

LEMMA LineFaultStep ==
  ASSUME XmodemInv, LineFault
  PROVE  UNCHANGED loaderVars /\ XmodemInv'
<1>1. UNCHANGED <<receiverVars, senderVars, loaderVars>> /\ faults' \in 0 .. MaxFaults
  <2>1. faults \in 0 .. MaxFaults /\ faults < MaxFaults /\ faults' = faults + 1
    BY DEF LineFault, XmodemInv, LineInv
  <2>2. faults' \in 0 .. MaxFaults
    BY <2>1, XmodemSizes
  <2> QED
    BY <2>2 DEF LineFault
<1>2. /\ toReceiver \in Seq(Byte) /\ Len(toReceiver) <= LineCap /\ Len(toReceiver) \in Nat
      /\ toSender \in Seq(Reply) /\ Len(toSender) <= ReplyCap /\ Len(toSender) \in Nat
  BY LenProperties DEF XmodemInv, LineInv
<1>3. /\ toReceiver' \in Seq(Byte) /\ Len(toReceiver') <= LineCap
      /\ toSender' \in Seq(Reply) /\ Len(toSender') <= ReplyCap
  <2>1. CASE /\ \E i \in 1 .. Len(toReceiver) : toReceiver' = RemoveAt(toReceiver, i)
             /\ UNCHANGED toSender
    BY <1>2, <2>1, RemoveAtInv, XmodemSizes
  <2>2. CASE toReceiver' = <<>> /\ UNCHANGED toSender
    BY <1>2, <2>2, XmodemSizes
  <2>3. CASE /\ \E i \in 1 .. Len(toReceiver), b \in Byte :
                  toReceiver' = [toReceiver EXCEPT ![i] = b]
             /\ UNCHANGED toSender
    BY <1>2, <2>3, ExceptSeq
  <2>4. CASE /\ Len(toReceiver) < LineCap
             /\ \E b \in Byte : toReceiver' = Append(toReceiver, b)
             /\ UNCHANGED toSender
    BY <1>2, <2>4, AppendProperties, XmodemSizes
  <2>5. CASE /\ \E i \in 1 .. Len(toSender) : toSender' = RemoveAt(toSender, i)
             /\ UNCHANGED toReceiver
    BY <1>2, <2>5, RemoveAtInv, XmodemSizes
  <2> QED
    BY <2>1, <2>2, <2>3, <2>4, <2>5 DEF LineFault
<1>4. ReceiverInv'
  BY <1>1, ReceiverUndisturbed
<1>5. LineInv' /\ SenderInv'
  BY <1>1, <1>3 DEF XmodemInv, LineInv, SenderInv, senderVars
<1> QED
  BY <1>1, <1>4, <1>5 DEF XmodemInv

\* The clock only moves while a call waits, so no call outlasts its timeout.
LEMMA TickStep ==
  ASSUME XmodemInv, Tick
  PROVE  /\ UNCHANGED loaderVars /\ XmodemInv'
         /\ waited' = waited + 1 /\ waited <= Short
<1>1. /\ waited \in 0 .. Short + 1 /\ quiet \in 0 .. HalfTurn
      /\ waited \in Nat /\ waited < HalfTurn
  BY XmodemSizes DEF XmodemInv, ReceiverInv
<1>2. waited <= Short
  BY <1>1, TimedOutIsAfter, XmodemSizes DEF Tick
<1>3. waited' \in 0 .. Short + 1 /\ quiet' \in 0 .. HalfTurn
  BY <1>1, <1>2, XmodemSizes DEF Tick
<1>4. UNCHANGED <<xmodem_ack, xmodem_block, receiving, rx, lineVars, senderVars, loaderVars>>
  BY DEF Tick
<1>5. InLoop' = InLoop
  BY <1>4 DEF loaderVars, InLoop
<1>6. ReceiverInv'
  BY Zenon, <1>3, <1>4, <1>5 DEF XmodemInv, ReceiverInv
<1>7. LineInv' /\ SenderInv'
  BY <1>4 DEF XmodemInv, LineInv, SenderInv, lineVars, senderVars
<1> QED
  BY <1>2, <1>4, <1>6, <1>7 DEF XmodemInv, Tick

-----------------------------------------------------------------------------
(* The specification *)

LEMMA XmodemPartsInit ==
  ASSUME LoaderInv, XmodemInit
  PROVE  XmodemInv
<1>1. /\ xmodem_ack \in {"ACK", "NAK"} /\ 0 \in Byte /\ xmodem_block = 0
      /\ quiet \in 0 .. HalfTurn /\ waited \in 0 .. Short + 1
  BY XmodemSizes DEF XmodemInit, Byte
<1>2. receiving \in BOOLEAN /\ ~receiving
  BY Zenon DEF XmodemInit
<1>3. rx \in Seq(Byte) /\ Len(rx) <= 4
  BY DEF XmodemInit
<1>4. ReceiverInv
  BY Zenon, <1>1, <1>2, <1>3 DEF ReceiverInv
<1>5. LineInv
  BY XmodemSizes DEF XmodemInit, LineInv
<1>6. file \in Files /\ Len(file) \in Nat
  BY XmodemAssumption, LenProperties DEF XmodemInit, XmodemAssumption
<1>7. SenderInv
  BY <1>6, XmodemSizes DEF XmodemInit, SenderInv
<1> QED
  BY <1>4, <1>5, <1>7 DEF XmodemInv

LEMMA XmodemInitInv == XmodemInit => LoaderInv /\ XmodemInv
BY LoaderInitInv, XmodemPartsInit DEF XmodemInit

LEMMA XmodemStutter ==
  ASSUME XmodemInv, UNCHANGED <<loaderVars, xmodemVars>>
  PROVE  XmodemInv'
BY ReceiverUndisturbed
   DEF XmodemInv, LineInv, SenderInv, xmodemVars, receiverVars, lineVars, senderVars

LEMMA XmodemStep ==
  ASSUME LoaderInv, SaneHeaders, XmodemInv, [XmodemNext]_vars
  PROVE  [LoaderNext]_loaderVars /\ XmodemInv'
<1>1. CASE Call
  BY <1>1, CallStep
<1>2. CASE ReceiveByte
  BY <1>2, ReceiveByteStep
<1>3. CASE ReceiveTimeout
  BY <1>3, ReceiveTimeoutStep
<1>4. CASE EndAttempt \/ XmodemImageReturns
  BY <1>4, AfterLoopStep
<1>5. CASE SenderReplies
  BY <1>5, SenderRepliesStep
<1>6. CASE StartSender
  BY <1>6, StartSenderStep
<1>7. CASE LineFault
  BY <1>7, LineFaultStep
<1>8. CASE Tick
  BY <1>8, TickStep
<1>9. CASE UNCHANGED vars
  BY <1>9, XmodemStutter DEF vars
<1> QED
  BY <1>1, <1>2, <1>3, <1>4, <1>5, <1>6, <1>7, <1>8, <1>9 DEF XmodemNext, Receiver

\* The invariant of the core loop, and of the receiver, the line and the
\* sender, with Xmodem as the source.
THEOREM XmodemInvariant == SaneHeaders => (XmodemSpec => [](LoaderInv /\ XmodemInv))
<1> SUFFICES ASSUME SaneHeaders PROVE XmodemSpec => [](LoaderInv /\ XmodemInv)
  OBVIOUS
<1>1. XmodemInit => LoaderInv /\ XmodemInv
  BY XmodemInitInv
<1>2. LoaderInv /\ XmodemInv /\ [XmodemNext]_vars => (LoaderInv /\ XmodemInv)'
  BY XmodemStep, LoaderNextInv
<1> QED
  BY <1>1, <1>2, PTL DEF XmodemSpec

\* main.c with the Xmodem receiver is main.c with a source that keeps the
\* contract of get_block(), whatever arrives on the line.
THEOREM XmodemIsLoader == SaneHeaders => (XmodemSpec => LoaderSpec)
<1> SUFFICES ASSUME SaneHeaders PROVE XmodemSpec => LoaderSpec
  OBVIOUS
<1>1. XmodemInit => LoaderInit
  BY DEF XmodemInit
<1>2. LoaderInv /\ XmodemInv /\ [XmodemNext]_vars => [LoaderNext]_loaderVars
  BY XmodemStep
<1>3. XmodemSpec => [](LoaderInv /\ XmodemInv)
  BY XmodemInvariant
<1> QED
  BY <1>1, <1>2, <1>3, PTL DEF XmodemSpec, LoaderSpec

\* An image called from the line was received completely, whatever bytes
\* arrive, whenever, and on whichever of them the transfer ends.
THEOREM ReceivesCompleteImages == SaneHeaders => (XmodemSpec => []ImageComplete)
BY XmodemIsLoader, OnlyCompleteImagesRun, PTL

\* Bytes stay bytes and buffers within their sizes; no call waits longer than
\* its timeout; the sender stays within its file.
THEOREM XmodemTypeCorrect == SaneHeaders => (XmodemSpec => []XmodemTypeOK)
<1>1. LoaderInv /\ XmodemInv => XmodemTypeOK
  BY DEF LoaderInv, XmodemInv, ReceiverInv, LineInv, SenderInv, XmodemTypeOK, Reply
<1> QED
  BY <1>1, XmodemInvariant, PTL

-----------------------------------------------------------------------------
(* The long timeout *)

LEMMA QuietInit == XmodemInit => QuietInv
BY DEF XmodemInit, LoaderInit, ExpectHeader, QuietInv

\* A refusal leaves the load address where it is, an end leaves the loop, and
\* a block sets the clock.
LEMMA QuietReturns ==
  ASSUME LoaderInv, SaneHeaders, ReceiverInv, InLoop, QuietInv, receiving,
         Returns, waited' = waited
  PROVE  QuietInv'
<1>1. quiet \in Nat /\ waited \in Nat /\ waited <= Short + 1 /\ receiving' = FALSE
  BY XmodemSizes DEF ReceiverInv, Returns
<1>2. CASE quiet' = 0
  BY <1>1, <1>2, XmodemSizes DEF QuietInv
<1>3. CASE quiet' = quiet /\ Retry
  <2>1. base' = base
    BY <1>3, RetryInv DEF Returns
  <2>2. ~ExpectHeader' => ~ExpectHeader
    BY <2>1 DEF ExpectHeader
  <2>3. ~ExpectHeader => quiet <= Long + waited
    BY DEF QuietInv
  <2> QED
    BY <1>1, <1>3, <2>2, <2>3, XmodemSizes DEF QuietInv
<1>4. CASE Stop
  BY <1>4 DEF Stop, QuietInv, InLoop
<1> QED
  BY <1>2, <1>3, <1>4 DEF Returns

LEMMA QuietStep ==
  ASSUME LoaderInv, SaneHeaders, XmodemInv, QuietInv, [XmodemNext]_vars
  PROVE  QuietInv'
<1>1. /\ ReceiverInv
      /\ quiet \in Nat /\ waited \in Nat /\ waited <= Short + 1
      /\ Short \in Nat /\ Long \in Nat /\ Long + Short + 2 <= HalfTurn /\ HalfTurn \in Nat
  BY XmodemSizes DEF XmodemInv, ReceiverInv
<1>2. CASE Call
  <2>1. InLoop /\ ~receiving
    BY <1>2 DEF Call
  <2>2. CASE Stop
    BY <2>2 DEF Stop, QuietInv, InLoop
  <2>3. CASE /\ ExpectHeader \/ ~TimedOut(quiet, Long)
             /\ receiving' = TRUE /\ waited' = 0
             /\ UNCHANGED <<quiet, loaderVars>>
    <3>1. CASE ExpectHeader
      BY <2>3, <3>1 DEF QuietInv, ExpectHeader, loaderVars
    <3>2. CASE ~ExpectHeader
      <4>1. quiet < HalfTurn
        BY <1>1, <2>1, <3>2 DEF QuietInv
      <4>2. quiet <= Long
        BY <1>1, <2>3, <3>2, <4>1, TimedOutIsAfter
      <4> QED
        BY <1>1, <2>3, <4>2 DEF QuietInv
    <3> QED
      BY <3>1, <3>2
  <2> QED
    BY <1>2, <2>2, <2>3 DEF Call
<1>3. CASE ReceiveByte
  <2>1. InLoop /\ receiving /\ waited' = waited
    BY <1>1, <1>3 DEF ReceiveByte, ReceiverInv
  <2>2. CASE Returns
    BY <1>1, <2>1, <2>2, QuietReturns
  <2>3. CASE UNCHANGED <<loaderVars, receiving, quiet>>
    BY <2>1, <2>3 DEF QuietInv, InLoop, ExpectHeader, loaderVars
  <2> QED
    BY <1>3, <2>2, <2>3, ReceiveByteReturns DEF XmodemInv
<1>4. CASE ReceiveTimeout
  <2>1. InLoop /\ receiving
    BY <1>1, <1>4 DEF ReceiveTimeout, ReceiverInv
  <2> QED
    BY <1>1, <1>4, <2>1, ReceiveTimeoutReturns, QuietReturns DEF XmodemInv
<1>5. CASE EndAttempt \/ XmodemImageReturns
  <2>1. pc' = "image" \/ base' = HeaderBase
    BY <1>5 DEF EndAttempt, XmodemImageReturns, EndLoad, ImageReturns, StartLoad
  <2> QED
    BY <2>1 DEF QuietInv, InLoop, ExpectHeader
<1>6. CASE Tick
  <2>1. UNCHANGED <<receiving, loaderVars>> /\ receiving
    BY <1>6 DEF Tick
  <2>2. waited' = waited + 1 /\ quiet' <= quiet + 1 /\ quiet' \in Nat
    BY <1>1, <1>6 DEF Tick
  <2>3. InLoop /\ ~ExpectHeader => quiet <= Long + waited
    BY <2>1 DEF QuietInv
  <2>4. InLoop /\ ~ExpectHeader => quiet' <= Long + waited'
    BY <1>1, <2>2, <2>3
  <2> QED
    BY <2>1, <2>4 DEF QuietInv, InLoop, ExpectHeader, loaderVars
<1>7. CASE SenderReplies \/ StartSender \/ LineFault \/ UNCHANGED vars
  <2>1. UNCHANGED <<loaderVars, receiverVars>>
    BY <1>7 DEF SenderReplies, StartSender, LineFault, vars, xmodemVars
  <2> QED
    BY <2>1 DEF QuietInv, InLoop, ExpectHeader, loaderVars, receiverVars
<1> QED
  BY <1>2, <1>3, <1>4, <1>5, <1>6, <1>7 DEF XmodemNext, Receiver

\* The ten seconds are noticed before the timer has made half a turn, for all
\* timeouts and timers that XmodemAssumption allows: the calls before may wait
\* or be answered with noise as they like.
THEOREM TenSecondsAreNoticed == SaneHeaders => (XmodemSpec => []TimeoutBeforeWrap)
<1> SUFFICES ASSUME SaneHeaders PROVE XmodemSpec => []TimeoutBeforeWrap
  OBVIOUS
<1>1. XmodemInit => QuietInv
  BY QuietInit
<1>2. LoaderInv /\ XmodemInv /\ QuietInv /\ [XmodemNext]_vars => QuietInv'
  BY QuietStep
<1>3. XmodemInv /\ QuietInv => TimeoutBeforeWrap
  <2> SUFFICES ASSUME XmodemInv, QuietInv, InLoop, ~receiving, ~ExpectHeader
               PROVE  quiet < HalfTurn
    BY DEF TimeoutBeforeWrap
  <2>1. quiet \in Nat /\ quiet <= Long + (Short + 1)
    BY XmodemSizes DEF QuietInv, XmodemInv, ReceiverInv
  <2> QED
    BY <2>1, XmodemSizes
<1>4. XmodemSpec => [](LoaderInv /\ XmodemInv)
  BY XmodemInvariant
<1> QED
  BY <1>1, <1>2, <1>3, <1>4, PTL DEF XmodemSpec

-----------------------------------------------------------------------------
(* What is received *)

\* Bytes are whole packets, but for the first one, of which the beginning may
\* be missing.  at[i] is the place of byte i in its frame; 0 is an EOT.
InPlace(bytes, at) ==
  \A i \in 1 .. Len(bytes) :
    /\ at[i] = 0 => bytes[i] = EOT
    /\ at[i] = 1 => bytes[i] = SOH
    /\ at[i] = 2 =>
         /\ i + 2 <= Len(bytes)
         /\ bytes[i] \in 1 .. Len(file)
         /\ bytes[i + 1] = ByteMod - 1 - bytes[i]
         /\ bytes[i + 2] = file[bytes[i]]
    /\ at[i] = 3 => ByteMod - 1 - bytes[i] \in 1 .. Len(file)
    /\ at[i] = 4 => i < Len(bytes) /\ bytes[i + 1] = bytes[i]
    /\ IF at[i] \in {0, 5}
         THEN i < Len(bytes) => at[i + 1] \in {0, 1}
         ELSE i < Len(bytes) /\ at[i + 1] = at[i] + 1

Places(n) == [1 .. n -> 0 .. 5]

Packets(bytes) == \E at \in Places(Len(bytes)) : InPlace(bytes, at)

\* What this call has received and what is on its way.
WireInv ==
  /\ Packets(rx \o toReceiver)
  /\ rx # <<>> => rx[1] = SOH

\* An ACK answers a block of this attempt.
AckedInv == pc = "loop" /\ xmodem_ack = "ACK" => stream # <<>>

\* The number of the last block taken is the length of the stream.
FileInv ==
  /\ StreamIsFile
  /\ pc = "loop" => xmodem_block = Len(stream)
  /\ AckedInv

\* No packets are on a line that is empty.
LEMMA NoPackets == Packets(<<>>)
<1>1. Len(<<>>) = 0 /\ 1 .. 0 = {}
  OBVIOUS
<1> DEFINE at == [i \in 1 .. 0 |-> 0]
<1>2. at \in Places(Len(<<>>))
  BY <1>1 DEF Places
<1>3. InPlace(<<>>, at)
  BY <1>1 DEF InPlace
<1> HIDE DEF at
<1> QED
  BY <1>2, <1>3 DEF Packets

\* A receiver that leaves bytes out leaves out the beginning.
LEMMA PacketsLeft ==
  ASSUME NEW s \in Seq(Byte), NEW t \in Seq(Byte), Packets(s \o t)
  PROVE  Packets(t)
<1> DEFINE bytes == s \o t
           n == Len(s)
<1>1. /\ n \in Nat /\ Len(t) \in Nat
      /\ Len(bytes) = n + Len(t)
      /\ \A i \in 1 .. Len(t) : bytes[n + i] = t[i]
  BY ConcatCells, LenProperties, XmodemSizes
<1>2. PICK at \in Places(Len(bytes)) : InPlace(bytes, at)
  BY DEF Packets
<1> HIDE DEF bytes, n
<1> DEFINE rest == [i \in 1 .. Len(t) |-> at[n + i]]
<1>3. \A i \in 1 .. Len(t) : n + i \in 1 .. Len(bytes) /\ rest[i] = at[n + i]
  BY <1>1
<1>4. rest \in Places(Len(t))
  BY <1>2, <1>3 DEF Places
<1>5. ASSUME NEW i \in 1 .. Len(t)
      PROVE  /\ rest[i] = 0 => t[i] = EOT
             /\ rest[i] = 1 => t[i] = SOH
             /\ rest[i] = 2 =>
                  /\ i + 2 <= Len(t)
                  /\ t[i] \in 1 .. Len(file)
                  /\ t[i + 1] = ByteMod - 1 - t[i]
                  /\ t[i + 2] = file[t[i]]
             /\ rest[i] = 3 => ByteMod - 1 - t[i] \in 1 .. Len(file)
             /\ rest[i] = 4 => i < Len(t) /\ t[i + 1] = t[i]
             /\ IF rest[i] \in {0, 5}
                  THEN i < Len(t) => rest[i + 1] \in {0, 1}
                  ELSE i < Len(t) /\ rest[i + 1] = rest[i] + 1
  <2> DEFINE j == n + i
  <2>1. /\ j \in 1 .. Len(bytes) /\ rest[i] = at[j] /\ t[i] = bytes[j]
        /\ j < Len(bytes) <=> i < Len(t)
        /\ j + 2 <= Len(bytes) <=> i + 2 <= Len(t)
    BY <1>1, <1>3
  <2>2. i < Len(t) => rest[i + 1] = at[j + 1] /\ t[i + 1] = bytes[j + 1]
    <3> SUFFICES ASSUME i < Len(t)
                 PROVE  rest[i + 1] = at[j + 1] /\ t[i + 1] = bytes[j + 1]
      OBVIOUS
    <3>1. i + 1 \in 1 .. Len(t) /\ n + (i + 1) = j + 1
      BY <1>1
    <3> QED
      BY <1>1, <1>3, <3>1
  <2>3. i + 2 <= Len(t) => t[i + 2] = bytes[j + 2]
    <3> SUFFICES ASSUME i + 2 <= Len(t) PROVE t[i + 2] = bytes[j + 2]
      OBVIOUS
    <3>1. i + 2 \in 1 .. Len(t) /\ n + (i + 2) = j + 2
      BY <1>1
    <3> QED
      BY <1>1, <3>1
  <2>4. i + 2 <= Len(t) => i < Len(t)
    BY <1>1
  <2> HIDE DEF j, rest
  <2>5. /\ at[j] = 0 => bytes[j] = EOT
        /\ at[j] = 1 => bytes[j] = SOH
        /\ at[j] = 2 =>
             /\ j + 2 <= Len(bytes)
             /\ bytes[j] \in 1 .. Len(file)
             /\ bytes[j + 1] = ByteMod - 1 - bytes[j]
             /\ bytes[j + 2] = file[bytes[j]]
        /\ at[j] = 3 => ByteMod - 1 - bytes[j] \in 1 .. Len(file)
        /\ at[j] = 4 => j < Len(bytes) /\ bytes[j + 1] = bytes[j]
        /\ IF at[j] \in {0, 5}
             THEN j < Len(bytes) => at[j + 1] \in {0, 1}
             ELSE j < Len(bytes) /\ at[j + 1] = at[j] + 1
    BY <1>2, <2>1 DEF InPlace
  <2> QED
    BY <2>1, <2>2, <2>3, <2>4, <2>5
<1> HIDE DEF rest
<1>6. InPlace(t, rest)
  BY <1>5 DEF InPlace
<1> QED
  BY <1>4, <1>6 DEF Packets

\* A packet, byte by byte.
LEMMA PacketPlaces ==
  ASSUME file \in Files, ShortFiles, NEW k \in 1 .. Len(file) + 1
  PROVE  /\ Packet(k) \in Seq(Byte) /\ Len(Packet(k)) \in {1, 5}
         /\ Len(Packet(k)) = 1 => Packet(k)[1] = EOT
         /\ Len(Packet(k)) = 5 =>
              /\ k \in 1 .. Len(file)
              /\ Packet(k)[1] = SOH
              /\ Packet(k)[2] = k /\ Packet(k)[3] = ByteMod - 1 - k
              /\ Packet(k)[4] = file[k] /\ Packet(k)[5] = file[k]
<1>1. Packet(k) \in Seq(Byte)
  BY PacketBytes
<1>2. Len(file) \in Nat /\ Len(file) < ByteMod /\ k \in Nat
  <2>1. file \in Seq(Byte) /\ Len(file) + 1 < ByteMod - 1 - SOH
    BY XmodemAssumption DEF XmodemAssumption, ShortFiles
  <2>2. SOH \in Nat /\ ByteMod \in Nat /\ Len(file) \in Nat
    BY <2>1, LenProperties, XmodemSizes DEF Byte
  <2> QED
    BY <2>1, <2>2
<1>3. CASE k > Len(file)
  <2>1. Packet(k) = <<EOT>>
    BY <1>3 DEF Packet
  <2> QED
    BY <1>1, <2>1
<1>4. CASE k <= Len(file)
  <2>1. k % ByteMod = k
    BY <1>2, <1>4, XmodemSizes
  <2>2. Packet(k) = <<SOH, k, ByteMod - 1 - k, file[k], file[k]>>
    BY <1>2, <1>4, <2>1 DEF Packet, Frame
  <2> QED
    BY <1>1, <1>2, <1>4, <2>2
<1> QED
  BY <1>2, <1>3, <1>4

\* A packet follows on whatever is on the line.
LEMMA PacketsFollow ==
  ASSUME file \in Files, ShortFiles, NEW s \in Seq(Byte), Packets(s),
         NEW k \in 1 .. Len(file) + 1
  PROVE  Packets(s \o Packet(k))
<1> DEFINE p == Packet(k)
           bytes == s \o p
           n == Len(s)
           m == Len(p)
<1>1. /\ p \in Seq(Byte) /\ m \in {1, 5}
      /\ m = 1 => p[1] = EOT
      /\ m = 5 => /\ k \in 1 .. Len(file)
                  /\ p[1] = SOH /\ p[2] = k /\ p[3] = ByteMod - 1 - k
                  /\ p[4] = file[k] /\ p[5] = file[k]
  BY PacketPlaces
<1> HIDE DEF p
<1>2. /\ n \in Nat /\ Len(bytes) = n + m
      /\ \A i \in 1 .. n : bytes[i] = s[i]
      /\ \A j \in 1 .. m : bytes[n + j] = p[j]
  BY <1>1, ConcatCells, LenProperties, XmodemSizes
<1>3. PICK at \in Places(n) : InPlace(s, at)
  BY DEF Packets
<1> DEFINE both == [i \in 1 .. n + m |-> IF i <= n THEN at[i] ELSE IF m = 1 THEN 0 ELSE i - n]
<1>4. \A i \in 1 .. n : both[i] = at[i] /\ at[i] \in 0 .. 5
  <2> SUFFICES ASSUME NEW i \in 1 .. n PROVE both[i] = at[i] /\ at[i] \in 0 .. 5
    OBVIOUS
  <2>1. at[i] \in 0 .. 5
    BY <1>3 DEF Places
  <2>2. i \in 1 .. n + m /\ i <= n
    BY <1>1, <1>2
  <2> QED
    BY <2>1, <2>2
<1>5. \A j \in 1 .. m : both[n + j] = (IF m = 1 THEN 0 ELSE j)
  <2> SUFFICES ASSUME NEW j \in 1 .. m PROVE both[n + j] = (IF m = 1 THEN 0 ELSE j)
    OBVIOUS
  <2>1. n + j \in 1 .. n + m /\ ~(n + j <= n) /\ n + j - n = j
    BY <1>1, <1>2
  <2> QED
    BY <2>1
<1>6. both \in Places(Len(bytes))
  <2>1. ASSUME NEW i \in 1 .. n + m
        PROVE  (IF i <= n THEN at[i] ELSE IF m = 1 THEN 0 ELSE i - n) \in 0 .. 5
    <3> HIDE DEF n, m
    <3>1. CASE i <= n
      <4>1. i \in 1 .. n
        BY <1>2, <3>1
      <4>2. at[i] \in 0 .. 5
        BY <1>4, <4>1
      <4> QED
        BY <3>1, <4>2
    <3>2. CASE i > n
      <4>1. ~(i <= n) /\ i - n \in 1 .. m
        BY <1>1, <1>2, <3>2
      <4>2. m = 1 \/ i - n \in 0 .. 5
        BY <1>1, <4>1, SMTT(30)
      <4> QED
        BY <4>1, <4>2
    <3> QED
      BY <1>1, <1>2, <3>1, <3>2
  <2> QED
    BY <1>2, <2>1 DEF Places
<1> HIDE DEF both, bytes
<1>7. \A i \in 1 .. Len(bytes) : i \in 1 .. n \/ \E j \in 1 .. m : i = n + j
  <2> SUFFICES ASSUME NEW i \in 1 .. n + m, ~(i \in 1 .. n)
               PROVE  \E j \in 1 .. m : i = n + j
    BY <1>2
  <2>1. i - n \in 1 .. m /\ i = n + (i - n)
    BY <1>1, <1>2
  <2> QED
    BY <2>1
<1> DEFINE Fits(i) ==
             /\ both[i] = 0 => bytes[i] = EOT
             /\ both[i] = 1 => bytes[i] = SOH
             /\ both[i] = 2 =>
                  /\ i + 2 <= Len(bytes)
                  /\ bytes[i] \in 1 .. Len(file)
                  /\ bytes[i + 1] = ByteMod - 1 - bytes[i]
                  /\ bytes[i + 2] = file[bytes[i]]
             /\ both[i] = 3 => ByteMod - 1 - bytes[i] \in 1 .. Len(file)
             /\ both[i] = 4 => i < Len(bytes) /\ bytes[i + 1] = bytes[i]
             /\ IF both[i] \in {0, 5}
                  THEN i < Len(bytes) => both[i + 1] \in {0, 1}
                  ELSE i < Len(bytes) /\ both[i + 1] = both[i] + 1
<1>8. ASSUME NEW i \in 1 .. n PROVE Fits(i)
  <2>1. /\ i \in Nat /\ both[i] = at[i] /\ bytes[i] = s[i] /\ i <= n
        /\ Len(bytes) = n + m /\ m \in Nat /\ m >= 1
    BY <1>1, <1>2, <1>4
  <2>2. i < n => both[i + 1] = at[i + 1] /\ bytes[i + 1] = s[i + 1]
    BY <1>2, <1>4
  <2>3. i + 2 <= n => bytes[i + 2] = s[i + 2]
    BY <1>2
  <2>4. i = n => both[i + 1] \in {0, 1}
    <3>1. 1 \in 1 .. m
      BY <1>1
    <3>2. both[n + 1] = (IF m = 1 THEN 0 ELSE 1)
      BY <1>5, <3>1
    <3> QED
      BY <3>2
  <2>5. i = n \/ i < n
    BY <1>2, <2>1
  <2>6. /\ at[i] = 0 => s[i] = EOT
        /\ at[i] = 1 => s[i] = SOH
        /\ at[i] = 2 =>
             /\ i + 2 <= n
             /\ s[i] \in 1 .. Len(file)
             /\ s[i + 1] = ByteMod - 1 - s[i]
             /\ s[i + 2] = file[s[i]]
        /\ at[i] = 3 => ByteMod - 1 - s[i] \in 1 .. Len(file)
        /\ at[i] = 4 => i < n /\ s[i + 1] = s[i]
        /\ IF at[i] \in {0, 5}
             THEN i < n => at[i + 1] \in {0, 1}
             ELSE i < n /\ at[i + 1] = at[i] + 1
    BY <1>3 DEF InPlace
  <2> HIDE DEF n, m
  <2>7. (i + 2 <= n => i < n) /\ (i < n => i < n + m) /\ (i + 2 <= n => i + 2 <= n + m)
    BY <1>2, <2>1
  <2> QED
    BY <2>1, <2>2, <2>3, <2>4, <2>5, <2>6, <2>7
<1>9. ASSUME NEW j \in 1 .. m PROVE Fits(n + j)
  <2>1. Len(bytes) = n + m /\ n \in Nat
    BY <1>2
  <2>2. CASE m = 1
    <3>1. j = 1 /\ both[n + j] = 0 /\ bytes[n + j] = EOT /\ ~(n + j < Len(bytes))
      BY <1>1, <1>2, <1>5, <2>1, <2>2
    <3> QED
      BY <3>1
  <2>3. CASE m = 5
    <3>1. /\ both[n + 1] = 1 /\ both[n + 2] = 2 /\ both[n + 3] = 3
          /\ both[n + 4] = 4 /\ both[n + 5] = 5
      BY <1>5, <2>3
    <3>2. /\ bytes[n + 1] = SOH /\ bytes[n + 2] = k /\ bytes[n + 3] = ByteMod - 1 - k
          /\ bytes[n + 4] = file[k] /\ bytes[n + 5] = file[k]
      BY <1>1, <1>2, <2>3
    <3>3. k \in 1 .. Len(file) /\ ByteMod - 1 - (ByteMod - 1 - k) = k
      <4>1. k \in 1 .. Len(file)
        BY <1>1, <2>3
      <4> QED
        BY <4>1, XmodemSizes
    <3>4. j \in {1, 2, 3, 4, 5} /\ Len(bytes) = n + 5
      BY <2>1, <2>3
    <3>5. /\ n + 1 + 1 = n + 2 /\ n + 2 + 1 = n + 3 /\ n + 3 + 1 = n + 4
          /\ n + 4 + 1 = n + 5 /\ n + 2 + 2 = n + 4
          /\ n + 1 < n + 5 /\ n + 2 < n + 5 /\ n + 3 < n + 5 /\ n + 4 < n + 5
          /\ ~(n + 5 < n + 5) /\ n + 4 <= n + 5
      BY <2>1
    <3> HIDE DEF n, m
    <3>6. Fits(n + 1)
      BY <3>1, <3>2, <3>4, <3>5
    <3>7. Fits(n + 2)
      BY <3>1, <3>2, <3>3, <3>4, <3>5
    <3>8. Fits(n + 3)
      BY <3>1, <3>2, <3>3, <3>4, <3>5
    <3>9. Fits(n + 4)
      BY <3>1, <3>2, <3>4, <3>5
    <3>10. Fits(n + 5)
      BY <3>1, <3>2, <3>4, <3>5
    <3> HIDE DEF Fits
    <3> QED
      BY <3>4, <3>6, <3>7, <3>8, <3>9, <3>10
  <2> QED
    BY <1>1, <2>2, <2>3
<1>10. \A i \in 1 .. Len(bytes) : Fits(i)
  <2> HIDE DEF Fits
  <2> QED
    BY <1>7, <1>8, <1>9
<1>11. InPlace(bytes, both)
  BY <1>10 DEF InPlace
<1> QED
  BY <1>6, <1>11 DEF Packets, bytes, p

\* A receiver that has lost its place takes no five bytes for a frame: where the
\* complement is right, it is a frame as it was sent, or its number is that of
\* no block.
LEMMA OnlySentFrames ==
  ASSUME file \in Files, ShortFiles, ControlBytes, NEW bytes \in Seq(Byte),
         Packets(bytes), Len(bytes) >= 5,
         bytes[1] = SOH, bytes[2] + bytes[3] = ByteMod - 1
  PROVE  \/ bytes[2] \in 1 .. Len(file) /\ bytes[4] = file[bytes[2]]
         \/ bytes[2] = ByteMod - 1 - SOH
<1>1. PICK at \in Places(Len(bytes)) : InPlace(bytes, at)
  BY DEF Packets
<1>2. /\ Len(bytes) \in Nat /\ ByteMod \in Nat /\ SOH \in Nat /\ EOT \in Nat
      /\ SOH # EOT /\ Len(file) \in Nat /\ Len(file) + 1 < ByteMod - 1 - SOH
  <2>1. SOH # EOT /\ file \in Seq(Byte) /\ Len(file) + 1 < ByteMod - 1 - SOH
    BY XmodemAssumption DEF XmodemAssumption, ShortFiles
  <2> QED
    BY <2>1, LenProperties, XmodemSizes DEF Byte
<1> DEFINE Fits(i) ==
             /\ at[i] = 0 => bytes[i] = EOT
             /\ at[i] = 1 => bytes[i] = SOH
             /\ at[i] = 2 =>
                  /\ i + 2 <= Len(bytes)
                  /\ bytes[i] \in 1 .. Len(file)
                  /\ bytes[i + 1] = ByteMod - 1 - bytes[i]
                  /\ bytes[i + 2] = file[bytes[i]]
             /\ at[i] = 3 => ByteMod - 1 - bytes[i] \in 1 .. Len(file)
             /\ at[i] = 4 => i < Len(bytes) /\ bytes[i + 1] = bytes[i]
             /\ IF at[i] \in {0, 5}
                  THEN i < Len(bytes) => at[i + 1] \in {0, 1}
                  ELSE i < Len(bytes) /\ at[i + 1] = at[i] + 1
<1>3. \A i \in 1 .. Len(bytes) : Fits(i)
  BY <1>1 DEF InPlace
<1>4. /\ 1 \in 1 .. Len(bytes) /\ 2 \in 1 .. Len(bytes) /\ 3 \in 1 .. Len(bytes)
      /\ 4 \in 1 .. Len(bytes) /\ 1 < Len(bytes) /\ 2 < Len(bytes)
  BY <1>2
<1>5. at[1] \in 0 .. 5
  BY <1>1, <1>4 DEF Places
<1>6. Fits(1) /\ Fits(2) /\ Fits(3)
  <2> HIDE DEF Fits
  <2> QED
    BY <1>3, <1>4
<1>7. \A a, b \in {SOH, EOT} : a + b # ByteMod - 1
  BY DEF ControlBytes
<1>8. CASE at[1] = 0
  BY <1>2, <1>6, <1>8
<1>9. CASE at[1] = 1
  <2>1. at[2] = 2
    BY <1>4, <1>6, <1>9
  <2> QED
    BY <1>6, <2>1
<1>10. CASE at[1] = 2
  BY <1>6, <1>10
<1>11. CASE at[1] = 3
  BY <1>2, <1>6, <1>11
<1>12. CASE at[1] = 4
  <2>1. bytes[2] = SOH /\ at[2] = 5
    BY <1>6, <1>12
  <2>2. at[3] \in {0, 1}
    BY <1>4, <1>6, <2>1
  <2>3. bytes[3] \in {SOH, EOT}
    BY <1>6, <2>2
  <2> QED
    BY <1>7, <2>1, <2>3
<1>13. CASE at[1] = 5
  <2>1. at[2] \in {0, 1}
    BY <1>4, <1>6, <1>13
  <2>2. CASE at[2] = 0
    <3>1. bytes[2] = EOT /\ at[3] \in {0, 1}
      BY <1>4, <1>6, <2>2
    <3>2. bytes[3] \in {SOH, EOT}
      BY <1>6, <3>1
    <3> QED
      BY <1>7, <3>1, <3>2
  <2>3. CASE at[2] = 1
    <3>1. bytes[2] = SOH /\ at[3] = 2
      BY <1>6, <2>3
    <3>2. bytes[3] \in 1 .. Len(file)
      BY <1>6, <3>1
    <3> QED
      BY <1>2, <3>1, <3>2
  <2> QED
    BY <2>1, <2>2, <2>3
<1> HIDE DEF Fits
<1>14. at[1] \in {0, 1, 2, 3, 4, 5}
  BY <1>5
<1> QED
  BY <1>8, <1>9, <1>10, <1>11, <1>12, <1>13, <1>14

-----------------------------------------------------------------------------
(* The bytes on the line, step by step *)

\* A byte that is received moves from the line to the call.
LEMMA ByteMoves ==
  ASSUME NEW s \in Seq(Byte), NEW t \in Seq(Byte), t # <<>>
  PROVE  /\ Append(s, Head(t)) \in Seq(Byte) /\ Tail(t) \in Seq(Byte)
         /\ Len(Append(s, Head(t))) = Len(s) + 1
         /\ Append(s, Head(t)) \o Tail(t) = s \o t
<1> DEFINE first == <<Head(t)>>
           rest == Tail(t)
<1>1. Head(t) \in Byte /\ rest \in Seq(Byte) /\ Len(t) \in Nat /\ Len(t) >= 1
  BY HeadTailProperties, EmptySeq
<1>2. t = first \o rest
  <2>1. SubSeq(t, 1, Len(t)) = <<t[1]>> \o SubSeq(t, 1 + 1, Len(t))
    <3>1. 1 \in 1 .. Len(t) /\ Len(t) \in 1 .. Len(t)
      BY <1>1
    <3> QED
      BY <3>1, SubSeqRecursiveFirst
  <2>2. SubSeq(t, 1, Len(t)) = t /\ Tail(t) = SubSeq(t, 2, Len(t))
    BY SubSeqFull, TailIsSubSeq
  <2>3. Head(t) = t[1] /\ 1 + 1 = 2
    OBVIOUS
  <2> QED
    BY <2>1, <2>2, <2>3
<1>3. first \in Seq(Byte) /\ Append(s, Head(t)) = s \o first
  BY <1>1, AppendIsConcat
<1>4. /\ Append(s, Head(t)) \in Seq(Byte)
      /\ Len(Append(s, Head(t))) = Len(s) + 1
  BY <1>1, AppendProperties
<1>a. first \in Seq(Byte) /\ rest \in Seq(Byte)
  BY <1>1, <1>3
<1> HIDE DEF first, rest
<1>5. (s \o first) \o rest = s \o (first \o rest)
  BY <1>a, ConcatAssociative, SMTT(30)
<1>6. Append(s, Head(t)) \o rest = s \o t
  BY <1>2, <1>3, <1>5
<1> QED
  BY <1>1, <1>4, <1>6 DEF rest

\* What is on the line may be listened to from the middle.
LEMMA WireCutShort ==
  ASSUME WireInv, rx \in Seq(Byte), toReceiver \in Seq(Byte),
         rx' = <<>>, UNCHANGED <<toReceiver, file>>
  PROVE  WireInv'
<1>1. Packets(toReceiver)
  BY PacketsLeft DEF WireInv
<1>2. rx' \o toReceiver' = toReceiver
  BY ConcatEmptySeq
<1>3. Packets(rx' \o toReceiver')
  BY <1>1, <1>2
<1> DEFINE bytes == rx' \o toReceiver'
<1>4. Packets(rx \o toReceiver)' <=> Packets(bytes)
  BY DEF Packets, InPlace
<1> QED
  BY <1>3, <1>4 DEF WireInv

LEMMA WireReceiveByte ==
  ASSUME LoaderInv, SaneHeaders, XmodemInv, WireInv, ReceiveByte
  PROVE  WireInv'
<1> DEFINE bytes == Append(rx, Head(toReceiver))
           rest == Tail(toReceiver)
<1>1. /\ rx \in Seq(Byte) /\ toReceiver \in Seq(Byte) /\ toReceiver # <<>>
      /\ toReceiver' = rest /\ file' = file
  BY DEF XmodemInv, ReceiverInv, LineInv, ReceiveByte, senderVars
<1>2. /\ bytes \in Seq(Byte) /\ rest \in Seq(Byte)
      /\ Len(bytes) = Len(rx) + 1 /\ bytes \o rest = rx \o toReceiver
  BY <1>1, ByteMoves
<1>3. Packets(bytes \o rest)
  BY <1>2 DEF WireInv
<1>4. \/ rx' = <<>>
      \/ rx' = bytes /\ ~(Len(bytes) = 1 /\ Head(bytes) # SOH)
  BY DEF ReceiveByte, JudgeFrame, RefuseFrame, ReturnZero, TakeFrame
<1> DEFINE left == rx' \o toReceiver'
<1>5. Packets(rx \o toReceiver)' <=> Packets(left)
  BY <1>1 DEF Packets, InPlace
<1>6. CASE rx' = <<>>
  <2>1. left = rest
    BY <1>1, <1>2, <1>6, ConcatEmptySeq
  <2>2. Packets(rest)
    BY <1>2, <1>3, PacketsLeft
  <2> QED
    BY <1>5, <1>6, <2>1, <2>2 DEF WireInv
<1>7. CASE rx' = bytes /\ ~(Len(bytes) = 1 /\ Head(bytes) # SOH)
  <2>1. left = bytes \o rest
    BY <1>1, <1>7
  <2>2. bytes[1] = SOH
    <3>1. Head(toReceiver) \in Byte
      BY <1>1, HeadTailProperties
    <3>2. CASE rx = <<>>
      <4>1. Len(bytes) = 1
        BY <1>2, <3>2
      <4>2. Head(bytes) = SOH /\ Head(bytes) = bytes[1]
        BY <1>7, <4>1
      <4> QED
        BY <4>2
    <3>3. CASE rx # <<>>
      <4>1. rx[1] = SOH /\ 1 \in 1 .. Len(rx)
        BY <1>1, <3>3, EmptySeq DEF WireInv
      <4>2. \A i \in 1 .. Len(rx) : bytes[i] = rx[i]
        BY <1>1, <3>1, AppendProperties
      <4> QED
        BY <4>1, <4>2
    <3> QED
      BY <3>2, <3>3
  <2> HIDE DEF bytes, rest, left
  <2>3. Packets(rx \o toReceiver)'
    BY <1>3, <1>5, <2>1
  <2>4. rx'[1] = SOH
    BY <1>7, <2>2
  <2> QED
    BY <2>3, <2>4 DEF WireInv
<1> QED
  BY <1>4, <1>6, <1>7

\* The sender adds whole packets.
LEMMA WireSend ==
  ASSUME XmodemInv, ShortFiles, WireInv, NEW k \in 1 .. Len(file) + 1, Send(k),
         UNCHANGED <<rx, file>>
  PROVE  WireInv'
<1>1. /\ rx \in Seq(Byte) /\ toReceiver \in Seq(Byte) /\ file \in Files
      /\ Packet(k) \in Seq(Byte)
  BY PacketBytes DEF XmodemInv, ReceiverInv, LineInv, SenderInv
<1> DEFINE bytes == rx \o toReceiver
           more == bytes \o Packet(k)
<1>2. Packets(more)
  <2>1. bytes \in Seq(Byte)
    BY <1>1, ConcatProperties
  <2>2. Packets(bytes)
    BY DEF WireInv
  <2> HIDE DEF bytes
  <2> QED
    BY <1>1, <2>1, <2>2, PacketsFollow
<1>3. rx' \o toReceiver' = more
  <2>1. rx' = rx /\ toReceiver' = toReceiver \o Packet(k)
    BY DEF Send
  <2>2. (rx \o toReceiver) \o Packet(k) = rx \o (toReceiver \o Packet(k))
    BY <1>1, ConcatAssociative
  <2> QED
    BY <2>1, <2>2
<1> HIDE DEF more
<1>4. Packets(rx \o toReceiver)' <=> Packets(more)
  BY <1>3, SMTT(30) DEF Packets, InPlace
<1> QED
  BY <1>2, <1>4 DEF WireInv

LEMMA WireUnchanged ==
  ASSUME WireInv, UNCHANGED <<rx, toReceiver, file>>
  PROVE  WireInv'
<1>1. Packets(rx \o toReceiver)' <=> Packets(rx \o toReceiver)
  BY DEF Packets, InPlace
<1> QED
  BY <1>1 DEF WireInv

LEMMA WireSenderReplies ==
  ASSUME XmodemInv, ShortFiles, WireInv, SenderReplies
  PROVE  WireInv'
<1>1. rx' = rx /\ file' = file
  BY DEF SenderReplies, receiverVars
<1>2. \/ \E k \in 1 .. Len(file) + 1 : Send(k)
      \/ toReceiver' = toReceiver
  <2>1. Len(file) \in Nat /\ sent \in 0 .. Len(file) + 1
    BY XmodemAssumption, LenProperties DEF XmodemInv, SenderInv, XmodemAssumption
  <2>2. \/ LET k == IF sent = 0 THEN 1 ELSE sent IN Send(k)
        \/ sent \in 1 .. Len(file) /\ Send(sent + 1)
        \/ toReceiver' = toReceiver
    BY DEF SenderReplies
  <2>3. sent \in 1 .. Len(file) => sent + 1 \in 1 .. Len(file) + 1
    BY <2>1
  <2>4. (IF sent = 0 THEN 1 ELSE sent) \in 1 .. Len(file) + 1
    BY <2>1
  <2> QED
    BY <2>2, <2>3, <2>4
<1> QED
  BY <1>1, <1>2, WireSend, WireUnchanged

\* All steps that concern the line.
XmodemAction ==
  \/ Call \/ ReceiveByte \/ ReceiveTimeout \/ EndAttempt \/ XmodemImageReturns
  \/ SenderReplies \/ StartSender \/ LineFault \/ Tick

LEMMA WireStep ==
  ASSUME LoaderInv, SaneHeaders, FaithfulLine, ShortFiles, XmodemInv, WireInv,
         XmodemAction \/ UNCHANGED xmodemVars
  PROVE  WireInv'
<1>1. rx \in Seq(Byte) /\ toReceiver \in Seq(Byte)
  BY DEF XmodemInv, ReceiverInv, LineInv
<1>2. CASE Call
  <2>1. UNCHANGED <<toReceiver, file>> /\ (rx' = <<>> \/ rx' = rx)
    BY <1>2 DEF Call, xmodemVars, lineVars, senderVars, receiverVars
  <2> QED
    BY <1>1, <2>1, WireCutShort, WireUnchanged
<1>3. CASE ReceiveByte
  BY <1>3, WireReceiveByte
<1>4. CASE ReceiveTimeout
  <2>1. UNCHANGED <<toReceiver, file>> /\ rx' = <<>>
    BY <1>4 DEF ReceiveTimeout, ReturnZero, lineVars, senderVars
  <2> QED
    BY <1>1, <2>1, WireCutShort
<1>5. CASE EndAttempt \/ XmodemImageReturns \/ StartSender \/ Tick \/ UNCHANGED xmodemVars
  <2>1. UNCHANGED <<rx, toReceiver, file>>
    BY <1>5 DEF EndAttempt, XmodemImageReturns, StartSender, Tick,
         xmodemVars, lineVars, senderVars, receiverVars
  <2> QED
    BY <2>1, WireUnchanged
<1>6. CASE SenderReplies
  BY <1>6, WireSenderReplies
<1>7. CASE LineFault
  <2>1. faults < MaxFaults /\ faults \in 0 .. MaxFaults /\ MaxFaults \in Nat
    BY <1>7, XmodemSizes DEF LineFault, XmodemInv, LineInv
  <2>a. MaxFaults # 0
    BY <2>1
  <2>2. FaultKinds \subseteq {"lose reply"}
    BY <2>a, Zenon DEF FaithfulLine
  <2>3. UNCHANGED <<rx, toReceiver, file>>
    BY <1>7, <2>2 DEF LineFault, receiverVars, senderVars
  <2> QED
    BY <2>3, WireUnchanged
<1> QED
  BY <1>2, <1>3, <1>4, <1>5, <1>6, <1>7 DEF XmodemAction
-----------------------------------------------------------------------------
(* The stream, step by step *)

\* A frame as it was sent is taken if it is the next one, and answered with an
\* ACK if it is the previous one.
LEMMA FileJudge ==
  ASSUME LoaderInv, SaneHeaders, ShortFiles, FileInv,
         file \in Files, file' = file, InLoop,
         NEW frame \in Seq(Byte), Len(frame) = 5, JudgeFrame(frame),
         \/ frame[2] + frame[3] # ByteMod - 1
         \/ frame[2] \in 1 .. Len(file) /\ frame[4] = file[frame[2]]
         \/ frame[2] = ByteMod - 1 - SOH
  PROVE  FileInv'
<1>1. /\ stream \in Seq(Data) /\ Len(stream) \in Nat /\ Len(stream) <= Len(file)
      /\ Len(file) \in Nat /\ Len(file) + 1 < ByteMod - 1 - SOH
      /\ ByteMod \in Nat /\ SOH \in Nat
      /\ pc = "loop" /\ xmodem_block = Len(stream)
      /\ \A i \in 1 .. Len(stream) : stream[i] = file[i]
  <2>1. file \in Seq(Byte) /\ Len(file) + 1 < ByteMod - 1 - SOH
    BY XmodemAssumption DEF XmodemAssumption, ShortFiles
  <2>2. Len(file) \in Nat /\ SOH \in Nat /\ ByteMod \in Nat
    BY <2>1, LenProperties, XmodemSizes DEF Byte
  <2> QED
    BY <2>1, <2>2, LenProperties
    DEF FileInv, StreamIsFile, InLoop, LoaderInv, LoaderTypeOK
<1>2. xmodem_ack = "ACK" => stream # <<>>
  BY <1>1 DEF FileInv, AckedInv
<1>3. CASE UNCHANGED <<stream, xmodem_block>> /\ (xmodem_ack' = "ACK" => stream # <<>>)
  BY <1>1, <1>3 DEF FileInv, StreamIsFile, AckedInv
<1>4. CASE RefuseFrame
  <2>1. UNCHANGED <<stream, xmodem_block, xmodem_ack>>
    BY <1>4 DEF RefuseFrame, ReturnZero, Retry
  <2> QED
    BY <1>2, <1>3, <2>1
<1>5. CASE /\ ~BadComplement(frame) /\ NumberOf(frame) = xmodem_block
           /\ ReturnZero /\ UNCHANGED xmodem_block
  <2>1. Len(stream) # 0
    BY <1>1, <1>5 DEF NumberOf, BadComplement
  <2>2. stream # <<>>
    BY <2>1
  <2>3. UNCHANGED <<stream, xmodem_block>>
    BY <1>5 DEF ReturnZero, Retry
  <2> QED
    BY <1>3, <2>2, <2>3
<1>6. CASE Stop /\ UNCHANGED <<xmodem_ack, xmodem_block>>
  <2>1. UNCHANGED <<stream, xmodem_block, xmodem_ack>>
    BY <1>6 DEF Stop
  <2> QED
    BY <1>2, <1>3, <2>1
<1>7. CASE /\ ~BadComplement(frame)
           /\ NumberOf(frame) = (xmodem_block + 1) % ByteMod
           /\ ExpectHeader => IsHeader[frame[4]]
           /\ TakeFrame(frame)
  <2>1. (Len(stream) + 1) % ByteMod = Len(stream) + 1
    <3> DEFINE n == Len(stream) + 1
    <3>1. n \in Nat /\ n < ByteMod /\ ByteMod \in Nat
      BY <1>1
    <3> HIDE DEF n
    <3>2. n % ByteMod = n
      BY <3>1
    <3> QED
      BY <3>2 DEF n
  <2>2. frame[2] = Len(stream) + 1
    BY <1>1, <1>7, <2>1 DEF NumberOf
  <2>3. frame[2] \in 1 .. Len(file) /\ frame[4] = file[frame[2]]
    BY <1>1, <1>7, <2>2 DEF BadComplement
  <2>4. mem' \in Scribbles /\ mem'[base] = frame[4]
    <3>1. StoreData(frame) /\ Len(frame) >= 4
      BY DEF JudgeFrame
    <3> QED
      BY <3>1, StoreDataFrame
  <2>5. Deliverable(1) /\ Took(1) /\ 1 \in BlockSizes
    BY <1>7, <2>4, BlockDeliverable, XmodemSizes DEF TakeFrame
  <2>6. /\ stream' \in Seq(Data)
        /\ Len(stream') = Len(stream) + 1
        /\ \A i \in 1 .. Len(stream) : stream'[i] = stream[i]
        /\ \A i \in Len(stream) + 1 .. Len(stream) + 1 :
             stream'[i] = mem'[base + i - Len(stream) - 1]
    BY <2>4, <2>5, TookStream
  <2>7. base \in Nat
    BY BaseInDram
  <2>8. stream'[Len(stream) + 1] = file[Len(stream) + 1]
    <3>1. base + (Len(stream) + 1) - Len(stream) - 1 = base
      BY <1>1, <2>7
    <3>2. stream'[Len(stream) + 1] = mem'[base + (Len(stream) + 1) - Len(stream) - 1]
      BY <1>1, <2>6
    <3> QED
      BY <2>2, <2>3, <2>4, <3>1, <3>2
  <2>9. \A i \in 1 .. Len(stream') : i \in 1 .. Len(stream) \/ i = Len(stream) + 1
    BY <1>1, <2>6
  <2>10. StreamIsFile'
    <3>1. file' = file /\ Len(stream') <= Len(file)
      BY <1>1, <2>2, <2>3, <2>6
    <3>2. ASSUME NEW i \in 1 .. Len(stream') PROVE stream'[i] = file[i]
      <4>1. CASE i \in 1 .. Len(stream)
        BY <1>1, <2>6, <4>1 DEF StreamIsFile
      <4>2. CASE i = Len(stream) + 1
        BY <2>8, <4>2
      <4> QED
        BY <2>9, <4>1, <4>2
    <3> QED
      BY <3>1, <3>2 DEF StreamIsFile
  <2>11. xmodem_block' = Len(stream')
    BY <1>7, <2>2, <2>6 DEF TakeFrame, NumberOf
  <2>12. stream' # <<>>
    BY <1>1, <2>6
  <2> QED
    BY <2>10, <2>11, <2>12 DEF FileInv, AckedInv
<1> QED
  BY <1>4, <1>5, <1>6, <1>7 DEF JudgeFrame

LEMMA FileReceiveByte ==
  ASSUME LoaderInv, SaneHeaders, ShortFiles, ControlBytes, XmodemInv, WireInv, FileInv,
         ReceiveByte
  PROVE  FileInv'
<1> DEFINE bytes == Append(rx, Head(toReceiver))
           rest == Tail(toReceiver)
<1>1. /\ rx \in Seq(Byte) /\ toReceiver \in Seq(Byte) /\ toReceiver # <<>>
      /\ file \in Files /\ file' = file /\ InLoop
  BY DEF XmodemInv, ReceiverInv, LineInv, SenderInv, ReceiveByte, senderVars
<1>2. /\ bytes \in Seq(Byte) /\ rest \in Seq(Byte)
      /\ Len(bytes) = Len(rx) + 1 /\ bytes \o rest = rx \o toReceiver
  BY <1>1, ByteMoves
<1>3. /\ Head(toReceiver) \in Byte
      /\ \A i \in 1 .. Len(rx) : bytes[i] = rx[i]
  BY <1>1, HeadTailProperties, AppendProperties
<1>4. \/ Stop /\ UNCHANGED <<xmodem_ack, xmodem_block>>
      \/ Retry /\ UNCHANGED <<xmodem_ack, xmodem_block>>
      \/ Len(bytes) = 5 /\ JudgeFrame(bytes)
      \/ UNCHANGED <<loaderVars, xmodem_ack, xmodem_block>>
  BY DEF ReceiveByte, ReturnZero
<1> HIDE DEF bytes, rest
<1>5. CASE Stop /\ UNCHANGED <<xmodem_ack, xmodem_block>>
  BY <1>1, <1>5 DEF Stop, InLoop, FileInv, StreamIsFile, AckedInv
<1>6. CASE Retry /\ UNCHANGED <<xmodem_ack, xmodem_block>>
  BY <1>1, <1>6 DEF Retry, Advance, InLoop, FileInv, StreamIsFile, AckedInv
<1>7. CASE Len(bytes) = 5 /\ JudgeFrame(bytes)
  <2>1. CASE BadComplement(bytes)
    <3>1. bytes[2] + bytes[3] # ByteMod - 1
      BY <2>1 DEF BadComplement
    <3> QED
      BY <1>1, <1>2, <1>7, <3>1, FileJudge
  <2>2. CASE ~BadComplement(bytes)
    <3> DEFINE line == bytes \o rest
    <3>1. /\ line \in Seq(Byte) /\ Len(line) >= 5
          /\ \A i \in 1 .. 5 : line[i] = bytes[i]
      <4>1. Len(bytes) = 5 /\ Len(rest) \in Nat
        BY <1>2, <1>7, LenProperties
      <4>2. /\ line \in Seq(Data) /\ Len(line) = Len(bytes) + Len(rest)
            /\ \A i \in 1 .. Len(bytes) : line[i] = bytes[i]
        <5>1. bytes \in Seq(Data) /\ rest \in Seq(Data)
          BY <1>2, XmodemSizes
        <5> QED
          BY <5>1, ConcatCells
      <4> QED
        BY <4>1, <4>2, XmodemSizes, SMTT(30)
    <3>2. Packets(line)
      BY <1>2 DEF WireInv
    <3>3. bytes[1] = SOH
      <4>a. Len(rx) \in Nat
        BY <1>1, LenProperties
      <4>b. Len(bytes) = 5 /\ Len(bytes) = Len(rx) + 1
        BY Zenon, <1>2, <1>7
      <4> DEFINE n == Len(rx)
      <4>c. n \in Nat /\ n + 1 = 5
        BY <4>a, <4>b
      <4> HIDE DEF n
      <4>d. n = 4
        BY <4>c
      <4>1. Len(rx) \in Nat /\ Len(rx) = 4
        BY <4>a, <4>d DEF n
      <4>2. rx # <<>> /\ 1 \in 1 .. Len(rx)
        BY <4>1
      <4> QED
        BY <1>3, <4>2 DEF WireInv
    <3>4. bytes[2] + bytes[3] = ByteMod - 1
      BY <2>2 DEF BadComplement
    <3>5. line[1] = bytes[1] /\ line[2] = bytes[2] /\ line[3] = bytes[3] /\ line[4] = bytes[4]
      BY <3>1
    <3> HIDE DEF line
    <3>6. \/ line[2] \in 1 .. Len(file) /\ line[4] = file[line[2]]
          \/ line[2] = ByteMod - 1 - SOH
      BY <1>1, <3>1, <3>2, <3>3, <3>4, <3>5, OnlySentFrames
    <3> QED
      BY <1>1, <1>2, <1>7, <3>5, <3>6, FileJudge
  <2> QED
    BY <2>1, <2>2
<1>8. CASE UNCHANGED <<loaderVars, xmodem_ack, xmodem_block>>
  BY <1>1, <1>8 DEF loaderVars, FileInv, StreamIsFile, AckedInv
<1> QED
  BY <1>4, <1>5, <1>6, <1>7, <1>8

\* A new attempt begins with an empty stream and a receiver that has been reset.
LEMMA FileStartLoad ==
  ASSUME StartLoad, ResetReceiver, file \in Files, file' = file
  PROVE  FileInv'
<1>1. stream' = <<>> /\ xmodem_block' = 0 /\ xmodem_ack' = "NAK"
  BY DEF StartLoad, ResetReceiver
<1>2. Len(file) \in Nat
  BY LenProperties, XmodemAssumption DEF XmodemAssumption
<1> QED
  BY <1>1, <1>2 DEF FileInv, StreamIsFile, AckedInv

LEMMA FileEndAttempt ==
  ASSUME XmodemInv, FileInv, EndAttempt
  PROVE  FileInv'
<1>1. file \in Files /\ file' = file
  BY DEF XmodemInv, SenderInv, EndAttempt, senderVars
<1>2. CASE StartLoad
  <2>1. ResetReceiver
    BY <1>2 DEF EndAttempt, StartLoad
  <2> QED
    BY <1>1, <1>2, <2>1, FileStartLoad
<1>3. CASE pc' = "image" /\ stream' = stream
  BY <1>1, <1>3 DEF FileInv, StreamIsFile, AckedInv
<1> QED
  BY <1>2, <1>3 DEF EndAttempt, EndLoad

LEMMA FileStep ==
  ASSUME LoaderInv, SaneHeaders, FaithfulLine, ShortFiles, ControlBytes,
         XmodemInv, WireInv, FileInv, XmodemAction
  PROVE  FileInv'
<1>1. CASE Call
  <2>1. InLoop /\ file' = file /\ xmodem_block' = xmodem_block
        /\ (xmodem_ack' = "NAK" \/ xmodem_ack' = xmodem_ack)
        /\ (Stop \/ UNCHANGED loaderVars)
    BY <1>1 DEF Call, xmodemVars, senderVars, receiverVars
  <2> QED
    BY <2>1 DEF Stop, loaderVars, InLoop, FileInv, StreamIsFile, AckedInv
<1>2. CASE ReceiveByte
  BY <1>2, FileReceiveByte
<1>3. CASE ReceiveTimeout
  <2>1. Retry /\ InLoop /\ UNCHANGED <<xmodem_ack, xmodem_block, file>>
    BY <1>3 DEF ReceiveTimeout, ReturnZero, senderVars, XmodemInv, ReceiverInv
  <2> QED
    BY <2>1 DEF Retry, Advance, InLoop, FileInv, StreamIsFile, AckedInv
<1>4. CASE EndAttempt
  BY <1>4, FileEndAttempt
<1>5. CASE XmodemImageReturns
  <2>1. StartLoad /\ ResetReceiver /\ file \in Files /\ file' = file
    BY <1>5 DEF XmodemImageReturns, ImageReturns, senderVars, XmodemInv, SenderInv
  <2> QED
    BY <2>1, FileStartLoad
<1>6. CASE SenderReplies \/ StartSender \/ LineFault \/ Tick
  <2>1. UNCHANGED <<pc, stream, xmodem_ack, xmodem_block, file>>
    BY <1>6 DEF SenderReplies, StartSender, LineFault, Tick,
                receiverVars, senderVars, loaderVars
  <2> QED
    BY <2>1 DEF FileInv, StreamIsFile, AckedInv
<1> QED
  BY <1>1, <1>2, <1>3, <1>4, <1>5, <1>6 DEF XmodemAction

LEMMA WireInitInv ==
  ASSUME rx = <<>>, toReceiver = <<>>
  PROVE  WireInv
<1>1. rx \o toReceiver = <<>>
  OBVIOUS
<1> QED
  BY <1>1, NoPackets DEF WireInv

LEMMA FileInitInv ==
  ASSUME XmodemInit
  PROVE  WireInv /\ FileInv
<1>1. WireInv
  BY WireInitInv DEF XmodemInit
<1>2. /\ stream = <<>> /\ xmodem_block = 0 /\ xmodem_ack = "NAK"
      /\ file \in Files
  BY DEF XmodemInit, LoaderInit
<1>3. Len(file) \in Nat
  BY <1>2, LenProperties, XmodemAssumption DEF XmodemAssumption
<1>4. FileInv
  BY <1>2, <1>3 DEF FileInv, StreamIsFile, AckedInv
<1> QED
  BY <1>1, <1>4

LEMMA FileInvariant ==
  SaneHeaders /\ FaithfulLine /\ ShortFiles /\ ControlBytes
    => (XmodemSpec => [](WireInv /\ FileInv))
<1> SUFFICES ASSUME SaneHeaders, FaithfulLine, ShortFiles, ControlBytes
             PROVE  XmodemSpec => [](WireInv /\ FileInv)
  OBVIOUS
<1>1. XmodemInit => WireInv /\ FileInv
  BY FileInitInv
<1>2. LoaderInv /\ XmodemInv /\ WireInv /\ FileInv /\ [XmodemNext]_vars
      => (WireInv /\ FileInv)'
  <2> SUFFICES ASSUME LoaderInv, XmodemInv, WireInv, FileInv, [XmodemNext]_vars
               PROVE  WireInv' /\ FileInv'
    OBVIOUS
  <2>1. CASE XmodemNext
    <3>1. XmodemAction
      BY <2>1 DEF XmodemNext, Receiver, XmodemAction
    <3> QED
      BY <3>1, WireStep, FileStep
  <2>2. CASE UNCHANGED vars
    <3>1. UNCHANGED xmodemVars /\ UNCHANGED <<pc, stream, xmodem_ack, xmodem_block, file>>
      BY <2>2 DEF vars, xmodemVars, receiverVars, senderVars, loaderVars
    <3>2. WireInv'
      BY <3>1, WireStep
    <3> QED
      BY <3>1, <3>2 DEF FileInv, StreamIsFile, AckedInv
  <2> QED
    BY <2>1, <2>2
<1>3. XmodemSpec => [](LoaderInv /\ XmodemInv)
  BY XmodemInvariant
<1> QED
  BY <1>1, <1>2, <1>3, PTL DEF XmodemSpec

\* The image in memory grows as the file does, whatever replies the line loses
\* and however often the sender starts again (xmodem.c, lines 89 to 120).
THEOREM ReceivedIsFile ==
  SaneHeaders /\ FaithfulLine /\ ShortFiles /\ ControlBytes
    => (XmodemSpec => []StreamIsFile)
<1>1. FileInv => StreamIsFile
  BY DEF FileInv
<1> QED
  BY <1>1, FileInvariant, PTL

\* An ACK that is pending stands for the file in memory, up to the block it
\* answers: the number is that of the last block taken, which StreamIsFile
\* says is the file's, and everything taken is still where it was put.
LEMMA AckedIsInMemory ==
  ASSUME SaneHeaders, ShortFiles, LoaderInv, WholeHeaderKept, XmodemInv, FileInv
  PROVE  AckAfterBlock
<1> SUFFICES ASSUME pc = "loop", xmodem_ack = "ACK"
             PROVE  /\ stream # <<>>
                    /\ xmodem_block = Len(stream) % ByteMod
                    /\ \A k \in 1 .. Len(stream) : mem[PlaceOf(k)] = file[k]
  BY DEF AckAfterBlock
<1>1. /\ stream # <<>> /\ xmodem_block = Len(stream)
      /\ Len(stream) <= Len(file)
      /\ \A i \in 1 .. Len(stream) : stream[i] = file[i]
  BY DEF FileInv, AckedInv, StreamIsFile
<1>2. /\ Len(stream) \in Nat /\ HeaderSize \in Nat /\ HeaderSize >= 1
      /\ Len(file) \in Nat /\ Len(file) + 1 < ByteMod - 1 - SOH
      /\ ByteMod \in Nat /\ SOH \in Nat
  <2>1. stream \in Seq(Data) /\ file \in Files
    BY DEF LoaderInv, LoaderTypeOK, XmodemInv, SenderInv
  <2>2. file \in Seq(Byte) /\ Len(file) + 1 < ByteMod - 1 - SOH
    BY <2>1, XmodemAssumption DEF XmodemAssumption, ShortFiles
  <2>3. SOH \in Nat /\ ByteMod \in Nat
    BY XmodemSizes DEF Byte
  <2> QED
    BY <2>1, <2>2, <2>3, LenProperties, AddressMap
<1>3. Len(stream) = Len(stream) % ByteMod
  <2> DEFINE n == Len(stream)
  <2>1. n \in Nat /\ n < ByteMod /\ ByteMod \in Nat
    BY <1>1, <1>2
  <2> HIDE DEF n
  <2>2. n = n % ByteMod
    BY <2>1
  <2> QED
    BY <2>2 DEF n
<1>4. ASSUME NEW k \in 1 .. Len(stream) PROVE mem[PlaceOf(k)] = file[k]
  <2>1. stream[k] = file[k] /\ stream[1] = file[1]
    BY <1>1, <1>2
  <2>2. CASE k <= HeaderSize
    BY <1>2, <2>1, <2>2 DEF WholeHeaderKept, PlaceOf
  <2>3. CASE k > HeaderSize
    <3>1. Len(stream) >= HeaderSize /\ k \in HeaderSize + 1 .. Len(stream)
      BY <1>2, <2>3
    <3>2. mem[LoadBase(stream[1]) + k - HeaderSize - 1] = stream[k]
      BY <3>1 DEF LoaderInv, ImageInv
    <3>3. ~(k <= HeaderSize)
      BY <1>2, <2>3
    <3> QED
      BY <2>1, <3>2, <3>3 DEF PlaceOf
  <2> QED
    BY <1>2, <2>2, <2>3
<1> QED
  BY <1>1, <1>3, <1>4

\* A block is acknowledged, the first time or as the previous one sent again,
\* only if this attempt took it, and memory holds the file up to it
\* (xmodem.c, lines 92 to 96 and 107 to 120).
THEOREM AcksAreForBlocks ==
  SaneHeaders /\ FaithfulLine /\ ShortFiles /\ ControlBytes
    => (XmodemSpec => []AckAfterBlock)
<1> SUFFICES ASSUME SaneHeaders, FaithfulLine, ShortFiles, ControlBytes
             PROVE  XmodemSpec => []AckAfterBlock
  OBVIOUS
<1>1. XmodemSpec => [](LoaderInv /\ XmodemInv)
  BY XmodemInvariant
<1>2. XmodemSpec => []WholeHeaderKept
  BY XmodemIsLoader, HeaderStays, PTL
<1>3. XmodemSpec => [](WireInv /\ FileInv)
  BY FileInvariant
<1>4. LoaderInv /\ WholeHeaderKept /\ XmodemInv /\ FileInv => AckAfterBlock
  BY AckedIsInMemory
<1> QED
  BY <1>1, <1>2, <1>3, <1>4, PTL

-----------------------------------------------------------------------------
(***************************************************************************)
(* Both sources: each still keeps the contract of get_block() when the one *)
(* hands over to the other, at any moment the switch is thrown.  With      *)
(* media that keep what they hold, no attempt takes from both, and what is *)
(* called is an image of one of them: the loader implements Boot.          *)
(***************************************************************************)

\* The receiver is only ever called once the sweep of flash is over.
HandoverInv == receiving => xmodem_enabled

NanoBootInv == LoaderInv /\ NandInv /\ XmodemInv /\ HandoverInv

LEMMA NanoBootInitInv == NanoBootInit => NanoBootInv
<1> SUFFICES ASSUME NanoBootInit PROVE NanoBootInv
  OBVIOUS
<1>1. LoaderInv /\ NandInv /\ XmodemInv
  BY NandInitInv, XmodemInitInv DEF NanoBootInit
<1>2. HandoverInv
  BY DEF NanoBootInit, XmodemInit, HandoverInv
<1> QED
  BY <1>1, <1>2 DEF NanoBootInv

\* A block from flash leaves the receiver as it is, outside any call.
LEMMA BlockFromFlashStep ==
  ASSUME NanoBootInv, SaneHeaders, BlockFromFlash
  PROVE  LoaderNext /\ NandInv' /\ XmodemInv' /\ HandoverInv'
<1>1. NandGetBlock /\ UNCHANGED xmodemVars /\ ~receiving
  BY DEF BlockFromFlash, NandGetBlock, NanoBootInv, HandoverInv
<1>2. LoaderNext /\ NandInv'
  BY <1>1, NandKeepsContract, NandGetBlockInv DEF NanoBootInv, LoaderNext
<1>3. XmodemInv'
  <2>1. XmodemInv
    BY DEF NanoBootInv
  <2>2. ReceiverInv'
    BY <1>1, <2>1 DEF XmodemInv, ReceiverInv, xmodemVars, receiverVars
  <2>3. LineInv' /\ SenderInv'
    BY <1>1, <2>1
       DEF XmodemInv, LineInv, SenderInv, xmodemVars, lineVars, senderVars
  <2> QED
    BY <2>2, <2>3 DEF XmodemInv
<1>4. HandoverInv'
  BY <1>1 DEF HandoverInv, xmodemVars, receiverVars
<1> QED
  BY <1>2, <1>3, <1>4

\* Once the sweep is over, nothing the flash reader relies on can change.
LEMMA FlashDone ==
  ASSUME NandInv, xmodem_enabled, UNCHANGED nandVars
  PROVE  NandInv' /\ HandoverInv'
<1>1. /\ flash' = flash /\ nand_base' = nand_base
      /\ xmodem_enabled' = xmodem_enabled /\ sw11' = sw11
  BY DEF nandVars
<1> QED
  BY <1>1 DEF NandInv, HandoverInv

LEMMA BlockFromLineStep ==
  ASSUME NanoBootInv, SaneHeaders, BlockFromLine
  PROVE  [LoaderNext]_loaderVars /\ NandInv' /\ XmodemInv' /\ HandoverInv'
<1>1. NandInv' /\ HandoverInv'
  BY FlashDone DEF BlockFromLine, NanoBootInv
<1>2. [LoaderNext]_loaderVars /\ XmodemInv'
  BY CallStep, ReceiveByteStep, ReceiveTimeoutStep DEF BlockFromLine, NanoBootInv
<1> QED
  BY <1>1, <1>2

LEMMA AfterLoop ==
  ASSUME NanoBootInv, NextAttempt \/ AfterImage
  PROVE  LoaderNext /\ NandInv' /\ XmodemInv' /\ HandoverInv'
<1>1. EndAttempt \/ XmodemImageReturns
  BY DEF NextAttempt, AfterImage
<1>2. LoaderNext /\ XmodemInv'
  BY <1>1, AfterLoopStep DEF NanoBootInv
<1>3. UNCHANGED nandVars /\ (EndLoad \/ ImageReturns)
  BY DEF NextAttempt, AfterImage, EndAttempt, XmodemImageReturns
<1>4. NandInv'
  BY <1>3, NandUndisturbed DEF NanoBootInv
<1>5. receiving' = receiving
  BY <1>1 DEF EndAttempt, XmodemImageReturns
<1>6. HandoverInv'
  BY <1>3, <1>5 DEF NanoBootInv, HandoverInv, nandVars
<1> QED
  BY <1>2, <1>4, <1>6

LEMMA OutsideStep ==
  ASSUME NanoBootInv, Outside
  PROVE  UNCHANGED loaderVars /\ NandInv' /\ XmodemInv' /\ HandoverInv'
<1>1. CASE ToggleSwitch /\ UNCHANGED xmodemVars
  <2>1. UNCHANGED <<loaderVars, flash, nand_base, xmodem_enabled, xmodemVars>>
    BY <1>1 DEF ToggleSwitch
  <2>2. stream' = stream /\ sw11' \in BOOLEAN
    BY <1>1, <2>1 DEF ToggleSwitch, loaderVars, NanoBootInv, NandInv
  <2>3. NandInv'
    BY <2>1, <2>2 DEF NanoBootInv, NandInv
  <2>4. XmodemInv'
    BY <2>1, XmodemStutter DEF NanoBootInv
  <2>5. HandoverInv'
    BY <2>1 DEF NanoBootInv, HandoverInv, xmodemVars, receiverVars
  <2> QED
    BY <2>1, <2>3, <2>4, <2>5
<1>2. CASE (SenderReplies \/ StartSender \/ LineFault \/ Tick) /\ UNCHANGED nandVars
  <2>1. UNCHANGED loaderVars /\ XmodemInv'
    BY <1>2, SenderRepliesStep, StartSenderStep, LineFaultStep, TickStep DEF NanoBootInv
  <2>2. NandInv'
    BY <1>2, <2>1, NandUndisturbed DEF NanoBootInv
  <2>3. receiving' = receiving
    BY <1>2 DEF SenderReplies, StartSender, LineFault, Tick, receiverVars
  <2>4. HandoverInv'
    BY <1>2, <2>3 DEF NanoBootInv, HandoverInv, nandVars
  <2> QED
    BY <2>1, <2>2, <2>4
<1> QED
  BY <1>1, <1>2 DEF Outside

LEMMA NanoBootStep ==
  ASSUME NanoBootInv, SaneHeaders, [NanoBootNext]_allVars
  PROVE  [LoaderNext]_loaderVars /\ NanoBootInv'
<1>1. [LoaderNext]_loaderVars /\ NandInv' /\ XmodemInv' /\ HandoverInv'
  <2>1. CASE UNCHANGED allVars
    <3>1. UNCHANGED <<loaderVars, nandVars, xmodemVars>>
      BY <2>1 DEF allVars
    <3>2. NandInv' /\ XmodemInv'
      BY <3>1, NandUndisturbed, XmodemStutter DEF NanoBootInv
    <3>3. HandoverInv'
      BY <3>1 DEF NanoBootInv, HandoverInv, nandVars, xmodemVars, receiverVars
    <3> QED
      BY <3>1, <3>2, <3>3
  <2>2. CASE NanoBootNext
    BY <2>2, BlockFromFlashStep, BlockFromLineStep, AfterLoop, OutsideStep DEF NanoBootNext
  <2> QED
    BY <2>1, <2>2
<1>2. LoaderInv'
  BY <1>1, LoaderNextInv DEF NanoBootInv
<1> QED
  BY <1>1, <1>2 DEF NanoBootInv

\* The invariants of the core loop and of both sources hold together, and no
\* call of the receiver is under way before the sweep of flash is over.
THEOREM NanoBootInvariant == SaneHeaders => (NanoBootSpec => []NanoBootInv)
<1> SUFFICES ASSUME SaneHeaders PROVE NanoBootSpec => []NanoBootInv
  OBVIOUS
<1>1. NanoBootInit => NanoBootInv
  BY NanoBootInitInv
<1>2. NanoBootInv /\ [NanoBootNext]_allVars => NanoBootInv'
  BY NanoBootStep
<1> QED
  BY <1>1, <1>2, PTL DEF NanoBootSpec

\* The boot loader is main.c with a source that keeps the contract of
\* get_block(): handing over in the middle of an image does not break it.
THEOREM NanoBootIsLoader == SaneHeaders => (NanoBootSpec => LoaderSpec)
<1> SUFFICES ASSUME SaneHeaders PROVE NanoBootSpec => LoaderSpec
  OBVIOUS
<1>1. NanoBootInit => LoaderInit
  BY DEF NanoBootInit, NandInit
<1>2. NanoBootInv /\ [NanoBootNext]_allVars => [LoaderNext]_loaderVars
  BY NanoBootStep
<1>3. NanoBootSpec => []NanoBootInv
  BY NanoBootInvariant
<1> QED
  BY <1>1, <1>2, <1>3, PTL DEF NanoBootSpec, LoaderSpec

\* Whatever the flash holds, the line delivers and the user does with the
\* switch: an image that runs was received completely, by one header.
THEOREM OnlyCompleteImagesBoot == SaneHeaders => (NanoBootSpec => []ImageComplete)
BY NanoBootIsLoader, OnlyCompleteImagesRun, PTL
-----------------------------------------------------------------------------
(* Where the blocks come from *)

\* Once the line is the source, what has been received is from the file, but for
\* an attempt that was cut off when it took over, and that runs nothing.
SourceInv ==
  xmodem_enabled => FileInv \/ (StreamIsFlashed /\ pc = "end" /\ base < data_end)

SourcesInv == FlashInv /\ WireInv /\ SourceInv

\* Both media keep what they hold.
SaneMedia == SaneHeaders /\ SaneFlash /\ FaithfulLine /\ ShortFiles /\ ControlBytes

LEMMA SourcesInitInv ==
  ASSUME SaneMedia, NanoBootInit
  PROVE  SourcesInv
<1>1. FlashInv
  BY FlashInitInv DEF NanoBootInit, SaneMedia
<1>2. WireInv /\ FileInv
  BY FileInitInv DEF NanoBootInit
<1> QED
  BY <1>1, <1>2 DEF SourcesInv, SourceInv

\* Flash is left in the middle of an attempt, which then runs nothing.
LEMMA SourcesBlockFromFlash ==
  ASSUME NanoBootInv, SaneMedia, SourcesInv, BlockFromFlash
  PROVE  SourcesInv'
<1>1. NandGetBlock /\ UNCHANGED xmodemVars /\ ~xmodem_enabled /\ flash' = flash /\ InLoop
  BY DEF BlockFromFlash, NandGetBlock
<1>2. FlashInv'
  BY <1>1, FlashGetBlockInv DEF NanoBootInv, SaneMedia, SourcesInv
<1>3. WireInv'
  BY <1>1, WireStep DEF NanoBootInv, SaneMedia, SourcesInv
<1>4. xmodem_enabled' => ~Eof /\ Stop
  BY <1>1 DEF NandGetBlock
<1>5. base \in Nat /\ data_end \in Nat
  BY AddressMap DEF NanoBootInv, LoaderInv, LoaderTypeOK
<1>6. SourceInv'
  <2> SUFFICES ASSUME xmodem_enabled' PROVE (StreamIsFlashed /\ pc = "end" /\ base < data_end)'
    BY DEF SourceInv
  <2>1. pc' = "end" /\ UNCHANGED <<base, data_end, stream>>
    BY <1>4 DEF Stop
  <2>2. base < data_end
    BY <1>1, <1>4, <1>5 DEF InLoop, Eof
  <2>3. StreamIsFlashed
    BY <1>1 DEF SourcesInv, FlashInv
  <2>4. StreamIsFlashed'
    BY <1>1, <2>1, <2>3, FlashUnchanged DEF StreamIsFlashed
  <2> QED
    BY <2>1, <2>2, <2>4
<1> QED
  BY <1>2, <1>3, <1>6 DEF SourcesInv

LEMMA SourcesBlockFromLine ==
  ASSUME NanoBootInv, SaneMedia, SourcesInv, BlockFromLine
  PROVE  SourcesInv'
<1>1. /\ xmodem_enabled /\ xmodem_enabled' = xmodem_enabled /\ flash' = flash
      /\ XmodemAction /\ pc = "loop"
  BY DEF BlockFromLine, XmodemAction, nandVars, Call, ReceiveByte, ReceiveTimeout,
         InLoop, NanoBootInv, XmodemInv, ReceiverInv
<1>2. WireInv'
  BY <1>1, WireStep DEF NanoBootInv, SaneMedia, SourcesInv
<1>3. FileInv
  BY <1>1 DEF SourcesInv, SourceInv
<1>4. FileInv'
  BY <1>1, <1>3, FileStep DEF NanoBootInv, SaneMedia, SourcesInv
<1> QED
  BY <1>1, <1>2, <1>4 DEF SourcesInv, SourceInv, FlashInv

LEMMA SourcesAfterLoop ==
  ASSUME NanoBootInv, SaneMedia, SourcesInv, NextAttempt \/ AfterImage
  PROVE  SourcesInv'
<1>1. /\ EndLoad \/ ImageReturns
      /\ EndAttempt \/ XmodemImageReturns
      /\ UNCHANGED nandVars /\ XmodemAction /\ xmodem_enabled' = xmodem_enabled
  BY DEF NextAttempt, AfterImage, EndAttempt, XmodemImageReturns, XmodemAction, nandVars
<1>2. FlashInv'
  BY <1>1, FlashRestInv DEF NanoBootInv, SaneMedia, SourcesInv
<1>3. WireInv'
  BY <1>1, WireStep DEF NanoBootInv, SaneMedia, SourcesInv
<1>4. ASSUME xmodem_enabled PROVE FileInv'
  <2>1. CASE FileInv
    BY <1>1, <2>1, FileStep DEF NanoBootInv, SaneMedia, SourcesInv
  <2>2. CASE pc = "end" /\ base < data_end
    <3>1. base \in Nat /\ data_end \in Nat
      BY AddressMap DEF NanoBootInv, LoaderInv, LoaderTypeOK
    <3>2. ~(base >= data_end)
      BY <2>2, <3>1
    <3>3. EndAttempt /\ StartLoad
      BY <1>1, <2>2, <3>2 DEF XmodemImageReturns, ImageReturns, EndAttempt, EndLoad
    <3>4. ResetReceiver /\ file \in Files /\ file' = file
      BY <3>3 DEF EndAttempt, StartLoad, senderVars, NanoBootInv, XmodemInv, SenderInv
    <3> QED
      BY <3>3, <3>4, FileStartLoad
  <2> QED
    BY <1>4, <2>1, <2>2 DEF SourcesInv, SourceInv
<1> QED
  BY <1>1, <1>2, <1>3, <1>4 DEF SourcesInv, SourceInv

LEMMA SourcesKept ==
  ASSUME NanoBootInv, SaneMedia, SourcesInv,
         UNCHANGED loaderVars, UNCHANGED <<flash, nand_base, xmodem_enabled>>,
         UNCHANGED <<xmodem_ack, xmodem_block, file>>,
         XmodemAction \/ UNCHANGED xmodemVars
  PROVE  SourcesInv'
<1>1. UNCHANGED <<pc, base, data_end, mem, stream>>
  BY DEF loaderVars
<1>2. FlashInv'
  BY <1>1, FlashKeptInv DEF NanoBootInv, SaneMedia, SourcesInv
<1>3. WireInv'
  BY WireStep DEF NanoBootInv, SaneMedia, SourcesInv
<1>4. FileInv' <=> FileInv
  BY <1>1 DEF FileInv, StreamIsFile, AckedInv
<1>5. StreamIsFlashed' <=> StreamIsFlashed
  BY <1>1, FlashUnchanged DEF StreamIsFlashed
<1>6. SourceInv'
  BY <1>1, <1>4, <1>5 DEF SourcesInv, SourceInv
<1> QED
  BY <1>2, <1>3, <1>6 DEF SourcesInv

LEMMA SourcesStep ==
  ASSUME NanoBootInv, SaneMedia, SourcesInv, [NanoBootNext]_allVars
  PROVE  SourcesInv'
<1>1. CASE Outside \/ UNCHANGED allVars
  <2>1. /\ UNCHANGED loaderVars /\ UNCHANGED <<flash, nand_base, xmodem_enabled>>
        /\ UNCHANGED <<xmodem_ack, xmodem_block, file>>
        /\ XmodemAction \/ UNCHANGED xmodemVars
    BY <1>1 DEF Outside, ToggleSwitch, SenderReplies, StartSender, LineFault, Tick,
         XmodemAction, allVars, nandVars, xmodemVars, receiverVars, senderVars
  <2> QED
    BY <2>1, SourcesKept
<1> QED
  BY <1>1, SourcesBlockFromFlash, SourcesBlockFromLine, SourcesAfterLoop DEF NanoBootNext

LEMMA SourcesInvariant ==
  SaneMedia => (NanoBootSpec => [](NanoBootInv /\ SourcesInv))
<1> SUFFICES ASSUME SaneMedia PROVE NanoBootSpec => [](NanoBootInv /\ SourcesInv)
  OBVIOUS
<1>1. NanoBootInit => SourcesInv
  BY SourcesInitInv
<1>2. NanoBootInv /\ SourcesInv /\ [NanoBootNext]_allVars => SourcesInv'
  BY SourcesStep
<1>3. NanoBootSpec => []NanoBootInv
  BY NanoBootInvariant DEF SaneMedia
<1> QED
  BY <1>1, <1>2, <1>3, PTL DEF NanoBootSpec

\* An attempt has received nothing but what flash holds, or nothing but what the
\* file holds: it never goes on with the other one (nand.c, lines 27 to 35).
THEOREM AttemptsHaveOneSource ==
  SaneMedia => (NanoBootSpec => []OneSource)
<1>1. NanoBootInv /\ SourcesInv => OneSource
  BY DEF NanoBootInv, NandInv, SourcesInv, SourceInv, FlashInv, FileInv, OneSource
<1> QED
  BY <1>1, SourcesInvariant, PTL
-----------------------------------------------------------------------------
(* What nanoboot promises *)

\* The cells behind the header.
LEMMA ImageCells ==
  ASSUME NEW cells \in Seq(Data), NEW n \in Nat, Len(cells) >= HeaderSize + n
  PROVE  LET image == SubSeq(cells, HeaderSize + 1, HeaderSize + n)
         IN  /\ image \in Seq(Data) /\ Len(image) = n
             /\ \A i \in 1 .. n : image[i] = cells[HeaderSize + i]
<1> DEFINE a == HeaderSize + 1
           b == HeaderSize + n
<1>1. Len(cells) \in Nat /\ HeaderSize \in Nat
  BY AddressMap, LenProperties
<1>2. a \in Nat /\ b \in Nat /\ a <= b + 1 /\ a = HeaderSize + 1 /\ b = HeaderSize + n
  BY <1>1
<1>3. \A i \in a .. b : cells[i] \in Data
  BY <1>1, ElementOfSeq
<1> HIDE DEF a, b
<1>4. /\ SubSeq(cells, a, b) \in Seq(Data)
      /\ Len(SubSeq(cells, a, b)) = (IF a <= b THEN b - a + 1 ELSE 0)
      /\ \A i \in 1 .. b - a + 1 : SubSeq(cells, a, b)[i] = cells[a + i - 1]
  BY <1>2, <1>3, SubSeqProperties
<1>5. b - a + 1 = n /\ (IF a <= b THEN b - a + 1 ELSE 0) = n
  BY <1>1, <1>2
<1>6. \A i \in 1 .. n : a + i - 1 = HeaderSize + i
  BY <1>1, <1>2
<1> DEFINE image == SubSeq(cells, HeaderSize + 1, HeaderSize + n)
<1>7. image = SubSeq(cells, a, b)
  BY <1>2
<1> HIDE DEF image
<1>8. /\ image \in Seq(Data) /\ Len(image) = n
      /\ \A i \in 1 .. n : image[i] = cells[HeaderSize + i]
  BY <1>4, <1>5, <1>6, <1>7
<1> QED
  BY <1>8 DEF image

\* An image that is about to run is the one the stream holds.
LEMMA ImageReceived ==
  ASSUME NanoBootInv, SaneHeaders, base >= data_end
  PROVE  /\ stream \in Seq(Data) /\ HoldsImage(stream)
         /\ RunningImage = ImageIn(stream)
<1>1. /\ stream \in Seq(Data) /\ Len(stream) \in Nat
      /\ base \in Nat /\ data_end \in Nat /\ HeaderSize \in Nat /\ HeaderSize >= 1
  BY AddressMap, LenProperties DEF NanoBootInv, LoaderInv, LoaderTypeOK
<1>2. Len(stream) >= HeaderSize
  BY <1>1, HalfHeaderIsNoEnd DEF NanoBootInv
<1> DEFINE h == stream[1]
           n == Length[h]
           start == LoadBase(h)
<1>3. /\ IsHeader[h] /\ Header = h
      /\ base = start + Len(stream) - HeaderSize
      /\ data_end = start + n
      /\ \A i \in HeaderSize + 1 .. Len(stream) :
           mem[start + i - HeaderSize - 1] = stream[i]
  BY <1>2 DEF NanoBootInv, LoaderInv, ImageInv
<1>4. h \in Data /\ stream # <<>>
  BY <1>1, <1>2, ElementOfSeq
<1>5. start \in Nat /\ n \in Nat
  BY <1>3, <1>4, HeaderFields
<1>6. RunningImage = [i \in 1 .. n |-> mem[start + i - 1]]
  BY <1>3 DEF RunningImage, Entry
<1> HIDE DEF h, n, start
<1>7. Len(stream) >= HeaderSize + n
  BY <1>1, <1>3, <1>5
<1>8. HoldsImage(stream)
  BY <1>3, <1>4, <1>7 DEF HoldsImage, h, n
<1> DEFINE image == SubSeq(stream, HeaderSize + 1, HeaderSize + n)
           run == [i \in 1 .. n |-> mem[start + i - 1]]
<1>9. /\ image \in Seq(Data) /\ Len(image) = n
      /\ \A i \in 1 .. n : image[i] = stream[HeaderSize + i]
  BY <1>1, <1>5, <1>7, ImageCells
<1>10. ASSUME NEW i \in 1 .. n PROVE mem[start + i - 1] = stream[HeaderSize + i]
  <2> DEFINE k == HeaderSize + i
  <2>1. k \in HeaderSize + 1 .. Len(stream) /\ start + k - HeaderSize - 1 = start + i - 1
    BY <1>1, <1>5, <1>7
  <2>2. mem[start + k - HeaderSize - 1] = stream[k]
    BY <1>3, <2>1
  <2> QED
    BY <2>1, <2>2
<1>11. run = image
  <2> HIDE DEF image
  <2>1. \A i \in 1 .. n : run[i] = image[i]
    BY <1>9, <1>10
  <2>2. \A i \in 1 .. n : mem[start + i - 1] \in Data
    <3> SUFFICES ASSUME NEW i \in 1 .. n PROVE mem[start + i - 1] \in Data
      OBVIOUS
    <3>1. image[i] \in Data
      BY <1>5, <1>9, ElementOfSeq
    <3> QED
      BY <1>9, <1>10, <3>1
  <2>3. run \in Seq(Data) /\ Len(run) = n
    BY <1>5, <2>2
  <2> HIDE DEF run
  <2> QED
    BY <1>9, <2>1, <2>3, SeqEqual
<1> QED
  BY <1>1, <1>6, <1>8, <1>11 DEF ImageIn, h, n

\* What is read from flash holds an image only if the flash does.
LEMMA ImageFromFlash ==
  ASSUME StreamIsFlashed, HoldsImage(stream)
  PROVE  ImageIn(stream) \in FlashImages
<1>1. stream # <<>>
  BY DEF HoldsImage
<1>2. PICK p \in 1 .. Pages : stream \in Readings(p)
  BY <1>1 DEF StreamIsFlashed
<1>3. ImageIn(stream) \in Images(Readings(p))
  BY <1>2 DEF Images
<1> QED
  BY <1>3 DEF FlashImages

\* And what is received from the line only if the file does.
LEMMA ImageFromFile ==
  ASSUME NanoBootInv, SaneHeaders, StreamIsFile, stream \in Seq(Data), HoldsImage(stream)
  PROVE  ImageIn(stream) \in FileImages
<1>1. /\ file \in Seq(Data) /\ Len(file) \in Nat /\ Len(stream) \in Nat
      /\ Len(stream) <= Len(file)
      /\ \A i \in 1 .. Len(stream) : stream[i] = file[i]
      /\ HeaderSize \in Nat /\ HeaderSize >= 1
  <2>1. file \in Seq(Data)
    BY XmodemAssumption DEF XmodemAssumption, NanoBootInv, XmodemInv, SenderInv
  <2> QED
    BY <2>1, AddressMap, LenProperties DEF StreamIsFile
<1> DEFINE h == stream[1]
           n == Length[h]
<1>2. stream # <<>> /\ IsHeader[h] /\ Len(stream) >= HeaderSize + n
  BY DEF HoldsImage
<1>3. 1 \in 1 .. Len(stream)
  BY <1>1, <1>2, EmptySeq
<1>4. file[1] = h /\ h \in Data
  BY <1>1, <1>3, ElementOfSeq
<1>5. n \in Nat
  <2>1. h \in Data /\ IsHeader[h]
    BY <1>2, <1>4
  <2> HIDE DEF h
  <2> QED
    BY <2>1, HeaderFields
<1>6. file # <<>>
  BY <1>1, <1>3
<1> HIDE DEF h, n
<1>7. Len(file) >= HeaderSize + n
  BY <1>1, <1>2, <1>5
<1>8. HoldsImage(file)
  BY <1>2, <1>4, <1>6, <1>7 DEF HoldsImage, n
<1>9. ImageIn(file) = ImageIn(stream)
  <2> DEFINE there == SubSeq(file, HeaderSize + 1, HeaderSize + n)
             here  == SubSeq(stream, HeaderSize + 1, HeaderSize + n)
  <2>1. /\ there \in Seq(Data) /\ Len(there) = n
        /\ \A i \in 1 .. n : there[i] = file[HeaderSize + i]
    BY <1>1, <1>5, <1>7, ImageCells
  <2>2. /\ here \in Seq(Data) /\ Len(here) = n
        /\ \A i \in 1 .. n : here[i] = stream[HeaderSize + i]
    BY <1>2, <1>5, ImageCells
  <2>3. \A i \in 1 .. n : file[HeaderSize + i] = stream[HeaderSize + i]
    BY <1>1, <1>2, <1>5
  <2>4. there = here
    <3> HIDE DEF there, here
    <3> QED
      BY <2>1, <2>2, <2>3, SeqEqual
  <2> QED
    BY <1>4, <2>4 DEF ImageIn, h, n
<1> QED
  BY <1>8, <1>9 DEF FileImages, Images

\* An image that is about to run is on the medium in use.
LEMMA ImageIsStored ==
  ASSUME NanoBootInv, SaneMedia, SourcesInv, base >= data_end
  PROVE  RunningImage \in (IF xmodem_enabled THEN FileImages ELSE FlashImages)
<1>1. /\ stream \in Seq(Data) /\ HoldsImage(stream)
      /\ RunningImage = ImageIn(stream)
  BY ImageReceived DEF SaneMedia
<1>2. CASE xmodem_enabled
  <2>1. base \in Nat /\ data_end \in Nat
    BY AddressMap DEF NanoBootInv, LoaderInv, LoaderTypeOK
  <2>2. StreamIsFile
    BY <1>2, <2>1 DEF SourcesInv, SourceInv, FileInv
  <2> QED
    BY <1>1, <1>2, <2>2, ImageFromFile DEF SaneMedia
<1>3. CASE ~xmodem_enabled
  <2>1. StreamIsFlashed
    BY <1>3 DEF SourcesInv, FlashInv
  <2> QED
    BY <1>1, <1>3, <2>1, ImageFromFlash
<1> QED
  BY <1>2, <1>3

\* The state of the abstract specification.
Medium  == IF xmodem_enabled THEN "line" ELSE "flash"
Holding == [flash |-> FlashImages, line |-> FileImages]
Running == IF pc = "image" THEN {RunningImage} ELSE {}

LEMMA MediaKept ==
  ASSUME flash' = flash, file' = file
  PROVE  Holding' = Holding
<1>1. FlashImages' = FlashImages
  BY FlashUnchanged DEF FlashImages
<1>2. FileImages' = FileImages
  BY DEF FileImages
<1> QED
  BY <1>1, <1>2 DEF Holding

LEMMA PromiseStep ==
  ASSUME NanoBootInv, SaneMedia, SourcesInv, [NanoBootNext]_allVars
  PROVE  [Promise!Next]_Promise!bootVars
<1> SUFFICES \/ Promise!Next
             \/ UNCHANGED <<Medium, Holding, Running>>
  BY DEF Promise!bootVars, Medium, Holding, Running
<1>1. flash' = flash /\ file' = file
  BY DEF NanoBootNext, BlockFromFlash, BlockFromLine, NextAttempt, AfterImage, Outside,
     NandGetBlock, Call, ReceiveByte, ReceiveTimeout, EndAttempt, XmodemImageReturns,
     ToggleSwitch, SenderReplies, StartSender, LineFault, Tick,
     allVars, nandVars, xmodemVars, senderVars
<1>2. Holding' = Holding
  BY <1>1, MediaKept
<1>3. CASE BlockFromFlash
  <2>1. /\ ~xmodem_enabled /\ pc = "loop" /\ pc' # "image"
        /\ xmodem_enabled' \in BOOLEAN
    BY <1>3 DEF BlockFromFlash, NandGetBlock, InLoop, ReadHalf, JudgeHalf,
         Stop, Retry, Took, Advance, NanoBootInv, NandInv
  <2>2. Running = {} /\ Running' = {}
    BY <2>1 DEF Running
  <2>3. CASE ~xmodem_enabled'
    BY <1>2, <2>1, <2>2, <2>3 DEF Medium
  <2>4. CASE xmodem_enabled'
    <3>1. Promise!LeaveFlash
      BY <1>2, <2>1, <2>2, <2>4 DEF Promise!LeaveFlash, Medium, Holding, Running
    <3> QED
      BY <3>1 DEF Promise!Next
  <2> QED
    BY <2>3, <2>4
<1>4. CASE BlockFromLine
  <2>1. xmodem_enabled' = xmodem_enabled /\ pc = "loop" /\ pc' # "image"
    <3>1. Call \/ ReceiveByte \/ ReceiveTimeout
      BY <1>4 DEF BlockFromLine
    <3>2. pc = "loop"
      BY <3>1 DEF Call, ReceiveByte, ReceiveTimeout, InLoop, NanoBootInv, XmodemInv, ReceiverInv
    <3>3. Returns \/ Stop \/ UNCHANGED loaderVars
      BY <3>1, ReceiveByteReturns, ReceiveTimeoutReturns
      DEF Call, NanoBootInv, XmodemInv, SaneMedia
    <3> QED
      BY <1>4, <3>2, <3>3
      DEF BlockFromLine, nandVars, loaderVars, Returns, Took, Retry, Stop, Advance
  <2>2. Running = {} /\ Running' = {}
    BY <2>1 DEF Running
  <2> QED
    BY <1>2, <2>1, <2>2 DEF Medium
<1>5. CASE NextAttempt
  <2>1. xmodem_enabled' = xmodem_enabled /\ EndLoad /\ pc # "image"
    BY <1>5 DEF NextAttempt, EndAttempt, EndLoad, nandVars
  <2>2. Medium' = Medium /\ Running = {}
    BY <2>1 DEF Medium, Running
  <2>3. CASE StartLoad
    <3>1. Running' = {}
      BY <2>3 DEF StartLoad, Running
    <3> QED
      BY <1>2, <2>2, <3>1
  <2>4. CASE base >= data_end /\ pc' = "image" /\ mem' = mem
    <3>1. RunningImage \in (IF xmodem_enabled THEN FileImages ELSE FlashImages)
      BY <2>4, ImageIsStored
    <3>2. Holding[Medium] = IF xmodem_enabled THEN FileImages ELSE FlashImages
      BY DEF Holding, Medium
    <3>3. RunningImage' = RunningImage
      BY <2>4 DEF RunningImage, Header, Entry
    <3>4. Running' = {RunningImage}
      BY <2>4, <3>3 DEF Running
    <3>5. RunningImage \in Holding[Medium]
      BY <3>1, <3>2
    <3>6. Promise!RunImage
      BY <1>2, <2>2, <3>4, <3>5 DEF Promise!RunImage, Medium, Holding, Running
    <3> QED
      BY <3>6 DEF Promise!Next
  <2> QED
    BY <2>1, <2>3, <2>4 DEF EndLoad
<1>6. CASE AfterImage
  <2>1. xmodem_enabled' = xmodem_enabled /\ pc = "image" /\ pc' = "loop"
    BY <1>6 DEF AfterImage, XmodemImageReturns, ImageReturns, StartLoad, nandVars
  <2>2. Medium' = Medium /\ Running = {RunningImage} /\ Running' = {}
    BY <2>1 DEF Medium, Running
  <2>3. Promise!ImageReturns
    BY <1>2, <2>2 DEF Promise!ImageReturns, Medium, Holding, Running
  <2> QED
    BY <2>3 DEF Promise!Next
<1>7. CASE Outside \/ UNCHANGED allVars
  <2>1. UNCHANGED loaderVars /\ xmodem_enabled' = xmodem_enabled
    BY <1>7 DEF Outside, ToggleSwitch, SenderReplies, StartSender, LineFault, Tick,
         allVars, nandVars
  <2>2. Medium' = Medium /\ Running' = Running
    BY <2>1 DEF loaderVars, Medium, Running, RunningImage, Header, Entry
  <2> QED
    BY <1>2, <2>2
<1> QED
  BY <1>3, <1>4, <1>5, <1>6, <1>7 DEF NanoBootNext

\* nanoboot runs nothing but images as the flash or the file holds them, flash
\* first, and never one that was begun from flash and finished from the line
\* (nand.c, lines 14 to 35, main.c, lines 54 to 98).
THEOREM PromiseIsKept == SaneMedia => (NanoBootSpec => KeepsPromise)
<1> SUFFICES ASSUME SaneMedia PROVE NanoBootSpec => Promise!Spec
  BY DEF KeepsPromise
<1>1. NanoBootInit => Promise!Init
  BY DEF NanoBootInit, NandInit, LoaderInit, Promise!Init
<1>2. NanoBootInv /\ SourcesInv /\ [NanoBootNext]_allVars
        => [Promise!Next]_Promise!bootVars
  BY PromiseStep
<1>3. NanoBootSpec => [](NanoBootInv /\ SourcesInv)
  BY SourcesInvariant
<1> QED
  BY <1>1, <1>2, <1>3, PTL DEF NanoBootSpec, Promise!Spec

=============================================================================

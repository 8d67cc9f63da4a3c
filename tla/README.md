# nanoboot in TLA+

nanoboot is the first program an NXP PNX8950 set-top board runs. It looks for an
image (U-Boot, Linux) in NAND flash and, when there is none or switch SW1.1 is
on, takes one over the serial line with Xmodem. It replaces a program in a small
EEPROM and is the board's last line of defence: "the board is now unbrickable"
(`README.md`, line 12). These modules model how it does that, check it on small
instances with TLC, and prove the central parts with TLAPS for instances of any
size.

Paths below are relative to the sources; `main.c:97` is line 97 of that file.

## Inventory

| component | sources | keeps | operations |
|---|---|---|---|
| core loop | `main.c`, `header.h` | `base`, `data_end`, `expect_header`, memory | get a block; switch from header to image; end an attempt; call the image; go on when it returns |
| flash reader | `nand.c` | `nand_base`, `xmodem_enabled`, and the page it left in memory | read half a page; skip a bad one; hand over to Xmodem |
| ECC correction | `ecc.c` | nothing between calls | correct one bit of half a page, or say that it cannot |
| Xmodem receiver | `xmodem.c` | `xmodem_ack`, `xmodem_block`, `xmodem_timeout` | answer and listen; judge a frame; time out; end |
| hardware access | `hw.h`, `hw_pollinboard.h` | UART buffers, timer, switch, flash interface | macros, inlined where they are used |
| start-up, caches | `start.S`, `init.c`, `cache.h`, `boot.x` | CP0 registers, caches | invalidate and enable once; flush before an image is called |
| boot script compiler | `eecompile/` | the script, the optimiser's pending instruction | parse; optimise; assemble; check the size |
| output formats | `eecompile/src/output/`, `bpsend.pl` | nothing | lay out the bytes for a programmer; add the dummy byte |
| boot scripts | `*.ee` | nothing | data: register values of the board |
| EEPROM installer | `install.c` | chip address, page address, the EEPROM | write the EEPROM page by page |
| image decompressor | `compress/` | bit reader, code tables, output | check a package, inflate it, check the result, call it |
| Windows CE launcher | `bootce/` | its own | an image that nanoboot may call |
| example applications | `apps/` | nothing | print registers and memory |
| build scripts | `Makefile`s, `*.awk`, `*.pl` | nothing | run when building |

### How they interact

The core loop calls `get_block()` and gets back a length, 0 for "again", or a
negative status. `get_block()` is `nand_get_block()`, which delegates to
`xmodem_get_block()` once its sweep over the flash has ended. All three share
memory: a source stores at `base` before it knows whether it will accept what it
stores, the flash reader leaves a whole page at `base` and finds its second half
there in the next call, and the core loop reads the header out of the same
memory whenever it needs it. The other interactions are with the world: the
sender at the end of the line, the line's faults, the timer, and a user who
throws the switch and restarts the transfer at any time. Within the board
nothing runs concurrently: no interrupts, no threads.

The compiler produces the bytes that the board's boot module executes before
nanoboot runs, and nanoboot itself is a part of that script (`load`). The
installer, or a bus pirate with lines from the compiler, puts them into the
EEPROM. The decompressor is an image that nanoboot loads like any other; it
carries the real image with it.

### What is hard, and what makes each part correct

* **Core loop.** An attempt ends in one of five ways, and only one may call the
  image. The loop reads one block beyond the image, so the same status is
  harmless there and fatal one block earlier. *Correct*: a running image was
  delivered completely, lies where its header says, and is entered there; the
  switch from header to image happens once.
* **Flash reader.** A sweep that outlives attempts; calls that depend on memory
  left by the one before; verdicts that must end an attempt but not the sweep.
  *Correct*: what is delivered is what the flash holds, in order and without
  gaps; bad pages are skipped; an intact copy is found behind a damaged one; the
  sweep ends.
* **ECC.** Table constants and masks whose errors show for a few bytes at a few
  positions. *Correct*: every single error is corrected, every double one is
  reported, and a good bit is never flipped.
* **Xmodem.** Lost, altered and invented bytes, lost replies, answers crossing
  timeouts, a sender that belongs to another attempt. *Correct*: memory grows as
  the file does; an acknowledged block is in memory, with all before it; an attempt
  that has gone quiet ends; a file that is sent ends up running.
* **Both sources together.** The handover can come at any half-page of an image.
  *Correct*: no image is pieced together from both media.
* **Compiler.** The optimiser merges and drops instructions while it reads on.
  *Correct*: the board does the same, and the result is no longer.
* **Caches.** At power-up their contents are random, stores stay in the data
  cache, and instructions are fetched past it. *Correct*: a load returns what was
  stored last, and what the CPU executes is the image as it was received.
* **Installer.** Faults and power cuts between pages leave a new beginning and an
  old end; a page address of eight bits wraps where the chip address moves on.
  *Correct*: after a run that reports `ok` the EEPROM holds the file; after any
  number of failed ones, one that works repairs it.
* **Decompressor.** One bit too many or too few shifts everything behind it, and
  `puff()` is built without checks of its buffers. *Correct*: it stays in step
  with the compressor, nothing but the image that was packed is called, and damage is
  noticed before `puff()` relies on what it reads.

`PROJECT.json` lists the single hazards, each with its line.

## Modules

| module | models | extends |
|---|---|---|
| `Loader` | `main.c` with any block source that keeps the contract of `get_block()` | |
| `Nand` | `nand.c` as that source | `Loader` |
| `Xmodem` | `xmodem.c` as that source, with sender, line and clock | `Loader` |
| `Boot` | what nanoboot promises, without blocks and retries | |
| `NanoBoot` | both sources behind one `get_block()`; a refinement of `Boot` | `Nand`, `Xmodem` |
| `Cache` | the CPU's caches, `cache.h`, and the core loop running on them | `Loader` |
| `Ecc` | `ecc_correct()` | |
| `Script` | the boot script compiler and the board that executes its output | |
| `Install` | the installer, the bus pirate, the EEPROM and the reset that reads it | |
| `Inflate` | `puff()` | |
| `Crc32` | `crc32.c` | |
| `Decompress` | `main()` of the decompressor, and `gzip2deflate.pl` | `Inflate`, `Crc32` |
| `Deflate` | external: what a compressor writes, and the CRC as polynomial division | |
| `Induction` | induction over the naturals, and that recursive functions exist | |
| `LoaderProofs`, `InstallProofs` | theorems about `Loader`, `Install` | these |
| `ScriptProofs` | theorems about `Script` | `Script`, `Induction` |
| `CacheProofs` | theorems about `Cache` | `Cache`, `LoaderProofs` |
| `EccProofs` | theorems about `Ecc` | `Ecc`, `Induction` |
| `NanoBootProofs` | theorems about `Nand`, `Xmodem` and `NanoBoot`, in three parts | `NanoBoot`, `LoaderProofs`, `Induction` |
| `DecompressProofs` | theorem about `Decompress` and its CRC | `Decompress`, `Induction` |
| `MC*` | constants for TLC | the module they check |

Operators named after a mutation of another one (`EndLoadAlwaysCalls`,
`JudgeFrameUnnumbered`, ...), marked "Mutant" in their comment, are not part of
the model. They are plausible bugs, and each property is known to fail when the
definition it guards is replaced by one of them.

### Loader

`base`, `data_end` and `expect_header` are the variables of
`load_and_call_image()`. `pc` is `"loop"` at the head of the loop, `"end"` after
a `break`, and `"image"` while the image runs. One `GetBlock` step is one
turn of the loop: the call, `base += res`, and the switch to the load address
(`Advance`). `EndLoad` is everything behind the loop and up to the next turn of
`_main()`; `ImageReturns` is an image that returned, which may leave anything
from a set of contents in memory. `stream` is history: the cells accepted since
the header began. No guard reads it.

Memory counts in *cells*: the smallest unit a source delivers (128 bytes of an
Xmodem block, 256 of a half-page). A cell holds one value, and `IsHeader`,
`Length` and `LoadAddr` say what the header fields of that value would be.
Addresses wrap around at `AddrMod`, as 32-bit ones do, and DRAM is the upper half
of them, so that `loadaddr | DRAM_BASE` is `OrDramBase`. `Infinity` (0xffff0000)
is the last address.

The contract of `get_block()` is in `Scribbles` (only `Scratch` cells from
`base` on are written, accepted or not) and `Deliverable` (a first block is a
header, and header blocks do not overshoot its end). That `nand.c` and
`xmodem.c` keep it is checked, not assumed: see *Refinement*.

### Nand

`NandGetBlock` is one call of `nand_get_block()`: the end of the image, the
handover, or `ReadHalf`, which fetches the page if the call is on its first half
(`PageDump`: 512 bytes of data and the OOB bytes behind them), steps
`nand_base` on, looks at the bad-block mark, corrects, and judges. `Oob` is the
place where a call looks for the OOB bytes: behind the page, if the page was read
to the address this call assumes. Any cell of memory can be looked at as OOB
bytes, which is what the reader does after an abort in the middle of a page.
`Marked`, `EccErrors` and `EccFixed` stand for the test of the mark and for
`ecc_correct()`. `Delegate` is `xmodem_get_block()` with nobody at the other end.

### Xmodem

A block carries one byte, and bytes have three bits: a frame is `SOH`, number,
complement, data, checksum. The receiver takes the line byte by byte and can
lose its place in it, as the code does. `Call` is the entry of
`xmodem_get_block()` (the ten-second timeout, the reply); `ReceiveByte` one turn
of its loop, with the verdict on byte 0 (`EOT`, not `SOH`) and on the whole frame
(`JudgeFrame`, in the order of the code's tests); `ReceiveTimeout` the hidden
`return` in `UART_RX_TIMEOUT`. `quiet` and `waited` are the time since
`xmodem_timeout` and `timeout_start` were set, in ticks. The timer counts modulo
`TimerMod` (2^32), and `TimedOut` compares as `TIMER_TIMED_OUT` does: both sides
are shifted left by one bit, so that after half a turn (`HalfTurn`) the elapsed
time reads as zero. `quiet` stops counting there, and starts with any value, as
`xmodem_timeout` is never initialised. Data bytes go to memory when they arrive, before the frame is
judged.

The sender, the line and the user are external: the sender answers a `NAK` with
the same packet and an `ACK` with the next; the line loses, cuts, alters and
invents; the user may stop the sender and start it again.

### NanoBoot and Boot

`NanoBoot` joins the two: blocks come from flash until `xmodem_enabled`, and from
the line after that, with `xmodem_init()` before every attempt. `Boot` knows two
media, the images on each, and the one that is running. The refinement mapping
takes the images on flash from its pages, those of the line from the file, and
the running one from memory at its entry point.

### Cache

`cached` is false until `init.c` has overwritten the tags of the data cache
(`DCACHE_INIT`), invalidated both caches and enabled them; `index` is the entry
that the loop of `cache_init()` or `cache_flush()` is at, so that each entry is a
step of its own. A store goes to the line, if there is one, and to memory
otherwise; `Replace` is the hardware replacing a line of the data
cache at any time, writing back the one that is there, and `Fetch` one of the
instruction cache. `mem` is what a program sees and `dram` what the chips
hold. `ImageReturns` keeps both caches as they are. A line holds one cell.

### Ecc

The code's variables, shifts, masks and table constants are kept, one step per
byte and one per repacked bit. A byte or a word is the set of the positions of its
ones: exclusive or is the symmetric difference, `&` and `|` are intersection and
union, and `Shl` and `Shr` drop what leaves the 32 bits. Where the code uses a
word as a number and back, `Value` and `Digits` convert. What the writer of the
flash stored (`StoredEcc`) is defined the textbook way, by the parity of all
ones whose address has a given bit, and so is independent of the tables.
`original` and `flips` are history: what was written, and the bits that have
changed since.

### Script

`Visit` is one turn of the loop of `optimize()`, with the pending instruction in
`prevIns`; `AddHalt` is what follows the loop, `NothingToEnd` the same for an
empty script, `Compile` one turn of `Script.compile()`, `WriteOutput` the
size check of `Compiler.main()`, and `BoardStep` an instruction executed by the
board's boot module, decoded from the words that the EEPROM has room for. `Run` is the effect of an
instruction: register writes, each with the time slept since the one before.
`Effects` and `Positions` are the boards and the numbers of words after each
instruction of a script; `Effect` and `Size` those at its end.
Addresses are not checked against the module table (`checkOffset()`) and have no
upper bound, so more scripts compile here than in the code.
Sleeps are ints, as `parseInt()` and the unit conversion leave them; their
arithmetic wraps around (`ToInt`).

### Install

The steps of the installer are those between which it can fail: the probe of the
chip, reading a page (after which "writing xyz" is printed), writing it, and the
delay. A system call fails with or without a part of its effect, the chip is busy
programming for as long as it likes and does not answer then, and the power
supply fails at any step of a run, leaving anything in the page being programmed. After `ok` it
does not: a page that the chip is still programming then counts as written. After a
failure the user runs the installer again; after a power cut the board may not
start any more, and the bus pirate writes the file from outside
(`BusPirateLines`, `BusPirateFormatter.java`). `Boot` is the reset that may
overwrite address 0, for which `ImageFormatter.java` adds the dummy byte. `addr`
wraps at `ChipSize` as the code's `unsigned char` does.

### Inflate, Crc32 and Decompress

One step of `Inflate` is a block header, a code length, the construction of the
two codes, a literal or a copy; `incnt`, `bitbuf` and `bitcnt` are the variables
of the bit reader. `Construct` and `Decode` are the functions of the same name,
with counts per length instead of their loops. Every error that `puff()` returns
is there; the tests for the end of input and output are not, since the code is
compiled without them. `SkipHeader` takes files that `gzip2deflate.pl` accepts: the three
errors it dies of make no package. `Decompress` is the order of the checks in `main()`.
`Crc32` follows the table of `crc32.c`, a word being the set of its one-bits.
`Deflate` says what the other end does: canonical codes, the tables of lengths and
distances by their rule, the run-length code of code lengths, and the CRC as the
remainder of a division of polynomials. It shares no table with `Inflate` but the
order of the code length codes.

## Runs

| run | instance | shows |
|---|---|---|
| `loader_cached` | any source of blocks, caches with garbage | an image is only called when complete, whatever a source delivers, refuses or cuts off; the caches are not noticed, and what is executed was received |
| `nand` | all beginnings of four pages of 8 kinds; two copies of an image, damaged in all ways | what is assembled is what the flash holds; bad pages are skipped; the contract is kept; an intact copy boots; the sweep ends in any case |
| `xmodem` | one fault of any kind anywhere; the sender may stop at any byte | memory grows as the file; the contract is kept; an attempt past its first block ends, before the timer wraps |
| `nanoboot` | 3-page flashes, a file, two losses, the switch | `Boot` is implemented; no image from two media; a file that is sent runs |
| `ecc` | all pairs of flips of ten blocks | one error corrected, two reported |
| `script` | scripts of up to three statements | the optimised script has the same effect and is no longer |
| `install` | files of six lengths, two faults | what the EEPROM holds at every point of every run; the file is installed in the end |
| `decompress` | intact, malformed, mismatched and damaged packages | `puff()` stays in step with the compressor; every package gets the verdict it should; damage to a sealed package is refused |
| `zero_load_address`, `nand_bad_erased`, `xmodem_long_file`, `script_merged_sleeps` | | disagreements between comments and code, see below |

### Bounds, and why they are enough

* `loader_cached`: six cells of DRAM, headers of two cells, blocks of one, images
  right behind the header and further on. Two cache entries, direct-mapped for
  data and fully associative for instructions, whose garbage includes lines that
  pass for dirty, for cells of the image. Two entries are enough for one to be
  replaced while the other is flushed; that the number and the mapping do not
  matter is proved.
* `nand`: an image of three half-pages behind its header takes two and a half
  pages with its header, so in four pages it may begin on the first or
  second, with a bad or broken page before, inside or behind it, and the flash
  may end in it. All mixtures are checked, in front of two erased pages. Pages
  that are marked bad *and* erased are left out here and are the subject of
  `nand_bad_erased`. In addition, six pages hold two copies and a bad page in
  every position, with damage that leaves one copy or none. No header announces
  so much that a damaged image has an intact copy in its range: such an image is
  given up only behind the beginning of the copy, which the sweep then misses.
  Copies of one image never overlap so; for other flashes `BootsIntactCopy` shows
  nothing. It says that an image runs, not which.
* `xmodem`: a file of three blocks (the image) and one that is not an image; one
  fault of every kind at every byte, with one start of the sender at any time.
  A fault costs at most a frame and the resynchronisation that follows, so its
  effects end before a second one would matter to the numbering; numbers wrap at
  8 and `xmodem_long_file` has a file that makes them wrap. The timer is as short
  as the timeouts allow (`XmodemAssumption`), so that half a turn is within reach.
* `nanoboot`: three pages of five kinds (the first one of the three on which an
  image can begin or a bad page be passed), a file of three blocks, two cuts or
  lost replies.
* `ecc`: four bytes (`RowBits` 2) instead of 256; all tables and masks depend on
  the width only through the number of row bits. Parities are linear in the data,
  so ten blocks suffice that use all table entries; `EccProofs` proves this and
  needs neither bound. One or two flips: the code promises nothing for more.
* `script`: all sequences of up to three of 13 statements, among them files,
  repeated registers, unaligned addresses and sleeps that overflow. A merge
  involves the pending instruction and the next one; three statements give runs of
  up to six instructions. An int has eight bits, a sleep four.
* `install`: two chip addresses of two pages of two bytes; files that end in a
  page, with a page, with a chip and with the EEPROM, each in two versions that
  differ in every byte. Two faults let a second run fail on what the first left.
* `decompress`: the widths and tables are those of the code. Files of up to three
  tokens with all complete codes of up to four bits; every length and the
  distances up to 256, with the lowest and highest value of their extra bits;
  rows of up to three blocks that refer to one another; every error `puff()`
  returns, in several ways; two packages with each bit flipped, each byte
  inverted and neighbours swapped; all combinations of optional header fields.
  Distances beyond 256 need output that is too long to check and use the same
  two tables.
* `LineCap`, `ReplyCap`: bytes and replies on the line. The sender waits while
  the line is full and replies beyond `ReplyCap` are dropped, which is what the
  UART does. `MaxFaults` and `MaxRestarts` bound faults and starts of the sender.

Deadlock is checked in all runs but those of `Ecc` and `Script`, which model
functions that return.

### Refinement

The runs `nand` and `xmodem` check `LoaderSpec` as a property: every step of the
flash reader and of the receiver is a step of the core loop with a source that
keeps the contract, or leaves its variables alone. What is proved about `Loader`
therefore holds for both, and TLAPS proves the same for all instances (below),
for the two sources together, and for the core loop on the caches. `nanoboot`
checks `KeepsPromise`, that is `Boot!Spec` under the mapping.

### Fairness

* The loader never waits: a call returns or goes on polling, and interrupts are
  off. So its actions are weakly fair (`NandFairness`, `ReceiverFairness`,
  `NanoBootFairness`).
* `Tick` is strongly fair. The polling loop takes time, so the timer moves on
  if the receiver listens again and again, though each wait may be ended by a
  byte before the tick.
* In `nanoboot` the sender is up, is started, and answers (weak fairness).
  `Recovers` is about a user who is there; `AttemptEnds` (`xmodem`)
  assumes nothing of the sender.
* `FastLine` in `nanoboot`: a byte or reply on the line arrives before the
  one-second timeout; at 38400 baud a frame takes 35 ms. Without it a sender
  could answer too late each time and never be heard, and the code promises
  nothing then. The run `xmodem` has `FastLine = FALSE`.
* `install` (`InstallFairness`): the installer runs on, the chip gets ready, and
  the user follows the advice to run it again, or takes the bus pirate. Faults
  are bounded, so they end. `Install` itself is not fair: nobody has to start.
* The switch, faults and the return of an image are not fair: they may never
  happen.

## Theorems

`LoaderProofs` proves, for every memory size, block size, set of cell values and
header fields (`LoaderAssumption`), and under the hypothesis `SaneHeaders`:

* `LoaderInvariant`: `LoaderInv` is an invariant. `ImageComplete` is
  not inductive; that the image is complete when it is called follows from where
  `base` and `data_end` were during all of the attempt. `LoaderInv` says it in
  two parts: while fewer cells than a header have been accepted, they lie
  at the header's address, `base` is right behind them and `data_end` is infinite
  (`HeaderInv`); after that `base` and `data_end` are those of this header and
  every accepted cell is in its place (`ImageInv`). `FirstBlockInv` ties in
  `expect_header`, the left-over of the last turn.
* `LoaderTypeCorrect`, `OnlyCompleteImagesRun` (`ImageComplete`): consequences.
* `LoadMovesForward` (`MovesForward`): an action property, from the same
  invariant.

`SaneHeaders` says that an image is loaded behind its header and ends, with a
block to spare, below the top of the address space. The code does not check
this, and it is needed: with a load address that makes the data cross the
header's end, the switch is made again in the middle of the data, and a length
that wraps around makes the loop end at once. It enters as a hypothesis of the
theorems and not as an assumption on the constants, so that the runs can
leave it out.

The first two parts of `NanoBootProofs` prove, again under `SaneHeaders`, that the two
sources keep the contract of `get_block()`: `NandIsLoader`, `XmodemIsLoader`
(`NandSpec => LoaderSpec`, `XmodemSpec => LoaderSpec`), whatever flash holds,
whatever the error correction makes of it, and whatever bytes arrive. The steps
go through the contract: a call writes only to its window (`ReadHalfMemory`,
`StoreDataFrame`) and what it delivers is `Deliverable` (`HalfDeliverable`,
`BlockDeliverable`). That needs the core loop's invariant, which says where `base`
is and that there is room behind it (`BaseInDram`), and one fact per source: half
a header is received in whole half-pages (`NandInv`), and the byte loop runs inside a call
(`ReceiverInv`). `NandTypeCorrect`, `XmodemTypeCorrect`,
`FlashRunsCompleteImages` and `ReceivesCompleteImages` (`ImageComplete`) follow.

`TenSecondsAreNoticed` (`TimeoutBeforeWrap`) proves the arithmetic of the timer
for all timeouts with `Long + Short + 2 <= TimerMod / 2`, which the code's ten and
one seconds meet (3375 ticks a millisecond, 32 bits): since the last block no more
time passes than the long timeout and the one call that may be waiting when it
expires (`QuietInv`).

**What the sources deliver.** `FlashStreamIsFlashed` (`StreamIsFlashed`) and
`FlashSkipsBadPages` (`BadPagesSkipped`) hold under the further hypothesis
`SaneFlash`: the OOB bytes of a page that is marked bad are followed by a second
half that reads as marked too, as the second call on a page may look there; and
what lies in the place of the OOB bytes where a header is expected is not the
ECC of a header in front of it. `nand.c` cannot check either; a bad page that is
erased breaks the first (`nand_bad_erased`). The invariant `FlashInv` says that
while an image is assembled, the stream is all that is readable since some page,
and that the second call on a page finds in memory what the first one left
there; and that between two images nothing in memory passes for a header.
`Flashed` is defined by recursion over the half-pages; that such a function has
the value its definition names is proved from `RecursionExists` (`Induction`),
where induction is stated with sets in place of predicates.

`ReceivedIsFile` (`StreamIsFile`) says that the stream is the file's beginning, and
`AcksAreForBlocks` (`AckAfterBlock`) that while an ACK is pending the number is that
of the last block taken and memory holds the file up to it, header and data each
in its place (`PlaceOf`). They need

* `FaithfulLine`: what arrives was sent; replies get lost, and the user stops the
  sender and starts it again at any byte, any number of times. A frame of which
  two bytes are altered, or the rest of one followed by another, can pass both
  checks of the code, which are a complement and a sum, so for arbitrary faults the
  properties are false. `xmodem` checks them for one fault of every other kind;
* `ShortFiles`: numbers do not wrap around, and stay below the complement of `SOH`,
  which a receiver that has lost its place can take for one: in eight bits, files
  of up to 252 blocks. With longer files a sender that belongs to another attempt
  can be one whole round of numbers away, and the properties are false, as
  `xmodem_long_file` shows;
* `ControlBytes`: `SOH` and `EOT` are not each other's complement, nor their own,
  which is so for 1 and 4 in eight bits.

The invariant is in two parts. `WireInv` (`Packets`): the bytes on the line, and
those of the call that is being received, are the packets of the file one after
another, but for the first, of which the beginning may be missing. Each byte has a
place in its frame (`Places`), which makes the statement local: a step of the
sender or the receiver adds or removes bytes at one end. `OnlySentFrames` concludes
that a frame the receiver accepts, wherever it begins to read, was sent.
`FileInv`: the number of the last block is the length of the stream, so a block
with the next number is the next one of the file, one with the same number is a
repetition, and all others are refused. That the blocks are still in memory
when they are acknowledged is the core loop's doing: `ImageInv` has the data, and
`HeaderStays` (`LoaderProofs`) proves that of the header all cells stay, since what a
source writes lies behind them (`HeaderOutsideWindow`); `XmodemIsLoader` carries it over.

The third part puts both together: `HandoverInv` says that the receiver is not
in a call while flash is read, and each source's lemmas about its own steps do the
rest. `NanoBootIsLoader` and `OnlyCompleteImagesBoot` (`ImageComplete`) hold
for every moment at which the switch may be thrown. `AttemptsHaveOneSource`
(`OneSource`) and the refinement `PromiseIsKept` (`KeepsPromise`) hold under all
the hypotheses above (`SaneMedia`). `SourceInv` says that after the handover the
stream is either the beginning of a file, or what was read from flash by an
attempt that has been cut off and will not call anything. A call of an image is
`RunImage` because the stream is then complete (`ImageInv`), what memory holds at
the entry is the stream, and the stream is what the medium holds; the handover is
`LeaveFlash`, the return of an image `ImageReturns`, and all other steps stutter.

`CacheProofs` needs no hypothesis for `CachedLoaderIsLoader` (`CacheSpec =>
LoaderSpec`), `CacheInvariant` and `DataCacheUnseen` (`LoadsSeeStores`): they hold
for any header, number of entries and mapping, and any garbage. The invariant says
that lines in the data cache hold what the program sees, that memory is right
for every cell no dirty line holds, and how far the loops of
initialisation and flush have come; that the flush has passed an entry is
what makes `ExecutesImage` true when the image is called (`ImageIsExecuted`,
with `SaneHeaders`).

`EccProofs` proves all properties of `Ecc`, for every content of a half-page, every
place of the errors, and 2 to 256 bytes (`EccAssumption`): `EccTypeCorrect`,
`ParityIsAccumulated` (`ParitySoFar`), `EccVerdict` (`Verdict`) and the action
property `RepairsOnly` (`OnlyRepairs`). TLC cannot come near: there are 2^2048
contents. The argument is in three steps.

* *The tables are parities.* `Tables` shows what the two constants hold for each
  nibble, `TablesOfByte` that a byte thereby adds the parities of its columns, and
  `ByteFlips` that the masks add its own parity to the rows of its index. So each
  turn of the loop adds the ones of one byte (`ByteAdded`), and the overall parity
  completes the other half of the digits (`FirstAndLastByte`).
* *What was written cancels out.* The parity of a set is linear in the symmetric
  difference (`OddSymDiff`), data and stored bits are those of the same half-page,
  and what is left after the comparison is the `Syndrome` of the flips alone
  (`SyndromeLeft`, `LastBitCompared`).
* *The syndrome tells one flip from two.* That of a data bit is its address and the
  complement of it (`DataSyndrome`), that of an ECC bit is this bit
  (`EccSyndrome`), and that of two flips is the sum of theirs, which is neither
  complementary nor a single bit (`TwoFlips`). `Corrected` shows that the address is
  taken apart into the byte and the bit that were flipped (`ValueOfDigits`: no two
  numbers have the same digits).

The invariant `EccInv` states the second step for every turn of the two loops
(`AddingBytes`, `ComparingBits`) and the syndrome when the verdict is due; neither
`Verdict` nor `ParitySoFar` says anything of the comparison in between.

`DecompressProofs` proves `DamageIsRefused` (`DamageRefused`): a package that differs
from one whose CRC is right only within four neighbouring bytes, those of the CRC
itself included, is refused before `puff()` starts. This holds for packages of any
size and content; all that is assumed of them is that they are bytes and at least
as long as a CRC (`PackagesAssumption`). It is the property that `main()` depends on most,
as `puff()` is built without checks of its input. The state invariant is simple
(`SourceInv`: what gets past the check is sealed); the work is in the CRC:

* *The table is eight shifts.* A shift adds, in the sense of exclusive or
  (`ShiftedAdds`), and loses nothing, as the highest bit of the feedback tells
  whether a one was shifted out (`ShiftedNothing`); so do eight of them
  (`EightAdds`, `EightInjective`). `TableIsEightSteps` shows that one turn of the loop
  of `crc32()` is eight shifts, so the table holds what it should.
* *Four bytes are one word.* They change the CRC as if they had been added to it at once
  (`FourAtOnce`, `FourSteps`), one-to-one, so if the values before and behind the
  damage agree, so do the four bytes (`BurstChangesCrc`). Equal bytes lead from
  equal values to equal values, in both directions (`SameByte`).
* *The CRC of a sealed package with its CRC is a constant* (`SealedCrc`), so damage to the
  CRC field is damage like any other (`SealedDifferWidely`).

`InstallProofs` proves all five safety properties of `Install`, for all sizes of
pages, chips and files: `InstallTypeCorrect`, `InstallKeepsOrder` (`NewThenOld`),
`InstallShowsFirst` (`UntouchedUntilShown`), `InstallFailsForAReason` and, under
the hypothesis `FilesFit`, `InstallInstalls` (`Installed`). The invariant
(`InstallInv`) ties the place in the file to the address on the chips and says what
each half of the EEPROM holds at each `pc`. `FilesFit` is needed: the compiler limits the
script to 2048 bytes (`Compiler.java:125`) and not the file, which has a dummy
byte in front, and a file of 2049 bytes would be reported as `ok` by the bus
pirate without its last byte.

`ScriptProofs` proves all four safety properties of `Script`, for every module
table, width of an int and list of scripts. `OptimiserKeepsEffect` (`SameEffect`):
the optimiser's output and the pending instruction together have the effect of the
instructions read. The invariant `OptimiserInv` adds types and that merged sleeps
still fit a word. The main lemmas are `StoresMerge` (the writes of two adjacent
stores are those of the merged one) and `CombineEffect` (for all three kinds of
merges).

`ScriptTypeCorrect`, `BoardRunsScript` (`BoardDoesScript`) and `OptimisedIsNoLonger`
(`NeverLonger`) follow from `CodeInv`, under the hypothesis `ScriptsAreLists`: an int
can count the words of each script, as Java's arrays demand; otherwise the count
of a `FILL` would not fit its word. While the script is compiled, its first
instructions lie in the bytecode at their positions (`Laid`); when the board runs,
it stands at the position of an instruction and has the effect of those before
(`BootingInv`). `Decodes` shows that the board then fetches that instruction and
advances by its length, since the opcodes are in bits that addresses and
sleeps leave free (`StoreOpcodes`, `SleepDecodes`); it finds them all, as the size
was checked. `ReadingInv` counts words: the
output and the pending instruction take no more than what was read, because no
merge costs any (`CombineLength`), and a halt that is read last is merged with the
one that is added (`CombineHalt`).

Only model-checked: liveness (`SweepEnds`, `BootsIntactCopy`, `AttemptEnds`,
`Recovers`, `InstalledInTheEnd`), which TLAPS cannot do under fairness; the
properties of `puff()` (`DecompressTypeOK`, `InStep`, `Verdict`), for
which all inputs would mean induction over the recursive functions that define
what a compressor writes, and what the code's tables hold decides whether it
stays in step; and, for lines that alter, cut or invent bytes, the properties of
the receiver.

## What the models disagree with

With a run that shows it:

* `zero_load_address`: an image with load address zero and less than a header of
  data is called although nothing of it was received. `main.c:77-79` calls the
  case harmless.
* `nand_bad_erased`: half of a page that is marked bad and erased is delivered,
  because the second call looks for the mark in the wrong place (`nand.c:102-105`).
* `xmodem_long_file`: after a timed-out attempt the block numbered 0 modulo 256
  of a sender left over is acknowledged as a repetition (`xmodem.c:92-96`).
* `script_merged_sleeps`: two sleeps that compile are merged into one that does
  not (`SleepInstruction.java:39` and `63`).

Met while modelling, without a run:

* An image with a low load address that is not zero also meets the header's end
  and triggers the switch again (`main.c:71-79` names only zero).
* `base + header->length` wraps around in 32 bits (`main.c:81`).
* `xmodem.c:34-37` says that NAKs are sent once a second only; a byte that is not
  `SOH` returns at once and is answered by the next call, so there is one for
  each such byte.
* `SleepInstruction.java:14-19` has the factors of `us` and `s` exchanged:
  `sleep 1us` is 27000000 ticks, a second. The scripts in the repository use no
  units.
* A sleep from 0x10000000 on loses its upper bits in the shift without an error
  (`SleepInstruction.java:63`).
* `Script.optimize()` throws a null pointer exception on an empty script
  (`Script.java:42`); `Module.isValid()` admits an offset one too large
  (`Module.java`); the usage names `hex` as the default format while the code
  takes the bus pirate one (`Compiler.java`).
* A file that fills the EEPROM is written and then refused, because its end is
  announced by an empty write to a chip that does not exist (`install.c:55`,
  `75`); `FailsForAReason` has it as an exception. A script of 2048 bytes becomes an image of 2049
  (`Compiler.java:125`, `ImageFormatter.java:15`).
* `puff.c:635` says that a complete set of code length codes is required, but
  `construct()` returns 0 for a set without any code, which passes.
* For a script that is too long for the EEPROM the bus pirate format would print a chip
  address of three digits (`BusPirateFormatter.java`).

## Not modelled

* **Text**: progress output, LEDs, parsing of scripts and module tables, the
  binary and hex formats, `bpsend.pl`. No property depends on it.
* **Input that runs out in `puff()`**: a package whose CRC is right but whose data has no
  end of block reads on behind the package. The code leaves out the test on purpose
  (`puff.c` is compiled without it) and the model has no such package. A set of code length codes without
  any code is left out for the same reason.
* **CRC of `gzip2deflate.pl`**: computed by a library of Perl, taken to be right.
  `strip-header.pl`, `crt.c` and the linker scripts lay out the program; they
  have no behaviour of their own.
* **`cache_flush()` in the decompressor** (`decompress.c:71`): the same function that nanoboot
  calls before an image, for the same reason. `Cache` models it there; `Decompress`
  has no caches.
* **Start-up** besides the caches: the other privileged registers `_init()` sets,
  and the addresses of `boot.x`.
* **Two files on one line**: the sender always sends the same one. The receiver
  cannot tell two files apart if a sender is restarted with another within ten
  seconds (`xmodem.c:33`), and nothing says that it could.
* **Single lost bytes and liveness**: `Recovers` is about a line that loses whole frames and replies.
  Every byte that is not `SOH` is answered by a `NAK` (`xmodem.c:69`), and on a line that
  does not pause the exchange may stay out of step for ever.
* **Windows CE launcher, applications, ECC test program**: straight-line programs
  that copy, print, or sample what `EccProofs` proves. **Boot scripts**: data.
  **Build scripts**: no state of the running system.

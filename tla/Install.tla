------------------------------- MODULE Install -------------------------------
(***************************************************************************)
(* Writing the boot script into the EEPROM: the installer (install.c),     *)
(* which writes the file page by page from Linux, the bus pirate with the  *)
(* command lines of BusPirateFormatter, which does it from outside, and    *)
(* the boot module, which reads the script when the board is reset and may *)
(* overwrite the first byte of the EEPROM (ImageFormatter).                *)
(*                                                                         *)
(* The EEPROM answers at Chips addresses of ChipSize bytes and is          *)
(* programmed in pages.  System calls fail, the chip takes too long or the *)
(* power supply is cut off, at most MaxFaults times.                       *)
(***************************************************************************)
EXTENDS Integers, Sequences

CONSTANTS
  Byte,
  Zero,       (* the byte that the boot module leaves at address 0         *)
  PageSize,   (* 16                                                        *)
  ChipSize,   (* 256                                                       *)
  Chips,      (* 8, from address 0x50 on                                   *)
  Files,      (* what is installed: a dummy byte and a boot script         *)
  Contents,   (* what the EEPROM holds at first                            *)
  MaxFaults

Size == Chips * ChipSize

ASSUME InstallAssumption ==
  /\ Zero \in Byte
  /\ PageSize \in Nat \ {0} /\ ChipSize \in Nat /\ Chips \in Nat
  /\ ChipSize > 0 /\ ChipSize % PageSize = 0
  /\ Files \subseteq Seq(Byte) \ {<<>>}
  /\ Contents \subseteq [0 .. Size - 1 -> Byte]
  /\ MaxFaults \in Nat

VARIABLES
  pc,         (* of the installer; "off": the board has no power           *)
  file, pos,  (* the file, and how much of it was read                     *)
  chip_addr,  (* as an offset from BOOT_ADDR                               *)
  addr,       (* an unsigned char                                          *)
  buffer,     (* the data behind the address byte                          *)
  shown,      (* "writing xyz" was printed                                 *)
  num,        (* the number of bytes reported with "ok"                    *)
  eeprom,
  busy,       (* the bytes that the chip is programming; it does not       *)
              (* answer as long as there are any                           *)
  faults,     (* how many so far                                           *)
  before,     (* history: the EEPROM when the installer was started        *)
  faulty      (* history: something has failed since                       *)

installVars == <<pc, file, pos, chip_addr, addr, buffer, shown, num,
                 eeprom, busy, faults, before, faulty>>
locals == <<file, pos, chip_addr, addr, buffer, shown, num>>

Fault == faults < MaxFaults /\ faults' = faults + 1 /\ faulty' = TRUE
NoFault == UNCHANGED <<faults, faulty>>

-----------------------------------------------------------------------------
(* The EEPROM                                                              *)

Answers(chip) == chip < Chips /\ busy = {}

\* The EEPROM e with bytes programmed from a on.
Programmed(e, a, bytes) ==
  [i \in 0 .. Size - 1 |->
     IF i - a \in 0 .. Len(bytes) - 1 THEN bytes[i - a + 1] ELSE e[i]]

\* Where the installer writes.
Target == chip_addr * ChipSize + addr

ChipReady ==
  /\ busy # {}
  /\ busy' = {}
  /\ UNCHANGED <<pc, locals, eeprom, faults, before, faulty>>

-----------------------------------------------------------------------------
(* install.c                                                               *)

\* err(): the message, and exit with an error.
Err == pc' = "failed" /\ UNCHANGED <<locals, eeprom, busy, before>>

Start(f) ==
  /\ pc' = "probe"
  /\ file' = f /\ pos' = 0
  /\ chip_addr' = 0 /\ addr' = 0
  /\ buffer' = <<>> /\ shown' = FALSE /\ num' = 0
  /\ before' = eeprom /\ faulty' = (busy # {})
  /\ UNCHANGED <<eeprom, busy, faults>>

\* Mutant: the probe sends a data byte, too.
ProbeWrites ==
  /\ pc = "probe"
  /\ Answers(0)
  /\ pc' = "read"
  /\ eeprom' = Programmed(eeprom, 0, <<Zero>>)
  /\ UNCHANGED <<locals, busy, before, faults, faulty>>

\* Open the file and the bus, and address the chip: no data is written.
Probe ==
  /\ pc = "probe"
  /\ \/ Answers(0) /\ pc' = "read" /\ NoFault
        /\ UNCHANGED <<locals, eeprom, busy, before>>
     \/ ~Answers(0) /\ NoFault /\ Err
     \/ Fault /\ Err

\* Read a page of the file and announce that it is written.
ReadPage ==
  /\ pc = "read"
  /\ \/ /\ NoFault
        /\ LET end == IF Len(file) < pos + PageSize THEN Len(file) ELSE pos + PageSize
           IN  buffer' = SubSeq(file, pos + 1, end) /\ pos' = end
        /\ shown' = TRUE
        /\ pc' = "write"
        /\ UNCHANGED <<file, chip_addr, addr, num, eeprom, busy, before>>
     \/ Fault /\ Err

\* Write it.  If a write fails, the chip may have got any part of it.
WritePage ==
  /\ pc = "write"
  /\ \/ /\ Answers(chip_addr) /\ NoFault
        /\ eeprom' = Programmed(eeprom, Target, buffer)
        /\ busy' = Target .. Target + Len(buffer) - 1
        /\ pc' = "sleep"
        /\ UNCHANGED <<locals, before>>
     \/ ~Answers(chip_addr) /\ NoFault /\ Err
     \/ /\ Answers(chip_addr) /\ Fault
        /\ \E k \in 0 .. Len(buffer) :
             /\ eeprom' = Programmed(eeprom, Target, SubSeq(buffer, 1, k))
             /\ busy' = Target .. Target + k - 1
        /\ pc' = "failed"
        /\ UNCHANGED <<locals, before>>

\* Mutant: the second chip address is never used.
NextAddressSameChip ==
  addr' = (addr + PageSize) % ChipSize /\ chip_addr' = chip_addr

\* addr += 16, and the next chip when that wraps.
NextAddress ==
  /\ addr' = (addr + PageSize) % ChipSize
  /\ chip_addr' = IF addr' = 0 THEN chip_addr + 1 ELSE chip_addr

\* Mutant: the installer does not wait for the chip.
WaitNot == busy' = busy /\ NoFault

\* usleep(10000), after which the chip is ready, unless it is too slow.
Wait ==
  \/ busy' = {} /\ NoFault
  \/ busy' = busy /\ busy # {} /\ Fault

\* Mutant: the loop goes on until nothing is left to read.
MoreUntilEmpty == buffer # <<>>

\* The file ends with the first page that is not full.
More == Len(buffer) = PageSize

\* Mutant: the number of bytes is taken before the last change of chips.
NumOldChip == chip_addr * ChipSize + (addr' - PageSize) + Len(buffer)

\* The number of bytes written, from the address behind the last page.
Num == chip_addr' * ChipSize + (addr' - PageSize) + Len(buffer)

\* Give the chip time to program the page, and go on to the next one.
Sleep ==
  /\ pc = "sleep"
  /\ Wait
  /\ NextAddress
  /\ \/ More /\ pc' = "read" /\ num' = num
     \/ ~More /\ pc' = "ok" /\ num' = Num
  /\ UNCHANGED <<file, pos, buffer, shown, eeprom, before>>

Installer == Probe \/ ReadPage \/ WritePage \/ Sleep

-----------------------------------------------------------------------------
(* The world around it                                                     *)

\* Power fails; a page that is being programmed holds anything.
PowerFails ==
  /\ pc \in {"probe", "read", "write", "sleep"}
  /\ Fault
  /\ pc' = "off" /\ busy' = {}
  /\ \E junk \in [busy -> Byte] :
       eeprom' = [i \in 0 .. Size - 1 |-> IF i \in busy THEN junk[i] ELSE eeprom[i]]
  /\ UNCHANGED <<locals, before>>

\* The lines of BusPirateFormatter: a start condition with the address
\* wherever a page begins, a stop condition where it ends.
BusPirateLines(f) ==
  {LET i   == p * PageSize
       end == IF Len(f) < i + PageSize THEN Len(f) ELSE i + PageSize
   IN  [chip |-> i \div ChipSize, addr |-> i % ChipSize, data |-> SubSeq(f, i + 1, end)]
     : p \in 0 .. (Len(f) - 1) \div PageSize}

\* The place of byte i in the data of a line, counted from 0.
Offset(line, i) == i - (line.chip * ChipSize + line.addr)
Covers(line, i) == Offset(line, i) \in 0 .. Len(line.data) - 1

\* A board that does not start any more is repaired from outside: every line
\* is written, and no two lines write the same byte.
BusPirate ==
  /\ pc = "off"
  /\ eeprom' = [i \in 0 .. Size - 1 |->
       LET lines == {l \in BusPirateLines(file) : Covers(l, i)}
           line  == CHOOSE l \in lines : TRUE
       IN  IF lines = {} THEN eeprom[i] ELSE line.data[Offset(line, i) + 1]]
  /\ pc' = "ok" /\ num' = Len(file)
  /\ UNCHANGED <<file, pos, chip_addr, addr, buffer, shown, busy, faults, before, faulty>>

\* The board is reset: the boot module sends a 16-bit address, which is a
\* write to address 0 unless the EEPROM is write-protected.
Boot ==
  /\ pc = "ok" /\ busy = {}
  /\ pc' = "booted"
  /\ \/ eeprom' = eeprom
     \/ eeprom' = Programmed(eeprom, 0, <<Zero>>)
  /\ UNCHANGED <<locals, busy, faults, before, faulty>>

\* "run it again": the user installs a file, and tries again if that fails.
Install == pc = "booted" /\ \E f \in Files : Start(f)
InstallAgain == pc = "failed" /\ Start(file)

InstallInit ==
  /\ pc = "booted"
  /\ file = <<>> /\ pos = 0 /\ chip_addr = 0 /\ addr = 0
  /\ buffer = <<>> /\ shown = FALSE /\ num = 0
  /\ eeprom \in Contents /\ before = eeprom
  /\ busy = {}
  /\ faults = 0 /\ faulty = FALSE

InstallNext ==
  \/ Installer \/ ChipReady \/ PowerFails \/ BusPirate \/ Boot
  \/ Install \/ InstallAgain

InstallSpec == InstallInit /\ [][InstallNext]_installVars

\* The chip gets ready, the installer runs on, and the user goes on to try.
InstallFairness ==
  /\ WF_installVars(Installer) /\ WF_installVars(ChipReady)
  /\ WF_installVars(InstallAgain) /\ WF_installVars(BusPirate)

FairInstallSpec == InstallSpec /\ InstallFairness

-----------------------------------------------------------------------------

InstallTypeOK ==
  /\ pc \in {"probe", "read", "write", "sleep", "ok", "failed", "off", "booted"}
  /\ file \in Files \cup {<<>>}
  /\ pos \in 0 .. Len(file)
  /\ chip_addr \in 0 .. Chips /\ addr \in 0 .. ChipSize - 1
  /\ addr % PageSize = 0
  /\ buffer \in Seq(Byte) /\ Len(buffer) <= PageSize
  /\ shown \in BOOLEAN
  /\ num \in Nat
  /\ eeprom \in [0 .. Size - 1 -> Byte] /\ before \in [0 .. Size - 1 -> Byte]
  /\ busy \subseteq 0 .. Size - 1
  /\ faults \in 0 .. MaxFaults /\ faulty \in BOOLEAN

\* Byte i of the EEPROM is the file's, or still the one from before.
New(i) == i < Len(file) /\ eeprom[i] = file[i + 1]
Old(i) == eeprom[i] = before[i]

\* What the compiler should see to: the dummy byte and the script fit into the
\* EEPROM.  (Its limit of 2048 bytes is for the script alone: Compiler.java:125.)
FilesFit == \A f \in Files : Len(f) <= Size

\* When the installer reports "ok", the EEPROM holds the file and behind it
\* what it held before, and the number reported is the file's length; and the
\* boot module, which reads from address 1 on, finds the script even if it
\* has overwritten address 0 (install.c:76, with addr wrapped to 0 and
\* chip_addr advanced behind the last page of a chip; ImageFormatter.java:15).
Installed ==
  /\ pc = "ok" =>
       /\ num = Len(file)
       /\ \A i \in 0 .. Size - 1 : IF i < Len(file) THEN New(i) ELSE Old(i)
  /\ pc = "booted" => \A i \in 1 .. Len(file) - 1 : New(i)

\* Whatever fails, the EEPROM is the new file up to the page that is being
\* written and the old contents behind it, in ascending order and without a
\* gap (install.c:38 to 75; power failures aside, which may spoil the page).
NewThenOld ==
  pc \in {"probe", "read", "write", "failed"} =>
    /\ \A i \in 0 .. Size - 1 : i < Target => New(i)
    /\ \A i \in 0 .. Size - 1 : i >= Target + PageSize => Old(i)
    /\ \A i, j \in Target .. Target + PageSize - 1 :
         i < j /\ j < Size => Old(j) \/ New(i)
    /\ pc # "failed" => \A i \in 0 .. Size - 1 : i >= Target => Old(i)

\* "the installer fails BEFORE printing "writing xyz"": as long as that was
\* not printed the EEPROM is unchanged (install.c, lines 26 to 30).
UntouchedUntilShown == pc = "failed" /\ ~shown => eeprom = before

\* The installer gives up only because something failed, with one exception:
\* a file that fills the EEPROM is written, and then refused because the end
\* of the file is sent to a chip that does not exist (install.c:55 and 75).
FailsForAReason ==
  pc = "failed" /\ ~faulty =>
    Len(file) >= Size /\ \A i \in 0 .. Size - 1 : New(i)

\* "run it again until it reports ok" (README): it does in the end, whatever
\* was interrupted before (install.c, lines 62 to 70).
InstalledInTheEnd == pc = "probe" /\ Len(file) < Size ~> pc = "ok"

=============================================================================

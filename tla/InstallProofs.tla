---------------------------- MODULE InstallProofs ---------------------------
(***************************************************************************)
(* What the installer and the bus pirate promise, for every file, every    *)
(* size of pages, chips and EEPROMs, and any number of faults.             *)
(***************************************************************************)
EXTENDS Install, SequenceTheorems, TLAPS

\* The EEPROM holds the file up to n, and behind it what it held before.
Written(n) == \A i \in 0 .. Size - 1 : IF i < n THEN New(i) ELSE Old(i)

\* The page that is written is the one the file has at this place.
PageInv ==
  /\ Target <= Len(file)
  /\ pos = Target + Len(buffer)
  /\ Len(buffer) < PageSize => pos = Len(file)
  /\ \A k \in 1 .. Len(buffer) : buffer[k] = file[Target + k]

\* How far the installer has come.
ProgressInv ==
  /\ pc = "probe" => pos = 0 /\ Target = 0 /\ ~shown /\ eeprom = before
  /\ pc = "read" =>
       pos = Target /\ Target <= Len(file) /\ Written(Target) /\ (~shown => eeprom = before)
  /\ pc = "write" => PageInv /\ Written(Target) /\ shown
  /\ pc = "sleep" => PageInv /\ Written(pos) /\ shown /\ chip_addr < Chips

\* Nothing behind the file is ever written, nor spoilt by a loss of power.
BeyondInv ==
  /\ pc = "booted" => busy = {}
  /\ pc # "booted" =>
       /\ \A i \in busy : i < Len(file)
       /\ \A i \in 0 .. Size - 1 : i >= Len(file) => Old(i)

\* The chip is ready when it is addressed, unless something has failed.
ReadyInv == pc \in {"probe", "read", "write"} /\ ~faulty => busy = {}

\* Installed as far as the EEPROM goes, whether or not the file fits.
InstalledInv ==
  /\ pc = "ok" => num = Len(file) /\ Written(Len(file))
  /\ pc = "booted" => \A i \in 1 .. Size - 1 : i < Len(file) => New(i)

InstallInv ==
  /\ InstallTypeOK /\ ProgressInv /\ BeyondInv /\ ReadyInv
  /\ InstalledInv /\ NewThenOld /\ UntouchedUntilShown /\ FailsForAReason

-----------------------------------------------------------------------------
(* Arithmetic: pages, chips and addresses *)

LEMMA Sizes ==
  /\ PageSize \in Nat /\ PageSize > 0 /\ ChipSize \in Nat /\ ChipSize > 0
  /\ Chips \in Nat /\ ChipSize % PageSize = 0
  /\ MaxFaults \in Nat
BY InstallAssumption DEF InstallAssumption

LEMMA TimesIsNat == \A a, b \in Nat : a * b \in Nat
OBVIOUS

LEMMA RowsApart ==
  ASSUME NEW a \in Nat, NEW b \in Nat, NEW c \in Nat, a < b
  PROVE  a * c + c <= b * c
<1> DEFINE d == b - (a + 1)
<1>1. d \in Nat /\ b = a + 1 + d
  OBVIOUS
<1> HIDE DEF d
<1>2. d * c \in Nat
  BY <1>1
<1>3. b * c = a * c + c + d * c
  BY <1>1
<1>4. a * c \in Nat
  OBVIOUS
<1> QED
  BY <1>2, <1>3, <1>4

LEMMA Quotient ==
  ASSUME NEW a \in Int, NEW p \in Nat, p > 0
  PROVE  /\ a \div p \in Int /\ a % p \in 0 .. p - 1
         /\ (a \div p) * p \in Int
         /\ (a \div p) * p + (a % p) = a
<1>1. a - p * (a \div p) = a % p
  OBVIOUS
<1>2. a \div p \in Int /\ a % p \in 0 .. p - 1
  OBVIOUS
<1> DEFINE q == a \div p
           r == a % p
<1>3. a - p * q = r /\ q \in Int /\ r \in 0 .. p - 1
  BY <1>1, <1>2
<1> HIDE DEF q, r
<1>4. p * q \in Int /\ p * q = q * p
  BY <1>3
<1>5. q * p \in Int /\ q * p + r = a
  BY <1>3, <1>4
<1> QED
  BY <1>2, <1>5 DEF q, r

LEMMA Multiple ==
  ASSUME NEW a \in Nat, NEW p \in Nat, p > 0, a % p = 0
  PROVE  \E q \in Nat : a = q * p
<1>1. a - p * (a \div p) = a % p
  OBVIOUS
<1>2. a \div p \in Nat
  OBVIOUS
<1>3. p * (a \div p) \in Nat /\ p * (a \div p) = (a \div p) * p
  BY <1>2
<1>4. a = (a \div p) * p
  BY <1>1, <1>3
<1> QED
  BY <1>2, <1>4

\* Two multiples of p are at least p apart.
LEMMA MultiplesApart ==
  ASSUME NEW a \in Nat, NEW c \in Nat, NEW p \in Nat, p > 0,
         a % p = 0, c % p = 0, a < c
  PROVE  a + p <= c
<1>1. PICK q \in Nat : a = q * p
  BY Multiple
<1>2. PICK r \in Nat : c = r * p
  BY Multiple
<1>3. q < r
  <2> SUFFICES ASSUME r <= q PROVE FALSE
    BY <1>1, <1>2
  <2>1. CASE r = q
    BY <1>1, <1>2, <2>1
  <2>2. CASE r < q
    <3>1. r * p + p <= q * p
      BY <1>1, <1>2, <2>2, RowsApart
    <3> QED
      BY <1>1, <1>2, <3>1
  <2> QED
    BY <1>1, <1>2, <2>1, <2>2
<1>4. q * p + p <= r * p
  BY <1>1, <1>2, <1>3, RowsApart
<1> QED
  BY <1>1, <1>2, <1>4

LEMMA NextMultiple ==
  ASSUME NEW a \in Nat, NEW p \in Nat, p > 0, a % p = 0
  PROVE  (a + p) % p = 0
<1>1. PICK q \in Nat : a = q * p
  BY Multiple
<1>2. a + p = (q + 1) * p
  BY <1>1
<1> DEFINE b == a + p
           r == q + 1
<1>3. b \in Nat /\ r \in Nat /\ b = r * p
  BY <1>1, <1>2
<1> HIDE DEF b, r
<1>4. b % p = 0
  BY <1>3, Z3
<1> QED
  BY <1>4 DEF b

\* A page lies within its chip, and NextAddress goes to the next one.
LEMMA PageInChip ==
  ASSUME InstallTypeOK
  PROVE  /\ Target \in Nat /\ Size \in Nat
         /\ addr + PageSize <= ChipSize
         /\ chip_addr < Chips => Target + PageSize <= Size
         /\ chip_addr = Chips => Target >= Size
<1>1. /\ chip_addr \in Nat /\ chip_addr <= Chips /\ addr \in Nat
      /\ addr < ChipSize /\ addr % PageSize = 0
  BY Sizes DEF InstallTypeOK
<1>2. addr + PageSize <= ChipSize
  BY <1>1, Sizes, MultiplesApart
<1>3. chip_addr * ChipSize \in Nat /\ Chips * ChipSize \in Nat
  BY <1>1, Sizes, TimesIsNat
<1>4. chip_addr < Chips => chip_addr * ChipSize + ChipSize <= Chips * ChipSize
  BY <1>1, Sizes, RowsApart
<1> QED
  BY <1>1, <1>2, <1>3, <1>4, Sizes DEF Target, Size

LEMMA NextTarget ==
  ASSUME InstallTypeOK, NextAddress, chip_addr < Chips
  PROVE  /\ Target' = Target + PageSize
         /\ chip_addr' \in 0 .. Chips
         /\ addr' \in 0 .. ChipSize - 1
         /\ addr' % PageSize = 0
<1>1. /\ chip_addr \in Nat /\ addr \in Nat /\ addr < ChipSize
      /\ addr % PageSize = 0 /\ addr + PageSize <= ChipSize
  BY Sizes, PageInChip DEF InstallTypeOK
<1>2. CASE addr + PageSize < ChipSize
  <2>1. addr' = addr + PageSize /\ addr' # 0 /\ chip_addr' = chip_addr
    BY <1>1, <1>2, Sizes DEF NextAddress
  <2>2. addr' % PageSize = 0
    BY <1>1, <2>1, Sizes, NextMultiple
  <2>3. chip_addr * ChipSize \in Nat
    BY <1>1, Sizes, TimesIsNat
  <2> QED
    BY <1>1, <1>2, <2>1, <2>2, <2>3, Sizes DEF Target
<1>3. CASE addr + PageSize = ChipSize
  <2>1. ChipSize % ChipSize = 0
    BY Sizes
  <2>2. addr' = 0 /\ chip_addr' = chip_addr + 1
    BY <1>3, <2>1 DEF NextAddress
  <2>3. (chip_addr + 1) * ChipSize = chip_addr * ChipSize + ChipSize
    BY <1>1, Sizes
  <2>4. chip_addr * ChipSize \in Nat
    BY <1>1, Sizes, TimesIsNat
  <2>5. 0 % PageSize = 0
    BY Sizes
  <2> QED
    BY <1>1, <1>3, <2>2, <2>3, <2>4, <2>5, Sizes DEF Target
<1> QED
  BY <1>1, <1>2, <1>3, Sizes

-----------------------------------------------------------------------------
(* The EEPROM and the file *)

LEMMA ProgrammedBytes ==
  ASSUME Size \in Nat, NEW e \in [0 .. Size - 1 -> Byte], NEW a \in Nat, NEW s \in Seq(Byte)
  PROVE  /\ Programmed(e, a, s) \in [0 .. Size - 1 -> Byte]
         /\ \A i \in 0 .. Size - 1 :
              Programmed(e, a, s)[i] =
                IF a <= i /\ i < a + Len(s) THEN s[i - a + 1] ELSE e[i]
<1>1. Len(s) \in Nat /\ \A k \in 1 .. Len(s) : s[k] \in Byte
  OBVIOUS
<1>2. \A i \in 0 .. Size - 1 :
        /\ i - a \in 0 .. Len(s) - 1 <=> a <= i /\ i < a + Len(s)
        /\ i - a \in 0 .. Len(s) - 1 => i - a + 1 \in 1 .. Len(s)
  BY <1>1
<1> QED
  BY <1>1, <1>2 DEF Programmed

\* A piece of a sequence of bytes.
LEMMA Piece ==
  ASSUME NEW s \in Seq(Byte), NEW m \in Nat, NEW n \in Nat, m <= n, n <= Len(s)
  PROVE  /\ SubSeq(s, m + 1, n) \in Seq(Byte)
         /\ Len(SubSeq(s, m + 1, n)) = n - m
         /\ \A k \in 1 .. n - m : SubSeq(s, m + 1, n)[k] = s[m + k]
<1>1. \A k \in m + 1 .. n : k \in 1 .. Len(s)
  OBVIOUS
<1>2. /\ SubSeq(s, m + 1, n) \in Seq(Byte)
      /\ Len(SubSeq(s, m + 1, n)) = IF m + 1 <= n THEN n - (m + 1) + 1 ELSE 0
      /\ \A k \in 1 .. n - (m + 1) + 1 : SubSeq(s, m + 1, n)[k] = s[m + 1 + k - 1]
  BY <1>1, SubSeqProperties
<1>3. \A k \in 1 .. n - m : m + 1 + k - 1 = m + k
  OBVIOUS
<1> QED
  BY <1>2, <1>3

\* What InstallInv says of the file.
LEMMA FileFacts ==
  ASSUME InstallTypeOK
  PROVE  file \in Seq(Byte) /\ Len(file) \in Nat /\ pos \in Nat /\ pos <= Len(file)
<1>1. file \in Seq(Byte)
  <2>1. <<>> \in Seq(Byte)
    OBVIOUS
  <2> QED
    BY <2>1, InstallAssumption DEF InstallTypeOK, InstallAssumption
<1> QED
  BY <1>1 DEF InstallTypeOK

-----------------------------------------------------------------------------
(* The actions *)

THEOREM InstallInitInv == InstallInit => InstallInv
<1> SUFFICES ASSUME InstallInit PROVE InstallInv
  OBVIOUS
<1>1. eeprom \in [0 .. Size - 1 -> Byte]
  BY InstallAssumption DEF InstallInit, InstallAssumption
<1>2. /\ pc = "booted" /\ file = <<>> /\ Len(file) = 0 /\ pos = 0 /\ chip_addr = 0
      /\ addr = 0 /\ buffer = <<>> /\ Len(buffer) = 0 /\ buffer \in Seq(Byte)
      /\ num = 0 /\ before = eeprom /\ busy = {} /\ faults = 0
  BY DEF InstallInit
<1>3. shown \in BOOLEAN /\ faulty \in BOOLEAN
  BY Zenon DEF InstallInit
<1>4. 0 % PageSize = 0
  BY Sizes
<1>5. InstallTypeOK
  BY <1>1, <1>2, <1>3, <1>4, Sizes DEF InstallTypeOK
<1>6. ProgressInv /\ BeyondInv /\ ReadyInv
  BY <1>2 DEF ProgressInv, BeyondInv, ReadyInv
<1>7. InstalledInv /\ NewThenOld /\ UntouchedUntilShown /\ FailsForAReason
  BY <1>2 DEF InstalledInv, NewThenOld, UntouchedUntilShown, FailsForAReason
<1> QED
  BY <1>5, <1>6, <1>7 DEF InstallInv

\* The installer is started, again or for another file.
LEMMA StartInv ==
  ASSUME InstallTypeOK, NEW f \in Files \cup {<<>>}, Start(f),
         \A i \in busy : i < Len(f)
  PROVE  InstallInv'
<1>1. /\ pc' = "probe" /\ file' = f /\ pos' = 0 /\ chip_addr' = 0 /\ addr' = 0
      /\ buffer' = <<>> /\ Len(buffer') = 0 /\ buffer' \in Seq(Byte)
      /\ num' = 0 /\ before' = eeprom' /\ eeprom' = eeprom /\ busy' = busy
      /\ faults' = faults
  BY DEF Start
<1>2. shown' \in BOOLEAN /\ faulty' \in BOOLEAN /\ ~shown'
  BY Zenon DEF Start
<1>a. ~faulty' => busy' = {}
  BY DEF Start
<1>3. f \in Seq(Byte) /\ Len(f) \in Nat
  <2>1. <<>> \in Seq(Byte)
    OBVIOUS
  <2>2. f \in Seq(Byte)
    BY <2>1, InstallAssumption DEF InstallAssumption
  <2> QED
    BY <2>2
<1>4. 0 % PageSize = 0 /\ 0 * ChipSize + 0 = 0
  BY Sizes
<1>5. Target' = 0
  BY <1>1, <1>4 DEF Target
<1>6. InstallTypeOK'
  BY <1>1, <1>2, <1>3, <1>4, Sizes DEF InstallTypeOK
<1>7. \A i \in 0 .. Size - 1 : Old(i)'
  BY <1>1 DEF Old
<1>8. ProgressInv' /\ BeyondInv' /\ ReadyInv'
  BY <1>1, <1>2, <1>a, <1>5, <1>7 DEF ProgressInv, BeyondInv, ReadyInv
<1>9. NewThenOld'
  <2>1. Size \in Nat
    BY Sizes, TimesIsNat DEF Size
  <2> QED
    BY <1>1, <1>5, <1>7, <2>1, Sizes DEF NewThenOld
<1>10. InstalledInv' /\ UntouchedUntilShown' /\ FailsForAReason'
  BY <1>1 DEF InstalledInv, UntouchedUntilShown, FailsForAReason
<1> QED
  BY <1>6, <1>8, <1>9, <1>10 DEF InstallInv

\* The installer gives up, for a reason, and leaves everything as it is.
LEMMA ErrInv ==
  ASSUME InstallInv, pc \in {"probe", "read", "write"}, Err, NoFault \/ Fault,
         faulty' \/ FailsForAReason'
  PROVE  InstallInv'
<1>1. /\ InstallTypeOK /\ ProgressInv /\ BeyondInv /\ NewThenOld
  BY DEF InstallInv
<1>2. /\ pc' = "failed"
      /\ file' = file /\ pos' = pos /\ chip_addr' = chip_addr /\ addr' = addr
      /\ buffer' = buffer /\ shown' = shown /\ num' = num
      /\ eeprom' = eeprom /\ busy' = busy /\ before' = before
  BY DEF Err, locals
<1>3. faults' \in 0 .. MaxFaults /\ faulty' \in BOOLEAN
  <2>1. CASE NoFault
    BY <1>1, <2>1 DEF NoFault, InstallTypeOK
  <2>2. CASE Fault
    <3>1. faulty' \in BOOLEAN
      BY <2>2, Zenon DEF Fault
    <3> QED
      BY <1>1, <2>2, <3>1, Sizes DEF Fault, InstallTypeOK
  <2> QED
    BY <2>1, <2>2
<1>4. InstallTypeOK'
  BY <1>1, <1>2, <1>3 DEF InstallTypeOK
<1>5. ProgressInv' /\ ReadyInv' /\ InstalledInv'
  BY <1>2 DEF ProgressInv, ReadyInv, InstalledInv
<1>6. BeyondInv'
  BY <1>1, <1>2 DEF BeyondInv, Old
<1>7. Target' = Target
  BY <1>2 DEF Target
<1>8. NewThenOld'
  BY <1>1, <1>2, <1>7 DEF NewThenOld, New, Old
<1>9. UntouchedUntilShown'
  BY <1>1, <1>2 DEF UntouchedUntilShown, ProgressInv
<1>10. FailsForAReason'
  BY DEF FailsForAReason
<1> QED
  BY <1>4, <1>5, <1>6, <1>8, <1>9, <1>10 DEF InstallInv

LEMMA ProbeInv ==
  ASSUME InstallInv, Probe
  PROVE  InstallInv'
<1>1. /\ InstallTypeOK /\ ProgressInv /\ BeyondInv /\ ReadyInv /\ NewThenOld
      /\ pc = "probe"
  BY DEF InstallInv, Probe
<1>2. CASE /\ Answers(0) /\ pc' = "read" /\ NoFault
           /\ UNCHANGED <<locals, eeprom, busy, before>>
  <2>1. /\ file' = file /\ pos' = pos /\ chip_addr' = chip_addr /\ addr' = addr
        /\ buffer' = buffer /\ shown' = shown /\ num' = num
        /\ eeprom' = eeprom /\ busy' = busy /\ before' = before
        /\ faults' = faults /\ faulty' = faulty
    BY <1>2 DEF NoFault, locals
  <2>2. InstallTypeOK' /\ Target' = Target
    BY <1>1, <1>2, <2>1 DEF InstallTypeOK, Target
  <2>3. pos = 0 /\ Target = 0 /\ eeprom = before
    BY <1>1 DEF ProgressInv
  <2>4. ProgressInv'
    <3>1. Written(Target)'
      BY <2>1, <2>2, <2>3 DEF Written, Old
    <3> QED
      BY <1>1, <1>2, <2>1, <2>2, <2>3, <3>1, FileFacts DEF ProgressInv
  <2>5. BeyondInv' /\ ReadyInv'
    BY <1>1, <1>2, <2>1 DEF BeyondInv, ReadyInv, Old
  <2>6. NewThenOld'
    BY <1>1, <1>2, <2>1, <2>2 DEF NewThenOld, New, Old
  <2>7. InstalledInv' /\ UntouchedUntilShown' /\ FailsForAReason'
    BY <1>2 DEF InstalledInv, UntouchedUntilShown, FailsForAReason
  <2> QED
    BY <2>2, <2>4, <2>5, <2>6, <2>7 DEF InstallInv
<1>3. CASE ~Answers(0) /\ NoFault /\ Err
  <2>1. FailsForAReason'
    <3> SUFFICES ASSUME ~faulty' PROVE Len(file') >= Size /\ 0 .. Size - 1 = {}
      BY DEF FailsForAReason, Size
    <3>1. ~faulty /\ busy = {} /\ file' = file
      BY <1>1, <1>3 DEF ReadyInv, NoFault, Err, locals
    <3>2. Chips = 0
      BY <1>3, <3>1, Sizes DEF Answers
    <3>3. Size = 0
      BY <3>2, Sizes DEF Size
    <3> QED
      BY <1>1, <3>1, <3>3, FileFacts
  <2> QED
    BY <1>1, <1>3, <2>1, ErrInv
<1>4. CASE Fault /\ Err
  <2>1. faulty'
    BY <1>4 DEF Fault
  <2> QED
    BY <1>1, <1>4, <2>1, ErrInv
<1> QED
  BY <1>2, <1>3, <1>4 DEF Probe

\* A page is read: full, or up to the end of the file.
LEMMA ReadPageInv ==
  ASSUME InstallInv, ReadPage
  PROVE  InstallInv'
<1>1. /\ InstallTypeOK /\ ProgressInv /\ BeyondInv /\ ReadyInv /\ NewThenOld
      /\ pc = "read"
  BY DEF InstallInv, ReadPage
<1> DEFINE end == IF Len(file) < pos + PageSize THEN Len(file) ELSE pos + PageSize
<1>2. CASE /\ NoFault
           /\ buffer' = SubSeq(file, pos + 1, end) /\ pos' = end
           /\ shown' = TRUE
           /\ pc' = "write"
           /\ UNCHANGED <<file, chip_addr, addr, num, eeprom, busy, before>>
  <2>1. /\ file' = file /\ chip_addr' = chip_addr /\ addr' = addr /\ num' = num
        /\ eeprom' = eeprom /\ busy' = busy /\ before' = before
        /\ faults' = faults /\ faulty' = faulty
    BY <1>2 DEF NoFault
  <2>2. /\ file \in Seq(Byte) /\ Len(file) \in Nat /\ pos \in Nat /\ pos <= Len(file)
        /\ pos = Target /\ Written(Target) /\ Target \in Nat
    BY <1>1, FileFacts DEF ProgressInv
  <2>3. /\ end \in Nat /\ pos <= end /\ end <= Len(file) /\ end - pos <= PageSize
        /\ end - pos < PageSize => end = Len(file)
    BY <2>2, Sizes
  <2> HIDE DEF end
  <2>4. /\ buffer' \in Seq(Byte) /\ Len(buffer') = end - pos
        /\ \A k \in 1 .. end - pos : buffer'[k] = file[pos + k]
    BY <1>2, <2>2, <2>3, Piece
  <2>5. InstallTypeOK'
    <3>1. shown' \in BOOLEAN
      BY <1>2, Zenon
    <3> QED
      BY <1>1, <1>2, <2>1, <2>2, <2>3, <2>4, <3>1 DEF InstallTypeOK
  <2>6. Target' = Target
    BY <2>1 DEF Target
  <2>7. Written(Target)'
    BY <2>1, <2>2, <2>6 DEF Written, New, Old
  <2>8. PageInv'
    BY <1>2, <2>1, <2>2, <2>3, <2>4, <2>6 DEF PageInv
  <2>9. ProgressInv'
    BY <1>2, <2>7, <2>8 DEF ProgressInv
  <2>10. BeyondInv' /\ ReadyInv'
    BY <1>1, <1>2, <2>1 DEF BeyondInv, ReadyInv, Old
  <2>11. NewThenOld'
    BY <1>1, <1>2, <2>1, <2>6 DEF NewThenOld, New, Old
  <2>12. InstalledInv' /\ UntouchedUntilShown' /\ FailsForAReason'
    BY <1>2 DEF InstalledInv, UntouchedUntilShown, FailsForAReason
  <2> QED
    BY <2>5, <2>9, <2>10, <2>11, <2>12 DEF InstallInv
<1>3. CASE Fault /\ Err
  <2>1. faulty'
    BY <1>3 DEF Fault
  <2> QED
    BY <1>1, <1>3, <2>1, ErrInv
<1> QED
  BY <1>2, <1>3 DEF ReadPage

\* A page is written, or, if that fails, a part of it.
LEMMA WritePageInv ==
  ASSUME InstallInv, WritePage
  PROVE  InstallInv'
<1>1. /\ InstallTypeOK /\ ProgressInv /\ BeyondInv /\ ReadyInv /\ NewThenOld
      /\ pc = "write"
  BY DEF InstallInv, WritePage
<1>2. /\ file \in Seq(Byte) /\ Len(file) \in Nat /\ pos \in Nat /\ pos <= Len(file)
      /\ Target \in Nat /\ Size \in Nat
      /\ chip_addr < Chips => Target + PageSize <= Size
      /\ chip_addr = Chips => Target >= Size
      /\ chip_addr \in Int /\ chip_addr <= Chips
      /\ eeprom \in [0 .. Size - 1 -> Byte]
      /\ buffer \in Seq(Byte) /\ Len(buffer) \in Nat /\ Len(buffer) <= PageSize
  BY <1>1, FileFacts, PageInChip, Sizes DEF InstallTypeOK
<1>3. /\ Written(Target) /\ shown
      /\ Target <= Len(file) /\ pos = Target + Len(buffer)
      /\ \A k \in 1 .. Len(buffer) : buffer[k] = file[Target + k]
      /\ PageInv
  BY <1>1 DEF ProgressInv, PageInv
<1>4. ASSUME Answers(chip_addr), NEW k \in 0 .. Len(buffer), NEW bytes \in Seq(Byte),
             Len(bytes) = k, \A m \in 1 .. k : bytes[m] = buffer[m],
             eeprom' = Programmed(eeprom, Target, bytes),
             busy' = Target .. Target + k - 1,
             UNCHANGED <<locals, before>>
      PROVE  /\ eeprom' \in [0 .. Size - 1 -> Byte]
             /\ busy' \subseteq 0 .. Size - 1
             /\ \A i \in busy' : i < Len(file)
             /\ Written(Target + k)'
  <2>1. chip_addr < Chips /\ k \in Nat /\ k <= Len(buffer)
    BY <1>2, <1>4 DEF Answers
  <2>2. /\ eeprom' \in [0 .. Size - 1 -> Byte]
        /\ \A i \in 0 .. Size - 1 :
             eeprom'[i] = IF Target <= i /\ i < Target + k
                            THEN bytes[i - Target + 1] ELSE eeprom[i]
    <3>1. eeprom' = Programmed(eeprom, Target, bytes) /\ Len(bytes) = k
      BY <1>4
    <3>2. /\ Programmed(eeprom, Target, bytes) \in [0 .. Size - 1 -> Byte]
          /\ \A i \in 0 .. Size - 1 :
               Programmed(eeprom, Target, bytes)[i] =
                 IF Target <= i /\ i < Target + Len(bytes)
                   THEN bytes[i - Target + 1] ELSE eeprom[i]
      BY <1>2, ProgrammedBytes
    <3> QED
      BY <3>1, <3>2
  <2>3. /\ busy' \subseteq 0 .. Size - 1
        /\ \A i \in busy' : i < Len(file)
    <3>1. busy' = Target .. Target + k - 1
      BY <1>4
    <3>2. Target + k <= Size /\ Target + k <= Len(file)
      BY <1>2, <1>3, <2>1, Sizes
    <3> QED
      BY <1>2, <2>1, <3>1, <3>2
  <2>4. file' = file /\ before' = before /\ (Target + k)' = Target + k
    BY <1>4 DEF locals, Target
  <2>5. ASSUME NEW i \in 0 .. Size - 1
        PROVE  IF i < Target + k
                 THEN i < Len(file) /\ eeprom'[i] = file[i + 1]
                 ELSE eeprom'[i] = before[i]
    <3>1. CASE i < Target
      <4>1. New(i)
        BY <1>2, <1>3, <2>5, <3>1 DEF Written
      <4> QED
        BY <1>2, <1>4, <2>2, <2>5, <3>1, <4>1 DEF New
    <3>2. CASE Target <= i /\ i < Target + k
      <4>1. i - Target + 1 \in 1 .. k /\ Target + (i - Target + 1) = i + 1
        BY <1>2, <1>4, <2>5, <3>2
      <4>2. bytes[i - Target + 1] = file[i + 1]
        <5> DEFINE m == i - Target + 1
        <5>1. m \in 1 .. k /\ m \in 1 .. Len(buffer) /\ Target + m = i + 1
          BY <1>2, <2>1, <4>1
        <5> HIDE DEF m
        <5>2. bytes[m] = buffer[m]
          BY <1>4, <5>1
        <5>3. buffer[m] = file[Target + m]
          BY <1>3, <5>1
        <5> QED
          BY <5>1, <5>2, <5>3 DEF m
      <4>3. i < Len(file)
        BY <1>2, <1>3, <1>4, <2>5, <3>2
      <4> QED
        BY <2>2, <2>5, <3>2, <4>2, <4>3
    <3>3. CASE Target + k <= i
      <4>1. ~(i < Target) /\ ~(i < Target + k)
        BY <1>2, <1>4, <2>5, <3>3
      <4>2. Old(i)
        BY <1>3, <2>5, <4>1 DEF Written
      <4> QED
        BY <2>2, <2>5, <4>1, <4>2 DEF Old
    <3> QED
      BY <1>2, <1>4, <2>5, <3>1, <3>2, <3>3
  <2>6. Written(Target + k)'
    BY <2>4, <2>5 DEF Written, New, Old
  <2> QED
    BY <2>2, <2>3, <2>6
<1>5. CASE /\ Answers(chip_addr) /\ NoFault
           /\ eeprom' = Programmed(eeprom, Target, buffer)
           /\ busy' = Target .. Target + Len(buffer) - 1
           /\ pc' = "sleep"
           /\ UNCHANGED <<locals, before>>
  <2>1. /\ eeprom' \in [0 .. Size - 1 -> Byte]
        /\ busy' \subseteq 0 .. Size - 1
        /\ \A i \in busy' : i < Len(file)
        /\ Written(Target + Len(buffer))'
    <3> DEFINE n == Len(buffer)
    <3>1. n \in 0 .. Len(buffer) /\ \A m \in 1 .. n : buffer[m] = buffer[m]
      BY <1>2
    <3>2. n = Len(buffer) /\ n' = n
      BY <1>5 DEF locals
    <3> HIDE DEF n
    <3>3. /\ eeprom' \in [0 .. Size - 1 -> Byte]
          /\ busy' \subseteq 0 .. Size - 1
          /\ \A i \in busy' : i < Len(file)
          /\ \A i \in 0 .. Size - 1 : IF i < Target' + n THEN New(i)' ELSE Old(i)'
      BY <1>2, <1>4, <1>5, <3>1, <3>2 DEF Written
    <3> QED
      BY <1>5, <3>2, <3>3 DEF Written, locals
  <2>2. /\ file' = file /\ pos' = pos /\ chip_addr' = chip_addr /\ addr' = addr
        /\ buffer' = buffer /\ shown' = shown /\ num' = num /\ before' = before
        /\ faults' = faults /\ faulty' = faulty /\ Target' = Target
    BY <1>5 DEF NoFault, locals, Target
  <2>3. InstallTypeOK'
    BY <1>1, <1>5, <2>1, <2>2 DEF InstallTypeOK
  <2>4. ProgressInv'
    <3>1. PageInv'
      BY <1>3, <2>2 DEF PageInv
    <3>2. Written(pos)'
      <4>1. pos' = (Target + Len(buffer))'
        BY <1>3, <2>2
      <4> QED
        BY <2>1, <4>1 DEF Written
    <3>3. chip_addr' < Chips
      BY <1>5, <2>2 DEF Answers
    <3> QED
      BY <1>3, <1>5, <2>2, <3>1, <3>2, <3>3 DEF ProgressInv
  <2>5. BeyondInv'
    <3>1. ASSUME NEW i \in 0 .. Size - 1, i >= Len(file)
          PROVE  Old(i)'
      <4>1. ~(i < (Target + Len(buffer))')
        BY <1>2, <1>3, <2>2, <3>1
      <4> QED
        BY <2>1, <3>1, <4>1 DEF Written, Old
    <3> QED
      BY <1>5, <2>1, <2>2, <3>1 DEF BeyondInv
  <2>6. ReadyInv' /\ NewThenOld'
    BY <1>5 DEF ReadyInv, NewThenOld
  <2>7. InstalledInv' /\ UntouchedUntilShown' /\ FailsForAReason'
    BY <1>5 DEF InstalledInv, UntouchedUntilShown, FailsForAReason
  <2> QED
    BY <2>3, <2>4, <2>5, <2>6, <2>7 DEF InstallInv
<1>6. CASE ~Answers(chip_addr) /\ NoFault /\ Err
  <2>1. FailsForAReason'
    <3> SUFFICES ASSUME ~faulty'
                 PROVE Len(file) >= Size /\ \A i \in 0 .. Size - 1 : New(i)
      BY <1>6 DEF FailsForAReason, New, Err, locals
    <3>1. ~faulty /\ busy = {}
      BY <1>1, <1>6 DEF ReadyInv, NoFault
    <3>2. chip_addr = Chips
      BY <1>2, <1>6, <3>1, Sizes DEF Answers
    <3> QED
      BY <1>2, <1>3, <3>2 DEF Written
  <2> QED
    BY <1>1, <1>6, <2>1, ErrInv
<1>7. ASSUME Answers(chip_addr), Fault, pc' = "failed",
             NEW k \in 0 .. Len(buffer),
             eeprom' = Programmed(eeprom, Target, SubSeq(buffer, 1, k)),
             busy' = Target .. Target + k - 1,
             UNCHANGED <<locals, before>>
      PROVE  InstallInv'
  <2> DEFINE bytes == SubSeq(buffer, 0 + 1, k)
  <2>1. /\ bytes \in Seq(Byte) /\ Len(bytes) = k - 0
        /\ \A m \in 1 .. k - 0 : bytes[m] = buffer[0 + m]
    BY <1>2, <1>7, Piece
  <2>2. /\ Len(bytes) = k /\ \A m \in 1 .. k : bytes[m] = buffer[m]
        /\ eeprom' = Programmed(eeprom, Target, bytes)
    BY <1>2, <1>7, <2>1
  <2> HIDE DEF bytes
  <2>3. /\ eeprom' \in [0 .. Size - 1 -> Byte]
        /\ busy' \subseteq 0 .. Size - 1
        /\ \A i \in busy' : i < Len(file)
        /\ Written(Target + k)'
    BY <1>4, <1>7, <2>1, <2>2
  <2>4. /\ file' = file /\ pos' = pos /\ chip_addr' = chip_addr /\ addr' = addr
        /\ buffer' = buffer /\ shown' = shown /\ num' = num /\ before' = before
        /\ Target' = Target
    BY <1>7 DEF locals, Target
  <2>5. InstallTypeOK'
    <3>1. faulty' \in BOOLEAN
      BY <1>7, Zenon DEF Fault
    <3>2. faults' \in 0 .. MaxFaults
      BY <1>1, <1>7, Sizes DEF Fault, InstallTypeOK
    <3> QED
      BY <1>1, <1>7, <2>3, <2>4, <3>1, <3>2 DEF InstallTypeOK
  <2>6. \A i \in 0 .. Size - 1 : IF i < Target + k THEN New(i)' ELSE Old(i)'
    BY <2>3, <2>4 DEF Written
  <2>7. BeyondInv'
    <3>1. ASSUME NEW i \in 0 .. Size - 1, i >= Len(file)
          PROVE  Old(i)'
      <4>1. ~(i < Target + k)
        BY <1>2, <1>3, <1>7, <3>1
      <4> QED
        BY <2>6, <3>1, <4>1
    <3> QED
      BY <1>7, <2>3, <2>4, <3>1 DEF BeyondInv
  <2>8. NewThenOld'
    <3>1. \A i \in 0 .. Size - 1 : i < Target => New(i)'
      BY <1>2, <1>7, <2>6
    <3>2. \A i \in 0 .. Size - 1 : i >= Target + PageSize => Old(i)'
      BY <1>2, <1>7, <2>6, Sizes
    <3>3. ASSUME NEW i \in Target .. Target + PageSize - 1,
                 NEW j \in Target .. Target + PageSize - 1, i < j, j < Size
          PROVE  Old(j)' \/ New(i)'
      <4>1. i \in 0 .. Size - 1 /\ j \in 0 .. Size - 1
        BY <1>2, <3>3, Sizes
      <4>2. CASE i < Target + k
        BY <2>6, <4>1, <4>2
      <4>3. CASE ~(i < Target + k)
        <5>1. ~(j < Target + k)
          BY <1>2, <1>7, <3>3, <4>3, Sizes
        <5> QED
          BY <2>6, <4>1, <5>1
      <4> QED
        BY <4>2, <4>3
    <3> QED
      BY <1>7, <2>4, <3>1, <3>2, <3>3 DEF NewThenOld
  <2>9. ProgressInv' /\ ReadyInv' /\ InstalledInv'
    BY <1>7 DEF ProgressInv, ReadyInv, InstalledInv
  <2>10. UntouchedUntilShown' /\ FailsForAReason'
    BY <1>3, <1>7, <2>4 DEF UntouchedUntilShown, FailsForAReason, Fault
  <2> QED
    BY <2>5, <2>7, <2>8, <2>9, <2>10 DEF InstallInv
<1> QED
  BY <1>5, <1>6, <1>7 DEF WritePage

\* The next page, or the end.
LEMMA SleepInv ==
  ASSUME InstallInv, Sleep
  PROVE  InstallInv'
<1>1. /\ InstallTypeOK /\ ProgressInv /\ BeyondInv
      /\ pc = "sleep" /\ NextAddress /\ Wait
      /\ UNCHANGED <<file, pos, buffer, shown, eeprom, before>>
  BY DEF InstallInv, Sleep
<1>2. PageInv /\ Written(pos) /\ shown /\ chip_addr < Chips
  BY <1>1 DEF ProgressInv
<1>3. /\ Target' = Target + PageSize
      /\ chip_addr' \in 0 .. Chips
      /\ addr' \in 0 .. ChipSize - 1
      /\ addr' % PageSize = 0
  BY <1>1, <1>2, NextTarget
<1>4. /\ file \in Seq(Byte) /\ Len(file) \in Nat /\ pos \in Nat /\ pos <= Len(file)
      /\ Target \in Nat /\ Size \in Nat /\ Len(buffer) \in Nat
      /\ pos = Target + Len(buffer) /\ Len(buffer) <= PageSize
      /\ Len(buffer) < PageSize => pos = Len(file)
  BY <1>1, <1>2, FileFacts, PageInChip DEF PageInv, InstallTypeOK
<1>5. /\ busy' \subseteq busy
      /\ faults' \in 0 .. MaxFaults /\ faulty' \in BOOLEAN
      /\ ~faulty' => busy' = {}
  <2>1. CASE busy' = {} /\ NoFault
    BY <1>1, <2>1 DEF NoFault, InstallTypeOK
  <2>2. CASE busy' = busy /\ busy # {} /\ Fault
    <3>1. faulty' \in BOOLEAN /\ faulty'
      BY <2>2, Zenon DEF Fault
    <3> QED
      BY <1>1, <2>2, <3>1, Sizes DEF Fault, InstallTypeOK
  <2> QED
    BY <1>1, <2>1, <2>2 DEF Wait
<1>6. Written(pos)'
  BY <1>1, <1>2 DEF Written, New, Old
<1>7. BeyondInv'
  <2>1. pc' # "booted"
    BY DEF Sleep
  <2> QED
    BY <1>1, <1>5, <2>1 DEF BeyondInv, Old
<1>8. CASE More /\ pc' = "read" /\ num' = num
  <2>1. pos' = Target'
    BY <1>1, <1>3, <1>4, <1>8, Sizes DEF More
  <2>2. InstallTypeOK'
    BY <1>1, <1>3, <1>5, <1>8 DEF InstallTypeOK
  <2>3. Written(Target)'
    BY <1>6, <2>1 DEF Written
  <2>4. ProgressInv'
    BY <1>1, <1>2, <1>4, <1>8, <2>1, <2>3 DEF ProgressInv
  <2>5. ReadyInv'
    BY <1>5 DEF ReadyInv
  <2>6. NewThenOld'
    <3>1. Target' \in Nat
      BY <1>1, <1>4, <2>1
    <3>2. \A i \in 0 .. Size - 1 : IF i < Target' THEN New(i)' ELSE Old(i)'
      BY <2>3 DEF Written
    <3>3. \A i \in 0 .. Size - 1 : i >= Target' => Old(i)'
      BY <1>4, <3>1, <3>2
    <3>4. \A j \in Target' .. Target' + PageSize - 1 : j < Size => Old(j)'
      BY <1>4, <3>1, <3>3, Sizes
    <3>5. \A i \in 0 .. Size - 1 : i < Target' => New(i)'
      BY <3>2
    <3>6. ASSUME NEW i \in 0 .. Size - 1, i >= Target' + PageSize
          PROVE  Old(i)'
      <4>1. \A x, t \in Int : x >= t + PageSize => x >= t
        BY Sizes
      <4>2. i \in Int /\ Target' \in Int
        BY <1>4, <3>1
      <4>3. i >= Target'
        BY <3>6, <4>1, <4>2, Zenon
      <4> QED
        BY <3>3, <4>3
    <3> QED
      BY <3>3, <3>4, <3>5, <3>6 DEF NewThenOld
  <2>7. InstalledInv' /\ UntouchedUntilShown' /\ FailsForAReason'
    BY <1>8 DEF InstalledInv, UntouchedUntilShown, FailsForAReason
  <2> QED
    BY <1>7, <2>2, <2>4, <2>5, <2>6, <2>7 DEF InstallInv
<1>9. CASE ~More /\ pc' = "ok" /\ num' = Num
  <2>1. Len(buffer) < PageSize
    BY <1>4, <1>9, Sizes DEF More
  <2>2. num' = Len(file)
    <3>1. Num = Target' - PageSize + Len(buffer)
      <4>1. chip_addr' * ChipSize \in Nat /\ addr' \in Nat
        <5>1. chip_addr' \in Nat /\ addr' \in Nat
          BY <1>3, Sizes
        <5> QED
          BY <5>1, Sizes, TimesIsNat
      <4> DEFINE c == chip_addr' * ChipSize
      <4>2. /\ Num = c + (addr' - PageSize) + Len(buffer)
            /\ Target' = c + addr'
        BY DEF Num, Target
      <4>3. c \in Nat
        BY <4>1
      <4> HIDE DEF c
      <4> QED
        BY <1>4, <4>1, <4>2, <4>3, Sizes
    <3> QED
      BY <1>3, <1>4, <1>9, <2>1, <3>1, Sizes
  <2>3. InstallTypeOK'
    BY <1>1, <1>3, <1>4, <1>5, <1>9, <2>2 DEF InstallTypeOK
  <2>4. InstalledInv'
    <3>1. \A i \in 0 .. Size - 1 : IF i < Len(file) THEN New(i)' ELSE Old(i)'
      BY <1>1, <1>4, <1>6, <2>1 DEF Written
    <3> QED
      BY <1>1, <1>9, <2>2, <3>1 DEF InstalledInv, Written
  <2>5. ProgressInv' /\ ReadyInv' /\ NewThenOld' /\ UntouchedUntilShown' /\ FailsForAReason'
    BY <1>9 DEF ProgressInv, ReadyInv, NewThenOld, UntouchedUntilShown, FailsForAReason
  <2> QED
    BY <1>7, <2>3, <2>4, <2>5 DEF InstallInv
<1> QED
  BY <1>8, <1>9 DEF Sleep

LEMMA ChipReadyInv ==
  ASSUME InstallInv, ChipReady
  PROVE  InstallInv'
<1>1. /\ busy' = {} /\ pc' = pc
      /\ file' = file /\ pos' = pos /\ chip_addr' = chip_addr /\ addr' = addr
      /\ buffer' = buffer /\ shown' = shown /\ num' = num
      /\ eeprom' = eeprom /\ before' = before
      /\ faults' = faults /\ faulty' = faulty
  BY DEF ChipReady, locals
<1>2. InstallTypeOK'
  BY <1>1 DEF InstallInv, InstallTypeOK
<1>3. ProgressInv'
  BY <1>1 DEF InstallInv, ProgressInv, PageInv, Written, New, Old, Target
<1>4. BeyondInv' /\ ReadyInv'
  BY <1>1 DEF InstallInv, BeyondInv, ReadyInv, Old
<1>5. NewThenOld'
  BY <1>1 DEF InstallInv, NewThenOld, New, Old, Target
<1>6. InstalledInv' /\ UntouchedUntilShown' /\ FailsForAReason'
  BY <1>1 DEF InstallInv, InstalledInv, Written, UntouchedUntilShown, FailsForAReason, New, Old
<1> QED
  BY <1>2, <1>3, <1>4, <1>5, <1>6 DEF InstallInv

\* A loss of power spoils at most the page that is being programmed, which is
\* one of the file.
LEMMA PowerFailsInv ==
  ASSUME InstallInv, PowerFails
  PROVE  InstallInv'
<1>1. InstallTypeOK /\ BeyondInv /\ pc # "booted"
  BY DEF InstallInv, PowerFails
<1>2. /\ pc' = "off" /\ busy' = {} /\ Fault
      /\ file' = file /\ pos' = pos /\ chip_addr' = chip_addr /\ addr' = addr
      /\ buffer' = buffer /\ shown' = shown /\ num' = num /\ before' = before
  BY DEF PowerFails, locals
<1>3. PICK junk \in [busy -> Byte] :
        eeprom' = [i \in 0 .. Size - 1 |-> IF i \in busy THEN junk[i] ELSE eeprom[i]]
  BY DEF PowerFails
<1>4. eeprom' \in [0 .. Size - 1 -> Byte]
  BY <1>1, <1>3 DEF InstallTypeOK
<1>5. InstallTypeOK'
  <2>1. faulty' \in BOOLEAN
    BY <1>2, Zenon DEF Fault
  <2>2. faults' \in 0 .. MaxFaults
    BY <1>1, <1>2, Sizes DEF Fault, InstallTypeOK
  <2> QED
    BY <1>1, <1>2, <1>4, <2>1, <2>2 DEF InstallTypeOK
<1>6. BeyondInv'
  <2>1. Len(file) \in Nat /\ Size \in Nat
    BY <1>1, FileFacts, PageInChip
  <2>2. \A i \in 0 .. Size - 1 : i >= Len(file) => i \notin busy /\ Old(i)
    BY <1>1, <2>1 DEF BeyondInv
  <2> QED
    BY <1>2, <1>3, <2>2 DEF BeyondInv, Old
<1>7. ProgressInv' /\ ReadyInv' /\ InstalledInv'
  BY <1>2 DEF ProgressInv, ReadyInv, InstalledInv
<1>8. NewThenOld' /\ UntouchedUntilShown' /\ FailsForAReason'
  BY <1>2 DEF NewThenOld, UntouchedUntilShown, FailsForAReason
<1> QED
  BY <1>5, <1>6, <1>7, <1>8 DEF InstallInv

-----------------------------------------------------------------------------
(* The bus pirate *)

\* A line writes bytes of the file where they belong.
LEMMA LineWritesFile ==
  ASSUME NEW f \in Seq(Byte), NEW line \in BusPirateLines(f), NEW i \in Nat,
         Covers(line, i)
  PROVE  i < Len(f) /\ line.data[Offset(line, i) + 1] = f[i + 1]
<1>1. PICK p \in 0 .. (Len(f) - 1) \div PageSize :
        line = LET m   == p * PageSize
                   end == IF Len(f) < m + PageSize THEN Len(f) ELSE m + PageSize
               IN  [chip |-> m \div ChipSize, addr |-> m % ChipSize,
                    data |-> SubSeq(f, m + 1, end)]
  BY DEF BusPirateLines
<1> DEFINE m   == p * PageSize
           end == IF Len(f) < m + PageSize THEN Len(f) ELSE m + PageSize
<1>2. /\ line.chip = m \div ChipSize /\ line.addr = m % ChipSize
      /\ line.data = SubSeq(f, m + 1, end)
  BY <1>1
<1>3. m \in Nat /\ m <= Len(f) - 1 /\ Len(f) \in Nat
  <2> DEFINE q == (Len(f) - 1) \div PageSize
             r == (Len(f) - 1) % PageSize
             n == q * PageSize
  <2>1. Len(f) \in Nat /\ Len(f) - 1 \in Int
    OBVIOUS
  <2>2. q \in Int /\ r \in Nat /\ n \in Int /\ n + r = Len(f) - 1
    BY <2>1, Sizes, Quotient
  <2>3. p \in Nat /\ p <= q /\ q \in Nat
    BY <2>2
  <2> HIDE DEF q, r
  <2>4. p < q => p * PageSize + PageSize <= q * PageSize
    BY <2>3, Sizes, RowsApart
  <2>5. m \in Nat
    BY <2>3, Sizes, TimesIsNat
  <2>6. m <= n
    <3>1. CASE p < q
      BY <2>2, <2>4, <2>5, <3>1, Sizes
    <3>2. CASE p = q
      BY <2>2, <3>2
    <3> QED
      BY <2>3, <3>1, <3>2
  <2> HIDE DEF m, n
  <2> QED
    BY <2>1, <2>2, <2>5, <2>6
<1> HIDE DEF m
<1>4. line.chip * ChipSize + line.addr = m
  BY <1>2, <1>3, Sizes, Quotient
<1>5. end \in Nat /\ m <= end /\ end <= Len(f)
  BY <1>3, Sizes
<1> HIDE DEF end
<1>6. /\ Len(line.data) = end - m
      /\ \A k \in 1 .. end - m : line.data[k] = f[m + k]
  BY <1>2, <1>3, <1>5, Piece
<1>7. Offset(line, i) = i - m /\ i - m \in 0 .. end - m - 1
  BY <1>4, <1>6 DEF Covers, Offset
<1>8. i - m + 1 \in 1 .. end - m /\ m + (i - m + 1) = i + 1 /\ i < Len(f)
  BY <1>3, <1>5, <1>7
<1> DEFINE k == i - m + 1
<1>9. k \in 1 .. end - m /\ m + k = i + 1 /\ Offset(line, i) + 1 = k
  BY <1>7, <1>8
<1> HIDE DEF k
<1> QED
  BY <1>6, <1>8, <1>9

\* Every byte of the file is in a line.
LEMMA LinesCoverFile ==
  ASSUME NEW f \in Seq(Byte), NEW i \in Nat, i < Len(f)
  PROVE  \E line \in BusPirateLines(f) : Covers(line, i)
<1> DEFINE p   == i \div PageSize
           q   == (Len(f) - 1) \div PageSize
           m   == p * PageSize
           n   == q * PageSize
           r   == i % PageSize
           s   == (Len(f) - 1) % PageSize
           end == IF Len(f) < m + PageSize THEN Len(f) ELSE m + PageSize
           line == [chip |-> m \div ChipSize, addr |-> m % ChipSize,
                    data |-> SubSeq(f, m + 1, end)]
<1>1. Len(f) \in Nat /\ Len(f) - 1 \in Nat
  OBVIOUS
<1>2. p \in Nat /\ r \in 0 .. PageSize - 1 /\ m \in Int /\ m + r = i
  <2>1. p \in Nat
    BY Sizes
  <2> QED
    BY <2>1, Sizes, Quotient
<1>3. q \in Nat /\ s \in 0 .. PageSize - 1 /\ n \in Int /\ n + s = Len(f) - 1
  <2>1. q \in Nat
    BY <1>1, Sizes
  <2> QED
    BY <1>1, <2>1, Sizes, Quotient
<1>a. m \in Nat
  <2> HIDE DEF p
  <2> QED
    BY <1>2, Sizes, TimesIsNat
<1>4. p <= q
  <2> SUFFICES ASSUME q < p PROVE FALSE
    BY <1>2, <1>3
  <2> HIDE DEF p, q, r, s
  <2>1. n + PageSize <= m
    BY <1>2, <1>3, Sizes, RowsApart
  <2> HIDE DEF m, n
  <2> QED
    BY <1>1, <1>2, <1>3, <2>1, Sizes
<1>5. line \in BusPirateLines(f)
  <2>1. p \in 0 .. q
    BY <1>2, <1>3, <1>4
  <2> HIDE DEF p
  <2> QED
    BY <2>1 DEF BusPirateLines
<1> HIDE DEF m, r
<1>6. end \in Nat /\ m <= end /\ end <= Len(f) /\ i < end
  BY <1>1, <1>2, <1>a, Sizes
<1> HIDE DEF end
<1>7. Len(SubSeq(f, m + 1, end)) = end - m
  BY <1>1, <1>a, <1>6, Piece
<1>8. line.chip * ChipSize + line.addr = m
  <2>1. (m \div ChipSize) * ChipSize + (m % ChipSize) = m
    BY <1>a, Sizes, Quotient
  <2> QED
    BY <2>1
<1>9. Len(line.data) = end - m
  BY <1>7
<1> HIDE DEF line
<1>10. Covers(line, i)
  <2>1. i - m \in 0 .. end - m - 1
    BY <1>2, <1>a, <1>6
  <2> QED
    BY <1>8, <1>9, <2>1 DEF Covers, Offset
<1> QED
  BY <1>5, <1>10

\* The bus pirate leaves what the installer leaves.
LEMMA BusPirateInv ==
  ASSUME InstallInv, BusPirate
  PROVE  InstallInv'
<1>1. InstallTypeOK /\ BeyondInv /\ pc = "off"
  BY DEF InstallInv, BusPirate
<1>2. /\ pc' = "ok" /\ num' = Len(file)
      /\ file' = file /\ pos' = pos /\ chip_addr' = chip_addr /\ addr' = addr
      /\ buffer' = buffer /\ shown' = shown /\ busy' = busy
      /\ faults' = faults /\ before' = before /\ faulty' = faulty
  BY DEF BusPirate
<1>3. file \in Seq(Byte) /\ Len(file) \in Nat /\ Size \in Nat
  BY <1>1, FileFacts, PageInChip
<1>4. ASSUME NEW i \in 0 .. Size - 1
      PROVE  eeprom'[i] = IF i < Len(file) THEN file[i + 1] ELSE eeprom[i]
  <2> DEFINE lines == {l \in BusPirateLines(file) : Covers(l, i)}
             line  == CHOOSE l \in lines : TRUE
  <2>1. eeprom'[i] = IF lines = {} THEN eeprom[i] ELSE line.data[Offset(line, i) + 1]
    BY <1>4 DEF BusPirate
  <2>2. i \in Nat
    BY <1>3, <1>4
  <2>3. CASE lines = {}
    <3>1. ~(i < Len(file))
      BY <1>3, <2>2, <2>3, LinesCoverFile
    <3> QED
      BY <2>1, <2>3, <3>1
  <2>4. CASE lines # {}
    <3>1. line \in BusPirateLines(file) /\ Covers(line, i)
      BY <2>4
    <3> HIDE DEF line
    <3>2. i < Len(file) /\ line.data[Offset(line, i) + 1] = file[i + 1]
      BY <1>3, <2>2, <3>1, LineWritesFile
    <3> QED
      BY <2>1, <2>4, <3>2
  <2> QED
    BY <2>3, <2>4
<1>5. InstallTypeOK'
  <2>1. \A i \in 0 .. Size - 1 : i < Len(file) => file[i + 1] \in Byte
    BY <1>3
  <2>2. \A i \in 0 .. Size - 1 : eeprom'[i] \in Byte
    BY <1>1, <1>4, <2>1 DEF InstallTypeOK
  <2>3. eeprom' \in [0 .. Size - 1 -> Byte]
    BY <2>2 DEF BusPirate
  <2> QED
    BY <1>1, <1>2, <1>3, <2>3 DEF InstallTypeOK
<1>6. BeyondInv'
  BY <1>1, <1>2, <1>3, <1>4 DEF BeyondInv, Old
<1>7. InstalledInv'
  <2>1. \A i \in 0 .. Size - 1 : i >= Len(file) => Old(i)
    BY <1>1 DEF BeyondInv
  <2>2. \A i \in 0 .. Size - 1 : IF i < Len(file) THEN New(i)' ELSE Old(i)'
    BY <1>2, <1>3, <1>4, <2>1 DEF New, Old
  <2> QED
    BY <1>2, <2>2 DEF InstalledInv, Written
<1>8. ProgressInv' /\ ReadyInv'
  BY <1>2 DEF ProgressInv, ReadyInv
<1>9. NewThenOld' /\ UntouchedUntilShown' /\ FailsForAReason'
  BY <1>2 DEF NewThenOld, UntouchedUntilShown, FailsForAReason
<1> QED
  BY <1>5, <1>6, <1>7, <1>8, <1>9 DEF InstallInv

\* The boot module writes address 0 only, where no instruction is.
LEMMA BootInv ==
  ASSUME InstallInv, Boot
  PROVE  InstallInv'
<1>1. InstallTypeOK /\ InstalledInv /\ pc = "ok" /\ busy = {}
  BY DEF InstallInv, Boot
<1>2. /\ pc' = "booted"
      /\ file' = file /\ pos' = pos /\ chip_addr' = chip_addr /\ addr' = addr
      /\ buffer' = buffer /\ shown' = shown /\ num' = num /\ before' = before
      /\ busy' = busy /\ faults' = faults /\ faulty' = faulty
  BY DEF Boot, locals
<1>3. Len(file) \in Nat /\ Size \in Nat /\ eeprom \in [0 .. Size - 1 -> Byte]
  BY <1>1, FileFacts, PageInChip DEF InstallTypeOK
<1>4. /\ eeprom' \in [0 .. Size - 1 -> Byte]
      /\ \A i \in 0 .. Size - 1 : i >= 1 => eeprom'[i] = eeprom[i]
  <2>1. <<Zero>> \in Seq(Byte) /\ Len(<<Zero>>) = 1
    BY InstallAssumption DEF InstallAssumption
  <2>2. CASE eeprom' = Programmed(eeprom, 0, <<Zero>>)
    <3>1. /\ Programmed(eeprom, 0, <<Zero>>) \in [0 .. Size - 1 -> Byte]
          /\ \A i \in 0 .. Size - 1 :
               Programmed(eeprom, 0, <<Zero>>)[i] =
                 IF 0 <= i /\ i < 0 + Len(<<Zero>>) THEN <<Zero>>[i - 0 + 1] ELSE eeprom[i]
      <4> DEFINE bytes == <<Zero>>
      <4>1. bytes \in Seq(Byte) /\ 0 \in Nat
        BY <2>1
      <4> HIDE DEF bytes
      <4>2. /\ Programmed(eeprom, 0, bytes) \in [0 .. Size - 1 -> Byte]
            /\ \A i \in 0 .. Size - 1 :
                 Programmed(eeprom, 0, bytes)[i] =
                   IF 0 <= i /\ i < 0 + Len(bytes) THEN bytes[i - 0 + 1] ELSE eeprom[i]
        BY <1>3, <4>1, ProgrammedBytes
      <4> QED
        BY <4>2 DEF bytes
    <3> DEFINE n == Len(<<Zero>>)
    <3>2. n = 1
      BY <2>1
    <3>3. \A i \in 0 .. Size - 1 : i >= 1 => ~(i < 0 + n)
      BY <1>3, <3>2
    <3> QED
      BY <2>2, <3>1, <3>3
  <2>3. CASE eeprom' = eeprom
    BY <1>3, <2>3
  <2> QED
    BY <2>2, <2>3 DEF Boot
<1>5. InstallTypeOK'
  BY <1>1, <1>2, <1>4 DEF InstallTypeOK
<1>6. InstalledInv'
  <2>1. \A i \in 0 .. Size - 1 : IF i < Len(file) THEN New(i) ELSE Old(i)
    BY <1>1 DEF InstalledInv, Written
  <2>2. \A i \in 1 .. Size - 1 : i < Len(file) => New(i)'
    BY <1>2, <1>3, <1>4, <2>1 DEF New
  <2> QED
    BY <1>2, <2>2 DEF InstalledInv
<1>7. ProgressInv' /\ BeyondInv' /\ ReadyInv'
  BY <1>1, <1>2 DEF ProgressInv, BeyondInv, ReadyInv
<1>8. NewThenOld' /\ UntouchedUntilShown' /\ FailsForAReason'
  BY <1>2 DEF NewThenOld, UntouchedUntilShown, FailsForAReason
<1> QED
  BY <1>5, <1>6, <1>7, <1>8 DEF InstallInv

THEOREM InstallNextInv ==
  ASSUME InstallInv, [InstallNext]_installVars
  PROVE  InstallInv'
<1>1. InstallTypeOK /\ BeyondInv
  BY DEF InstallInv
<1>2. CASE Installer
  BY <1>2, ProbeInv, ReadPageInv, WritePageInv, SleepInv DEF Installer
<1>3. CASE Install
  <2>1. PICK f \in Files : Start(f)
    BY <1>3 DEF Install
  <2>2. busy = {}
    BY <1>1, <1>3 DEF Install, BeyondInv
  <2> QED
    BY <1>1, <2>1, <2>2, StartInv
<1>4. CASE InstallAgain
  <2>1. file \in Files \cup {<<>>} /\ Start(file) /\ \A i \in busy : i < Len(file)
    BY <1>1, <1>4 DEF InstallAgain, InstallTypeOK, BeyondInv
  <2> QED
    BY <1>1, <2>1, StartInv
<1>5. CASE UNCHANGED installVars
  <2>1. /\ pc' = pc /\ busy' = busy
        /\ file' = file /\ pos' = pos /\ chip_addr' = chip_addr /\ addr' = addr
        /\ buffer' = buffer /\ shown' = shown /\ num' = num
        /\ eeprom' = eeprom /\ before' = before
        /\ faults' = faults /\ faulty' = faulty
    BY <1>5 DEF installVars
  <2>2. InstallTypeOK'
    BY <1>1, <2>1 DEF InstallTypeOK
  <2>3. ProgressInv'
    BY <2>1 DEF InstallInv, ProgressInv, PageInv, Written, New, Old, Target
  <2>4. BeyondInv' /\ ReadyInv'
    BY <2>1 DEF InstallInv, BeyondInv, ReadyInv, Old
  <2>5. NewThenOld'
    BY <2>1 DEF InstallInv, NewThenOld, New, Old, Target
  <2>6. InstalledInv' /\ UntouchedUntilShown' /\ FailsForAReason'
    BY <2>1 DEF InstallInv, InstalledInv, Written, UntouchedUntilShown, FailsForAReason, New, Old
  <2> QED
    BY <2>2, <2>3, <2>4, <2>5, <2>6 DEF InstallInv
<1> QED
  BY <1>2, <1>3, <1>4, <1>5, ChipReadyInv, PowerFailsInv, BusPirateInv, BootInv
     DEF InstallNext

-----------------------------------------------------------------------------
(* The theorems *)

\* The inductive invariant, with or without files that fit.
THEOREM InstallInvariant == InstallSpec => []InstallInv
BY InstallInitInv, InstallNextInv, PTL DEF InstallSpec

\* Every variable of the installer keeps its type: pages stay within their
\* chip, and the chip address within the EEPROM's.
THEOREM InstallTypeCorrect == InstallSpec => []InstallTypeOK
<1>1. InstallInv => InstallTypeOK
  BY DEF InstallInv
<1> QED
  BY <1>1, InstallInvariant, PTL

\* Whatever fails, the EEPROM is new up to the page being written, and old
\* behind it.
THEOREM InstallKeepsOrder == InstallSpec => []NewThenOld
<1>1. InstallInv => NewThenOld
  BY DEF InstallInv
<1> QED
  BY <1>1, InstallInvariant, PTL

\* Before "writing xyz" is printed, nothing is written.
THEOREM InstallShowsFirst == InstallSpec => []UntouchedUntilShown
<1>1. InstallInv => UntouchedUntilShown
  BY DEF InstallInv
<1> QED
  BY <1>1, InstallInvariant, PTL

\* The installer fails because something else did, or because the file leaves
\* no byte free, and then it is written.
THEOREM InstallFailsForAReason == InstallSpec => []FailsForAReason
<1>1. InstallInv => FailsForAReason
  BY DEF InstallInv
<1> QED
  BY <1>1, InstallInvariant, PTL

\* "ok" means that the EEPROM holds the file, and the boot module finds it.
\* A file one byte too long would lose its last byte.
THEOREM InstallInstalls == FilesFit => (InstallSpec => []Installed)
<1> SUFFICES ASSUME FilesFit PROVE InstallSpec => []Installed
  OBVIOUS
<1>1. InstallInv => Installed
  <2> SUFFICES ASSUME InstallInv PROVE Installed
    OBVIOUS
  <2>1. InstallTypeOK /\ InstalledInv
    BY DEF InstallInv
  <2>2. Len(file) \in Nat /\ Size \in Nat /\ Len(file) <= Size
    <3>1. Len(file) \in Nat /\ Size \in Nat
      BY <2>1, FileFacts, PageInChip
    <3>2. CASE file \in Files
      BY <3>1, <3>2 DEF FilesFit
    <3>3. CASE file = <<>>
      <4>1. Len(file) = 0
        BY <3>3
      <4> QED
        BY <3>1, <4>1
    <3> QED
      BY <2>1, <3>1, <3>2, <3>3 DEF InstallTypeOK
  <2>3. \A i \in 1 .. Len(file) - 1 : i \in 1 .. Size - 1 /\ i < Len(file)
    BY <2>2
  <2> QED
    BY <2>1, <2>3 DEF InstalledInv, Installed, Written
<1> QED
  BY <1>1, InstallInvariant, PTL

=============================================================================

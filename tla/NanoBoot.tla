------------------------------ MODULE NanoBoot ------------------------------
(***************************************************************************)
(* The boot loader as a whole: main.c with the flash reader and the Xmodem *)
(* receiver together.  get_block() is nand_get_block(), which hands over   *)
(* to xmodem_get_block() when its sweep is over, in the middle of an image *)
(* if the user throws the switch then.                                     *)
(***************************************************************************)
EXTENDS Nand, Xmodem

allVars == <<loaderVars, nandVars, xmodemVars>>

-----------------------------------------------------------------------------

\* nand_get_block(): from flash, or, once that is over, from the line.
BlockFromFlash == NandGetBlock /\ UNCHANGED xmodemVars

BlockFromLine ==
  /\ xmodem_enabled
  /\ Call \/ ReceiveByte \/ ReceiveTimeout
  /\ UNCHANGED nandVars

\* main.c: after the loop, with xmodem_init() before every attempt.
NextAttempt == EndAttempt /\ UNCHANGED nandVars
AfterImage  == XmodemImageReturns /\ UNCHANGED nandVars

Outside ==
  \/ ToggleSwitch /\ UNCHANGED xmodemVars
  \/ (SenderReplies \/ StartSender \/ LineFault \/ Tick) /\ UNCHANGED nandVars

NanoBootInit == NandInit /\ XmodemInit

NanoBootNext == BlockFromFlash \/ BlockFromLine \/ NextAttempt \/ AfterImage \/ Outside

\* The loader runs and time passes; the sender is up and running.
NanoBootFairness ==
  /\ WF_allVars(BlockFromFlash \/ BlockFromLine \/ NextAttempt)
  /\ SF_allVars(Tick /\ UNCHANGED nandVars)
  /\ WF_allVars(SenderReplies /\ UNCHANGED nandVars)
  /\ WF_allVars(StartSender /\ UNCHANGED nandVars)

NanoBootSpec     == NanoBootInit /\ [][NanoBootNext]_allVars
FairNanoBootSpec == NanoBootSpec /\ NanoBootFairness

-----------------------------------------------------------------------------

\* The images on the two media.
Images(cells) == {ImageIn(c) : c \in {x \in cells : HoldsImage(x)}}
FlashImages   == UNION {Images(Readings(p)) : p \in 1 .. Pages}
FileImages    == Images({file})

\* The image that is running, as it lies in memory.
RunningImage == [i \in 1 .. Length[Header] |-> mem[Entry + i - 1]]

Promise == INSTANCE Boot WITH
  medium  <- IF xmodem_enabled THEN "line" ELSE "flash",
  stored  <- [flash |-> FlashImages, line |-> FileImages],
  running <- IF pc = "image" THEN {RunningImage} ELSE {}

\* nanoboot runs nothing but images as the flash or the file holds them, and
\* never one that was begun from flash and finished from the line, however the
\* switch, the end of flash and the retries fall (nand.c, lines 14 to 35).
KeepsPromise == Promise!Spec

\* What an attempt has received is all from flash or all from the file: an
\* attempt that the handover finds in progress is not continued (nand.c, lines
\* 27 to 35, main.c, lines 54 to 62).
OneSource ==
  \/ StreamIsFile /\ xmodem_enabled
  \/ StreamIsFlashed /\ (xmodem_enabled => pc = "end")

\* "if any further step in the boot chain fails, switch SW1.1 to ON and upload
\* something" (README.md, line 12): with the switch on, or with no intact image
\* in flash, a file that is sent ends up running.
Recovers ==
  []sw11 \/ (\A p \in 1 .. Pages : ~IntactImage(p))
    => <>(pc = "image" /\ stream = file)

=============================================================================

------------------------------- MODULE Xmodem -------------------------------
(***************************************************************************)
(* The Xmodem receiver (xmodem.c) as the source of the core loop's blocks, *)
(* and what it talks to: a sender, a serial line that loses, corrupts and  *)
(* makes up bytes, and a clock.                                            *)
(*                                                                         *)
(* Bytes are 0 .. ByteMod-1 and a block carries one of them instead of     *)
(* 128: a frame is SOH, block number, its complement, data, checksum.  The *)
(* receiver takes the line byte by byte, so it can lose its place in it.   *)
(***************************************************************************)
EXTENDS Loader

CONSTANTS
  ByteMod,      (* 256 in the code                                         *)
  SOH, EOT,     (* the two bytes that mean something at the start          *)
  Files,        (* the files, as blocks, that the user may send            *)
  TimerMod,     (* 2^32 in the code: the timer counts modulo this          *)
  Short, Long,  (* XMODEM_TIMEOUT and XMODEM_LONG_TIMEOUT, in timer ticks  *)
  LineCap,      (* bound: bytes on their way to the receiver               *)
  ReplyCap,     (* bound: replies on their way; more are dropped           *)
  FaultKinds,   (* what may go wrong on the line                           *)
  MaxFaults,    (* bound: how often                                        *)
  MaxRestarts,  (* bound: how often the user starts the sender again       *)
  FastLine      (* bytes and replies take no time worth a tick             *)

Byte == 0 .. ByteMod - 1

ASSUME XmodemAssumption ==
  /\ ByteMod \in Nat \ {0} /\ Data = Byte
  /\ SOH \in Byte /\ EOT \in Byte /\ SOH # EOT
  /\ Files \subseteq Seq(Byte)
  /\ Short \in Nat /\ Long \in Nat /\ Short <= Long
  /\ TimerMod \in Nat /\ TimerMod % 2 = 0 /\ Long + Short + 2 <= TimerMod \div 2
  /\ LineCap \in Nat /\ ReplyCap \in Nat
  /\ FaultKinds \subseteq {"lose", "cut", "corrupt", "noise", "lose reply"}
  /\ MaxFaults \in Nat /\ MaxRestarts \in Nat
  /\ FastLine \in BOOLEAN
  /\ 1 \in BlockSizes

VARIABLES
  (* xmodem.c *)
  xmodem_ack,   (* the reply the next call starts with                     *)
  xmodem_block, (* number of the last block taken                          *)
  quiet,        (* ticks since xmodem_timeout was set                      *)
  receiving,    (* inside the byte loop of xmodem_get_block()              *)
  rx,           (* the bytes this call has received                        *)
  waited,       (* ticks since the last call set timeout_start             *)
  (* the line *)
  toReceiver,   (* bytes                                                   *)
  toSender,     (* replies                                                 *)
  faults,       (* so far                                                  *)
  (* the sender *)
  file,         (* the file the user sends                                 *)
  sender,       (* "off", "on"; "done" after a successful end              *)
  sent,         (* the block it waits to see acknowledged; 0 before the    *)
                (* first, Len(file) + 1 for the EOT                        *)
  restarts      (* so far                                                  *)

receiverVars == <<xmodem_ack, xmodem_block, quiet, receiving, rx, waited>>
senderVars   == <<file, sender, sent, restarts>>
lineVars     == <<toReceiver, toSender, faults>>
xmodemVars   == <<receiverVars, lineVars, senderVars>>

-----------------------------------------------------------------------------
(* The receiver *)

\* TIMER_TIMED_OUT: the shift drops the top bit of the elapsed time, so that
\* half a turn of the timer reads as no time at all.
TimedOut(elapsed, timeout) == (2 * elapsed) % TimerMod > (2 * timeout) % TimerMod
HalfTurn == TimerMod \div 2

\* Mutant: the transmit buffer is as large as it takes.
TransmitAll(replies) == toSender' = toSender \o replies

\* UART_TX: the transmit buffer drops what does not fit.
Transmit(replies) ==
  LET room == ReplyCap - Len(toSender)
  IN  toSender' = toSender \o SubSeq(replies, 1, IF room < Len(replies) THEN room ELSE Len(replies))

\* xmodem_init(): before every load attempt.
ResetReceiver == xmodem_ack' = "NAK" /\ xmodem_block' = 0

\* Mutant: an interrupted image is waited for indefinitely.
CallWithoutLongTimeout ==
  /\ InLoop /\ ~receiving
  /\ Transmit(<<xmodem_ack>>)
  /\ xmodem_ack' = "NAK"
  /\ receiving' = TRUE /\ rx' = <<>> /\ waited' = 0
  /\ UNCHANGED <<xmodem_block, quiet, toReceiver, faults, senderVars, loaderVars>>

\* Entering xmodem_get_block(): give up on an image that has gone quiet, or
\* answer the previous block and begin to listen.
Call ==
  /\ InLoop /\ ~receiving
  /\ IF ~ExpectHeader /\ TimedOut(quiet, Long)
       THEN /\ Stop
            /\ UNCHANGED <<mem, xmodemVars>>
       ELSE /\ Transmit(<<xmodem_ack>>)
            /\ xmodem_ack' = "NAK"
            /\ receiving' = TRUE /\ rx' = <<>> /\ waited' = 0
            /\ UNCHANGED <<xmodem_block, quiet, toReceiver, faults, senderVars, loaderVars>>

\* The data byte is stored when it arrives, whatever the frame turns out to be.
StoreData(bytes) ==
  mem' = IF Len(bytes) < 4 \/ base \notin Dram THEN mem
         ELSE [mem EXCEPT ![base] = bytes[4]]

\* return 0, with xmodem_ack as it is
ReturnZero == Retry /\ receiving' = FALSE /\ rx' = <<>>

NumberOf(frame)    == frame[2]
BadComplement(frame) == frame[2] + frame[3] # ByteMod - 1
BadChecksum(frame) == frame[5] # frame[4]

\* The block is the next one of the image.
TakeFrame(frame) ==
  /\ xmodem_block' = NumberOf(frame)
  /\ xmodem_ack' = "ACK"
  /\ quiet' = 0
  /\ Took(1) /\ receiving' = FALSE /\ rx' = <<>>
  /\ UNCHANGED toSender

RefuseFrame == ReturnZero /\ UNCHANGED <<xmodem_ack, xmodem_block, quiet, toSender>>

\* Mutant: the block number is not compared with the previous one's.
JudgeFrameUnnumbered(frame) ==
  /\ StoreData(frame)
  /\ IF BadComplement(frame) \/ BadChecksum(frame)
       THEN RefuseFrame
       ELSE TakeFrame(frame)

\* Mutant: a first block is not looked at.
JudgeFrameAnyHeader(frame) ==
  /\ StoreData(frame)
  /\ IF \/ BadComplement(frame) \/ BadChecksum(frame)
        \/ NumberOf(frame) # (xmodem_block + 1) % ByteMod
       THEN RefuseFrame
       ELSE TakeFrame(frame)

\* Mutant: the previous block is refused like any other with a wrong number.
JudgeFrameRefusingRepeats(frame) ==
  /\ StoreData(frame)
  /\ IF \/ BadComplement(frame) \/ BadChecksum(frame)
        \/ NumberOf(frame) # (xmodem_block + 1) % ByteMod
        \/ ExpectHeader /\ ~IsHeader[frame[4]]
       THEN RefuseFrame
       ELSE TakeFrame(frame)

\* The verdict on a complete frame, in the order of the code's checks.
JudgeFrame(frame) ==
  /\ StoreData(frame)
  /\ IF BadComplement(frame)
       THEN RefuseFrame
     ELSE IF NumberOf(frame) = xmodem_block
       THEN /\ xmodem_ack' = "ACK"     \* the previous block, sent again
            /\ ReturnZero
            /\ UNCHANGED <<xmodem_block, quiet, toSender>>
     ELSE IF NumberOf(frame) # (xmodem_block + 1) % ByteMod \/ BadChecksum(frame)
       THEN RefuseFrame
     ELSE IF ExpectHeader /\ ~IsHeader[frame[4]]
       THEN /\ Transmit(<<"CAN", "CAN", "CAN">>)
            /\ Stop /\ receiving' = FALSE /\ rx' = <<>>
            /\ UNCHANGED <<xmodem_ack, xmodem_block, quiet>>
     ELSE TakeFrame(frame)

\* The next byte of the byte loop.
ReceiveByte ==
  /\ receiving /\ ~TimedOut(waited, Short)
  /\ toReceiver # <<>>
  /\ toReceiver' = Tail(toReceiver)
  /\ LET bytes == Append(rx, Head(toReceiver))
     IN  CASE Len(bytes) = 1 /\ Head(bytes) = EOT ->
                /\ Transmit(<<"ACK", "ACK">>)
                /\ Stop /\ receiving' = FALSE /\ rx' = <<>>
                /\ UNCHANGED <<mem, xmodem_ack, xmodem_block, quiet>>
           [] Len(bytes) = 1 /\ Head(bytes) \notin {SOH, EOT} ->
                /\ mem' = mem
                /\ ReturnZero
                /\ UNCHANGED <<xmodem_ack, xmodem_block, quiet, toSender>>
           [] Len(bytes) = 5 -> JudgeFrame(bytes)
           [] OTHER ->
                /\ rx' = bytes
                /\ UNCHANGED <<loaderVars, xmodem_ack, xmodem_block, quiet, receiving, toSender>>
  /\ UNCHANGED <<waited, faults, senderVars>>

\* UART_RX_TIMEOUT: a call takes no longer than XMODEM_TIMEOUT.
ReceiveTimeout ==
  /\ receiving /\ TimedOut(waited, Short)
  /\ StoreData(rx)
  /\ ReturnZero
  /\ UNCHANGED <<xmodem_ack, xmodem_block, quiet, waited, lineVars, senderVars>>

\* Mutant: the receiver starts a new attempt where the last one stopped.
EndAttemptKeepsReceiver ==
  /\ EndLoad
  /\ UNCHANGED xmodemVars

\* The rest of the core loop, with xmodem_init() before the next attempt.
EndAttempt ==
  /\ EndLoad
  /\ IF pc' = "loop" THEN ResetReceiver ELSE UNCHANGED <<xmodem_ack, xmodem_block>>
  /\ UNCHANGED <<quiet, receiving, rx, waited, lineVars, senderVars>>

XmodemImageReturns ==
  /\ ImageReturns
  /\ ResetReceiver
  /\ UNCHANGED <<quiet, receiving, rx, waited, lineVars, senderVars>>

-----------------------------------------------------------------------------
(* The sender: external, as xmodem.c expects it to behave *)

Frame(k) ==
  LET n == k % ByteMod IN <<SOH, n, ByteMod - 1 - n, file[k], file[k]>>

Packet(k) == IF k > Len(file) THEN <<EOT>> ELSE Frame(k)

Send(k) ==
  /\ Len(toReceiver) + Len(Packet(k)) <= LineCap
  /\ toReceiver' = toReceiver \o Packet(k)

\* It only ever answers: a NAK with the same packet, an ACK with the next.
SenderReplies ==
  /\ toSender # <<>>
  /\ toSender' = Tail(toSender)
  /\ CASE sender = "on" /\ Head(toSender) = "NAK" ->
            LET k == IF sent = 0 THEN 1 ELSE sent
            IN  Send(k) /\ sent' = k /\ sender' = sender
       [] sender = "on" /\ Head(toSender) = "ACK" /\ sent \in 1 .. Len(file) ->
            Send(sent + 1) /\ sent' = sent + 1 /\ sender' = sender
       [] sender = "on" /\ Head(toSender) = "ACK" /\ sent = Len(file) + 1 ->
            sender' = "done" /\ UNCHANGED <<sent, toReceiver>>
       [] sender = "on" /\ Head(toSender) = "CAN" ->
            sender' = "off" /\ UNCHANGED <<sent, toReceiver>>
       [] OTHER -> UNCHANGED <<sender, sent, toReceiver>>
  /\ UNCHANGED <<file, restarts, faults, receiverVars, loaderVars>>

\* The user starts the transfer, or stops it and starts it again.
StartSender ==
  /\ restarts < MaxRestarts
  /\ restarts' = restarts + 1
  /\ sender' = "on" /\ sent' = 0
  /\ UNCHANGED <<file, lineVars, receiverVars, loaderVars>>

-----------------------------------------------------------------------------
(* The line and the clock *)

RemoveAt(s, i) == SubSeq(s, 1, i - 1) \o SubSeq(s, i + 1, Len(s))

LineFault ==
  /\ faults < MaxFaults
  /\ faults' = faults + 1
  /\ \/ /\ "lose" \in FaultKinds
        /\ \E i \in 1 .. Len(toReceiver) : toReceiver' = RemoveAt(toReceiver, i)
        /\ UNCHANGED toSender
     \/ /\ "cut" \in FaultKinds
        /\ toReceiver # <<>> /\ toReceiver' = <<>>
        /\ UNCHANGED toSender
     \/ /\ "corrupt" \in FaultKinds
        /\ \E i \in 1 .. Len(toReceiver), b \in Byte :
             toReceiver' = [toReceiver EXCEPT ![i] = b]
        /\ UNCHANGED toSender
     \/ /\ "noise" \in FaultKinds
        /\ Len(toReceiver) < LineCap
        /\ \E b \in Byte : toReceiver' = Append(toReceiver, b)
        /\ UNCHANGED toSender
     \/ /\ "lose reply" \in FaultKinds
        /\ \E i \in 1 .. Len(toSender) : toSender' = RemoveAt(toSender, i)
        /\ UNCHANGED toReceiver
  /\ UNCHANGED <<receiverVars, senderVars, loaderVars>>

\* Time only matters while a call waits, which notices its timeout at once.
\* Bound: quiet stops where the timer has made half a turn.
Tick ==
  /\ receiving /\ ~TimedOut(waited, Short)
  /\ FastLine => toReceiver = <<>> /\ toSender = <<>>
  /\ waited' = waited + 1
  /\ quiet' = IF quiet = HalfTurn THEN quiet ELSE quiet + 1
  /\ UNCHANGED <<xmodem_ack, xmodem_block, receiving, rx, lineVars, senderVars, loaderVars>>

-----------------------------------------------------------------------------

Receiver == Call \/ ReceiveByte \/ ReceiveTimeout \/ EndAttempt

\* xmodem_timeout is not initialised: any time may have passed since.
XmodemInit ==
  /\ LoaderInit
  /\ xmodem_ack = "NAK" /\ xmodem_block = 0
  /\ quiet \in 0 .. HalfTurn
  /\ receiving = FALSE /\ rx = <<>> /\ waited = Short + 1
  /\ toReceiver = <<>> /\ toSender = <<>> /\ faults = 0
  /\ file \in Files
  /\ sender = "off" /\ sent = 0 /\ restarts = 0

XmodemNext ==
  \/ Receiver \/ XmodemImageReturns
  \/ SenderReplies \/ StartSender
  \/ LineFault \/ Tick

vars == <<loaderVars, xmodemVars>>

XmodemSpec == XmodemInit /\ [][XmodemNext]_vars

\* The receiver polls in a loop, and as every turn of it takes some time, the
\* clock moves on if it calls again and again.
ReceiverFairness == WF_vars(Receiver) /\ SF_vars(Tick)

FairReceiverSpec == XmodemSpec /\ ReceiverFairness

-----------------------------------------------------------------------------

XmodemTypeOK ==
  /\ LoaderTypeOK
  /\ xmodem_ack \in {"ACK", "NAK"}
  /\ xmodem_block \in Byte
  /\ quiet \in 0 .. HalfTurn
  /\ receiving \in BOOLEAN
  /\ rx \in Seq(Byte) /\ Len(rx) <= 4
  /\ waited \in 0 .. Short + 1
  /\ toReceiver \in Seq(Byte) /\ Len(toReceiver) <= LineCap
  /\ toSender \in Seq({"ACK", "NAK", "CAN"}) /\ Len(toSender) <= ReplyCap
  /\ faults \in 0 .. MaxFaults
  /\ file \in Files
  /\ sender \in {"off", "on", "done"}
  /\ sent \in 0 .. Len(file) + 1
  /\ restarts \in 0 .. MaxRestarts

\* Whatever the line does to the frames, the image in memory grows as the file
\* does: no block is missing, repeated, swapped or altered (xmodem.c, lines 89
\* to 120).
StreamIsFile ==
  /\ Len(stream) <= Len(file)
  /\ \A i \in 1 .. Len(stream) : stream[i] = file[i]

\* Where the core loop puts block k of a file.
PlaceOf(k) == IF k <= HeaderSize THEN HeaderBase + k - 1
              ELSE LoadBase(file[1]) + k - HeaderSize - 1

\* An ACK, be it for a new block or for the previous one sent again, is only
\* ever pending for a block this attempt has taken, and memory then holds the
\* file up to that block, the header where main.c reads it and the data behind
\* its load address: the sender goes on and will not send any of it again
\* (xmodem.c, lines 92 to 96 and 107 to 120).
AckAfterBlock ==
  pc = "loop" /\ xmodem_ack = "ACK" =>
    /\ stream # <<>>
    /\ xmodem_block = Len(stream) % ByteMod
    /\ \A k \in 1 .. Len(stream) : mem[PlaceOf(k)] = file[k]

\* What the two rest on, none of which xmodem.c can see.  The line may lose
\* replies but nothing else: two altered bytes can pass both checks of a frame.
FaithfulLine == FaultKinds \subseteq {"lose reply"} \/ MaxFaults = 0

\* Block numbers do not wrap around, with one to spare: the complement of SOH,
\* which a receiver that has lost its place can take for a number.
ShortFiles == \A f \in Files : Len(f) + 1 < ByteMod - 1 - SOH

\* And SOH and EOT do not pass for a number and its complement.
ControlBytes == \A a, b \in {SOH, EOT} : a + b # ByteMod - 1

\* The ten seconds are noticed before the timer has made half a turn, after
\* which they would read as not begun: some call looks at the clock in time,
\* however often the calls before it waited or were answered with noise
\* (xmodem.c, line 31, hw_pollinboard.h, lines 46 to 47).
TimeoutBeforeWrap ==
  InLoop /\ ~receiving /\ ~ExpectHeader => quiet < HalfTurn

\* An image that stops arriving is given up, whatever the sender does: an
\* attempt past its first block ends (xmodem.c, lines 29 to 32).
AttemptEnds == stream # <<>> ~> (pc = "image" \/ stream = <<>>)

=============================================================================

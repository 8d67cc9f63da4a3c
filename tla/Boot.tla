-------------------------------- MODULE Boot --------------------------------
(***************************************************************************)
(* What nanoboot promises, without blocks, retries, pages or frames: it    *)
(* only ever runs an image as one of its media holds it.  It looks through *)
(* the flash first, gives that up once and for all, and then listens to    *)
(* the serial line.                                                        *)
(***************************************************************************)
VARIABLES
  medium,   (* "flash" or "line"                                           *)
  stored,   (* stored[m]: the images medium m holds                        *)
  running   (* {}, or the set of the one image that is running             *)

bootVars == <<medium, stored, running>>

Init ==
  /\ medium = "flash"
  /\ running = {}

RunImage ==
  /\ running = {}
  /\ \E image \in stored[medium] : running' = {image}
  /\ UNCHANGED <<medium, stored>>

ImageReturns ==
  /\ running # {}
  /\ running' = {}
  /\ UNCHANGED <<medium, stored>>

LeaveFlash ==
  /\ medium = "flash" /\ running = {}
  /\ medium' = "line"
  /\ UNCHANGED <<stored, running>>

Next == RunImage \/ ImageReturns \/ LeaveFlash

Spec == Init /\ [][Next]_bootVars

=============================================================================

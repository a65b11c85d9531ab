-------------------------- MODULE FramerateControl --------------------------
(***************************************************************************)
(* The adaptive frame rate: the consumer (FrameConsumer::runX2) looks at   *)
(* the number of frames that the raw input queue has dropped, lowers the   *)
(* runtime option cameraFps and asks the producer to open its camera       *)
(* streams again; the producer (FrameProducer::runX1) tests and clears     *)
(* that request and opens the streams with the rate it reads then.  It     *)
(* does so only between two frames that it has grabbed: while no handler   *)
(* is running, and while its streams are closed because they could not be  *)
(* opened, the request has to wait.                                        *)
(*                                                                         *)
(* The consumer reads the drop counter three times, each time under the    *)
(* lock of the queue, while the producer counts drops and flushes; the     *)
(* counter is one of DropCounts, a set with values on both sides of every  *)
(* threshold.  Only configurations with enableAdaptFps and a GStreamer     *)
(* source are modelled: without them no action of the consumer is enabled. *)
(***************************************************************************)
EXTENDS Naturals

CONSTANTS
  InitialFps,  \* cameraFps of the configuration file
  DropCounts,  \* the values of the drop counter that are told apart
  MaxEmptyFrames  \* how many empty frames in a row the producer tolerates

ASSUME FramerateAssumption ==
  /\ InitialFps \in 1 .. 255
  /\ DropCounts \subseteq Nat /\ 0 \in DropCounts
  /\ MaxEmptyFrames \in Nat

VARIABLES
  cameraFps,             \* Shared: the rate the streams should have
  gDroppedFrames,        \* of the raw input queue
  isFirstFrameDropTest,  \* no test since the start or a switch of cameras
  consPc,                \* where the consumer's test is
  gThrVarRestartCamStreams,
  prodPc,                \* where the producer's loop is
  haveClients,           \* of the producer: did handlers run when it last looked?
  emptyFrameCnt,         \* empty frames in a row
  streamFps              \* the rate the streams were opened with, or Closed

consumer == <<isFirstFrameDropTest, consPc>>
producer == <<prodPc, haveClients, emptyFrameCnt, streamFps>>
vars == <<cameraFps, gDroppedFrames, consumer, gThrVarRestartCamStreams, producer>>

(* Streams that are not open have no rate.                                 *)
Closed == 0

Init ==
  /\ cameraFps = InitialFps
  /\ gDroppedFrames = 0
  /\ isFirstFrameDropTest = TRUE
  /\ consPc = "loop"
  /\ gThrVarRestartCamStreams = FALSE
  /\ prodPc = "loop"
  /\ haveClients = FALSE
  /\ emptyFrameCnt = 0
  /\ streamFps = InitialFps
-----------------------------------------------------------------------------
(* Every few rounds the producer looks whether a handler is running.       *)
CheckClients ==
  /\ prodPc = "loop"
  /\ haveClients' \in BOOLEAN
  /\ UNCHANGED <<cameraFps, gDroppedFrames, consumer, gThrVarRestartCamStreams,
                 prodPc, emptyFrameCnt, streamFps>>

(* Without one the rest of a round is skipped.                             *)
Working == prodPc = "loop" /\ haveClients

(* Frames are grabbed from open streams; appending one to a full queue     *)
(* counts a drop.                                                          *)
GrabFrames(n) ==
  /\ Working
  /\ streamFps # Closed
  /\ n >= gDroppedFrames
  /\ gDroppedFrames' = n
  /\ emptyFrameCnt' = 0
  /\ UNCHANGED <<cameraFps, consumer, gThrVarRestartCamStreams, prodPc,
                 haveClients, streamFps>>

(* The producer flushes the queue when the cameras were switched.          *)
FlushQueue ==
  /\ Working
  /\ gDroppedFrames' = 0
  /\ UNCHANGED <<cameraFps, consumer, gThrVarRestartCamStreams, producer>>
-----------------------------------------------------------------------------
(* The consumer notices that the cameras were switched.                    *)
CamerasSwitched ==
  /\ consPc = "loop"
  /\ isFirstFrameDropTest' = TRUE
  /\ UNCHANGED <<cameraFps, gDroppedFrames, consPc, gThrVarRestartCamStreams, producer>>

(* The test is due.  More than ten drops reset the counter; they lower the *)
(* rate unless it is the first test.                                       *)
CheckDrops ==
  /\ consPc = "loop"
  /\ cameraFps > 1
  /\ gDroppedFrames > 10
  /\ consPc' = IF isFirstFrameDropTest THEN "reset" ELSE "reduce"
  /\ UNCHANGED <<cameraFps, gDroppedFrames, isFirstFrameDropTest,
                 gThrVarRestartCamStreams, producer>>

(* Mutant of Reduction: one of the comparisons admits equality.            *)
ReductionAtLimit(dropped, fps) ==
  IF dropped > 100 /\ fps >= 10 THEN 10
  ELSE IF dropped > 50 /\ fps > 5 THEN 5
  ELSE IF dropped > 30 /\ fps > 3 THEN 3
  ELSE 1

(* How much the rate is lowered after so many drops.                       *)
Reduction(dropped, fps) ==
  IF dropped > 100 /\ fps > 10 THEN 10
  ELSE IF dropped > 50 /\ fps > 5 THEN 5
  ELSE IF dropped > 30 /\ fps > 3 THEN 3
  ELSE 1

(* The counter is read again, and the lower rate is set.                   *)
ReduceFps ==
  /\ consPc = "reduce"
  /\ cameraFps' = cameraFps - Reduction(gDroppedFrames, cameraFps)
  /\ consPc' = "request"
  /\ UNCHANGED <<gDroppedFrames, isFirstFrameDropTest, gThrVarRestartCamStreams, producer>>

SetFlagRestartCamStreams ==
  /\ consPc = "request"
  /\ gThrVarRestartCamStreams' = TRUE
  /\ consPc' = "reset"
  /\ UNCHANGED <<cameraFps, gDroppedFrames, isFirstFrameDropTest, producer>>

(* After three seconds, or at once if the rate was not lowered.            *)
ResetDroppedFramesCount ==
  /\ consPc = "reset"
  /\ isFirstFrameDropTest' = FALSE
  /\ gDroppedFrames' = 0
  /\ consPc' = "loop"
  /\ UNCHANGED <<cameraFps, gThrVarRestartCamStreams, producer>>
-----------------------------------------------------------------------------
(* After a frame was appended, the flag is tested and cleared under its    *)
(* lock.                                                                   *)
GetFlagRestartCamStreams ==
  /\ Working
  /\ streamFps # Closed
  /\ gThrVarRestartCamStreams
  /\ gThrVarRestartCamStreams' = FALSE
  /\ emptyFrameCnt' = 0
  /\ prodPc' = "reopen"
  /\ UNCHANGED <<cameraFps, gDroppedFrames, consumer, haveClients, streamFps>>

(* Mutant of FpsToOpen: the rate of the configuration file is used.        *)
FpsToOpenStatic == InitialFps

FpsToOpen == cameraFps

(* openStreams reads the rate before it opens the first stream.  If one    *)
(* cannot be opened it leaves none open, and its callers go on all the     *)
(* same.                                                                   *)
openStreams == streamFps' \in {FpsToOpen, Closed}

OpenStreams ==
  /\ prodPc = "reopen"
  /\ openStreams
  /\ prodPc' = "loop"
  /\ UNCHANGED <<cameraFps, gDroppedFrames, consumer, gThrVarRestartCamStreams,
                 haveClients, emptyFrameCnt>>

(* A frame could not be grabbed, as none can from closed streams: they are *)
(* opened again, a few times in a row.                                     *)
GrabFails ==
  /\ Working
  /\ emptyFrameCnt' = emptyFrameCnt + 1
  /\ IF emptyFrameCnt' > MaxEmptyFrames
       THEN prodPc' = "ended" /\ streamFps' = Closed
       ELSE openStreams /\ UNCHANGED prodPc
  /\ UNCHANGED <<cameraFps, gDroppedFrames, consumer, gThrVarRestartCamStreams,
                 haveClients>>

(* The producer sees the stop flag, or an exception ends its loop: the     *)
(* streams are released.                                                   *)
ProducerEnds ==
  /\ prodPc # "ended"
  /\ prodPc' = "ended"
  /\ streamFps' = Closed
  /\ UNCHANGED <<cameraFps, gDroppedFrames, consumer, gThrVarRestartCamStreams,
                 haveClients, emptyFrameCnt>>
-----------------------------------------------------------------------------
(* The rest of a test that was begun.                                      *)
ConsumerFinishesTest ==
  ReduceFps \/ SetFlagRestartCamStreams \/ ResetDroppedFramesCount

Next ==
  \/ \E n \in DropCounts : GrabFrames(n)
  \/ CheckClients \/ FlushQueue
  \/ GetFlagRestartCamStreams \/ OpenStreams
  \/ GrabFails \/ ProducerEnds
  \/ CamerasSwitched \/ CheckDrops \/ ConsumerFinishesTest

Spec == Init /\ [][Next]_vars

(* A test of the consumer and a call of openStreams, once begun, are       *)
(* finished.  The producer counts its grabs down to its look at the flag;  *)
(* as the rounds without clients come between and are not counted, this is *)
(* strong fairness.  The same holds of the grabs from closed streams.      *)
(* Clients need not be there, frames need not be dropped, grabs need not   *)
(* fail, and neither thread need end.                                      *)
FairSpec ==
  /\ Spec
  /\ WF_vars(ConsumerFinishesTest)
  /\ WF_vars(OpenStreams)
  /\ SF_vars(GetFlagRestartCamStreams)
  /\ SF_vars(streamFps = Closed /\ GrabFails)
-----------------------------------------------------------------------------
(* Every variable has its type; in particular the rate, by which both      *)
(* threads divide and from which they count down, is never 0.              *)
TypeOK ==
  /\ cameraFps \in 1 .. InitialFps
  /\ streamFps \in {Closed} \cup 1 .. InitialFps
  /\ gDroppedFrames \in DropCounts
  /\ isFirstFrameDropTest \in BOOLEAN
  /\ consPc \in {"loop", "reduce", "request", "reset"}
  /\ gThrVarRestartCamStreams \in BOOLEAN
  /\ prodPc \in {"loop", "reopen", "ended"}
  /\ haveClients \in BOOLEAN
  /\ emptyFrameCnt \in 0 .. MaxEmptyFrames + 1

(* Streams that run at a rate that is too high are known to somebody: the  *)
(* consumer is about to request a restart, or has done so, or the producer *)
(* is about to carry it out.  No reduction is forgotten.                   *)
ReductionPending ==
  streamFps > cameraFps =>
    consPc = "request" \/ gThrVarRestartCamStreams \/ prodPc = "reopen"

(* As long as the producer finds a client again and again, every rate that *)
(* was lowered reaches the cameras, unless it is lowered again: streams    *)
(* with another rate, or streams that could not be opened, are replaced    *)
(* by streams with the rate they should have, or the producer gives up     *)
(* and ends.  (Without clients the streams may keep the old rate for ever.)*)
StreamsCatchUp ==
  []<>haveClients =>
    (streamFps # cameraFps ~> (streamFps = cameraFps \/ prodPc = "ended"))
=============================================================================

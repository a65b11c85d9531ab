---------------------------- MODULE FramePipeline ---------------------------
(***************************************************************************)
(* The two worker threads and the queue between them.  The producer        *)
(* (FrameProducer) opens the camera streams, grabs one frame per side and  *)
(* appends the sides that are active; the consumer (FrameConsumer) takes   *)
(* entries and processes them.  Both work with snapshots of the runtime    *)
(* option outputCams, which the HTTP handlers change, and look at the stop *)
(* flag now and then.                                                      *)
(*                                                                         *)
(* The loops read the options, the stop flag and the number of clients     *)
(* every n-th iteration, with n depending on the frame rate and different  *)
(* in both threads; here any iteration may be the one.  Handlers are an    *)
(* environment that sets outputCams (module OutputCams has their code) and *)
(* that comes and goes.  The contents of a frame are the number of the     *)
(* grab; what processing does to it is in other modules.                   *)
(***************************************************************************)
EXTENDS FrameQueueRawInput

CONSTANTS
  MaxEmptyFrames,  \* _MAX_EMPTY_FRAMES
  MaxWaits,        \* rounds the producer waits for the queue at its end
  MaxFrames,       \* bound: how many frames are grabbed
  MaxSwitches      \* bound: how often the handlers set outputCams

ASSUME PipelineAssumption ==
  /\ MaxEmptyFrames \in Nat
  /\ MaxWaits \in Nat \ {0}
  /\ MaxFrames \in Nat
  /\ MaxSwitches \in Nat

VARIABLES
  available,           \* configuration: the sides that have a camera source
  adaptFps,            \* configuration: enableAdaptFps with a GStreamer source
  outputCams,          \* Shared: the sides that are to be shown
  needToStop,          \* Shared::gThrVarNeedToStop
  runningHandlers,     \* is any handler counted?
  switches,            \* how often the handlers have set outputCams
  camStreamsOpened,    \* FrameProducer::gThrVarCamStreamsOpened
  prodPc,              \* where the producer is
  prodOutputCams,      \* its snapshot of outputCams
  lastOutputCams,      \* the sides its frame pointers are set for
  haveClients,         \* its snapshot of runningHandlers
  emptyFrameCnt,       \* grabs that failed in a row
  waitCnt,             \* rounds it has waited for the queue
  frameNr,             \* grabs so far
  mats,                \* per side, the frame it retrieved last
  consPc,              \* where the consumer is
  consOutputCams,      \* its snapshot of outputCams
  view,                \* the entry that its frames point into
  got,                 \* per side, the frame it found there
  flushed              \* history: was the queue flushed since?

config == <<available, adaptFps>>
shared == <<config, outputCams, needToStop, runningHandlers, switches>>
producer == <<camStreamsOpened, prodPc, prodOutputCams, lastOutputCams,
              haveClients, emptyFrameCnt, waitCnt, frameNr, mats>>
consumer == <<consPc, consOutputCams, view, got>>
vars == <<rawQueue, shared, producer, consumer, flushed>>

(* The values of OutputCamsEn, as the set of sides that are shown.         *)
Modes == {{"L"}, {"R"}, Sides}

Init ==
  /\ RawQueueInit
  /\ available \in (SUBSET Sides) \ {{}}
  /\ adaptFps \in BOOLEAN
  /\ outputCams = {"L"}
  /\ needToStop = FALSE
  /\ runningHandlers = FALSE
  /\ switches = 0
  /\ camStreamsOpened = FALSE
  /\ prodPc = "open"
  /\ prodOutputCams = {"L"}
  /\ lastOutputCams = {"L"}
  /\ haveClients = FALSE
  /\ emptyFrameCnt = 0
  /\ waitCnt = 0
  /\ frameNr = 0
  /\ mats = [s \in Sides |-> 0]
  /\ consPc = "start"
  /\ consOutputCams = {"L"}
  /\ view = 0
  /\ got = [s \in Sides |-> 0]
  /\ flushed = FALSE
-----------------------------------------------------------------------------
(* The environment.  Handlers select only sides that have a source, but    *)
(* without a left camera one that connected before the streams were opened *)
(* may select any (module OutputCams).                                     *)
HandlersSetOutputCams(mode) ==
  /\ switches < MaxSwitches
  /\ mode \subseteq available \/ "L" \notin available
  /\ mode # outputCams
  /\ outputCams' = mode
  /\ switches' = switches + 1
  /\ UNCHANGED <<rawQueue, config, needToStop, runningHandlers, producer,
                 consumer, flushed>>

HandlersComeOrGo ==
  /\ runningHandlers' = ~runningHandlers
  /\ UNCHANGED <<rawQueue, config, outputCams, needToStop, switches, producer,
                 consumer, flushed>>

(* SIGINT.                                                                 *)
SetFlagNeedToStop ==
  /\ ~needToStop
  /\ needToStop' = TRUE
  /\ UNCHANGED <<rawQueue, config, outputCams, runningHandlers, switches,
                 producer, consumer, flushed>>
-----------------------------------------------------------------------------
(* Opening the streams shows the right camera if there is no left one.     *)
OutputCamsAfterOpen ==
  IF "L" \notin available /\ outputCams = {"L"} THEN {"R"} ELSE outputCams

(* A producer that cannot open its streams ends, and sets no flag.         *)
OpenStreamsFails ==
  /\ prodPc = "open"
  /\ prodPc' = "ended"
  /\ UNCHANGED <<rawQueue, shared, camStreamsOpened, prodOutputCams,
                 lastOutputCams, haveClients, emptyFrameCnt, waitCnt, frameNr,
                 mats, consumer, flushed>>

OpenStreams ==
  /\ prodPc = "open"
  /\ outputCams' = OutputCamsAfterOpen
  /\ prodPc' = "opened"
  /\ UNCHANGED <<rawQueue, config, needToStop, runningHandlers, switches,
                 camStreamsOpened, prodOutputCams, lastOutputCams, haveClients,
                 emptyFrameCnt, waitCnt, frameNr, mats, consumer, flushed>>

(* The flag is set that the consumer waits for.                            *)
SetFlagCamStreamsOpened ==
  /\ prodPc = "opened"
  /\ camStreamsOpened' = TRUE
  /\ prodPc' = "run"
  /\ UNCHANGED <<rawQueue, shared, prodOutputCams, lastOutputCams, haveClients,
                 emptyFrameCnt, waitCnt, frameNr, mats, consumer, flushed>>

(* runX1 takes its first snapshot of the options.                          *)
ProducerRuns ==
  /\ prodPc = "run"
  /\ prodOutputCams' = outputCams
  /\ lastOutputCams' = outputCams
  /\ prodPc' = "loop"
  /\ UNCHANGED <<rawQueue, shared, camStreamsOpened, haveClients, emptyFrameCnt,
                 waitCnt, frameNr, mats, consumer, flushed>>

(* The producer sees the stop flag, or an exception ends its loop.         *)
ProducerSeesStop ==
  /\ prodPc = "loop"
  /\ needToStop
  /\ prodPc' = "drain"
  /\ UNCHANGED <<rawQueue, shared, camStreamsOpened, prodOutputCams,
                 lastOutputCams, haveClients, emptyFrameCnt, waitCnt, frameNr,
                 mats, consumer, flushed>>

ProducerFails ==
  /\ prodPc \in {"loop", "append"}
  /\ prodPc' = "drain"
  /\ UNCHANGED <<rawQueue, shared, camStreamsOpened, prodOutputCams,
                 lastOutputCams, haveClients, emptyFrameCnt, waitCnt, frameNr,
                 mats, consumer, flushed>>

CheckClients ==
  /\ prodPc = "loop"
  /\ haveClients' = runningHandlers
  /\ UNCHANGED <<rawQueue, shared, camStreamsOpened, prodPc, prodOutputCams,
                 lastOutputCams, emptyFrameCnt, waitCnt, frameNr, mats,
                 consumer, flushed>>

(* The options are read.  If the sides changed since the frame pointers    *)
(* were set, they are set again and the queue is flushed.                  *)
UpdateOptions ==
  /\ prodPc = "loop"
  /\ haveClients
  /\ prodOutputCams' = outputCams
  /\ lastOutputCams' = outputCams
  /\ IF lastOutputCams # outputCams
       THEN flushQueue /\ flushed' = TRUE
       ELSE UNCHANGED <<rawQueue, flushed>>
  /\ UNCHANGED <<shared, camStreamsOpened, prodPc, haveClients, emptyFrameCnt,
                 waitCnt, frameNr, mats, consumer>>

(* The sides of the snapshot are grabbed and retrieved.                    *)
MatsAfterGrab ==
  [s \in Sides |-> IF s \in prodOutputCams THEN frameNr + 1 ELSE mats[s]]

GrabFrames ==
  /\ prodPc = "loop"
  /\ haveClients
  /\ prodOutputCams \subseteq available
  /\ frameNr < MaxFrames
  /\ frameNr' = frameNr + 1
  /\ mats' = MatsAfterGrab
  /\ emptyFrameCnt' = 0
  /\ prodPc' = "append"
  /\ UNCHANGED <<rawQueue, shared, camStreamsOpened, prodOutputCams,
                 lastOutputCams, haveClients, waitCnt, consumer, flushed>>

(* A side delivers nothing: the streams are opened again, a few times.     *)
(* Nobody asks whether that succeeded; if not, the selection stays.        *)
GrabFails ==
  /\ prodPc = "loop"
  /\ haveClients
  /\ emptyFrameCnt' = emptyFrameCnt + 1
  /\ IF emptyFrameCnt + 1 > MaxEmptyFrames
       THEN prodPc' = "drain" /\ UNCHANGED outputCams
       ELSE outputCams' \in {outputCams, OutputCamsAfterOpen} /\ UNCHANGED prodPc
  /\ UNCHANGED <<rawQueue, config, needToStop, runningHandlers, switches,
                 camStreamsOpened, prodOutputCams, lastOutputCams, haveClients,
                 waitCnt, frameNr, mats, consumer, flushed>>

(* The sides that the frame pointers are set for are stored.               *)
AppendFrames ==
  /\ prodPc = "append"
  /\ appendFramesToQueue(lastOutputCams, mats)
  /\ prodPc' = IF adaptFps THEN "restart" ELSE "loop"
  /\ UNCHANGED <<shared, camStreamsOpened, prodOutputCams, lastOutputCams,
                 haveClients, emptyFrameCnt, waitCnt, frameNr, mats, consumer,
                 flushed>>

(* The iteration that looks at the restart flag reads the options, after   *)
(* it has opened the streams again if the flag was set; the frame pointers *)
(* and the queue stay as they are.                                         *)
RestartCamStreams ==
  /\ prodPc = "restart"
  /\ outputCams' \in {outputCams, OutputCamsAfterOpen}
  /\ prodOutputCams' = outputCams'
  /\ prodPc' = "loop"
  /\ UNCHANGED <<rawQueue, config, needToStop, runningHandlers, switches,
                 camStreamsOpened, lastOutputCams, haveClients, emptyFrameCnt,
                 waitCnt, frameNr, mats, consumer, flushed>>

NoRestart ==
  /\ prodPc = "restart"
  /\ prodPc' = "loop"
  /\ UNCHANGED <<rawQueue, shared, camStreamsOpened, prodOutputCams,
                 lastOutputCams, haveClients, emptyFrameCnt, waitCnt, frameNr,
                 mats, consumer, flushed>>

(* The producer waits for the consumer to empty the queue, if there is a   *)
(* client, but not for ever.                                               *)
StillWaiting == ~isQueueEmpty /\ runningHandlers /\ waitCnt + 1 < MaxWaits

(* Mutant of WaitsAfterRound: the rounds are not counted.                  *)
WaitsAfterRoundKept == waitCnt

WaitsAfterRound == waitCnt + 1

WaitForQueue ==
  /\ prodPc = "drain"
  /\ StillWaiting
  /\ waitCnt' = WaitsAfterRound
  /\ UNCHANGED <<rawQueue, shared, camStreamsOpened, prodPc, prodOutputCams,
                 lastOutputCams, haveClients, emptyFrameCnt, frameNr, mats,
                 consumer, flushed>>

(* Mutant of StopAfterProducer: the end of the producer stops nobody.      *)
StopAfterProducerKept == needToStop

StopAfterProducer == TRUE

ProducerEnds ==
  /\ prodPc = "drain"
  /\ ~StillWaiting
  /\ needToStop' = StopAfterProducer
  /\ prodPc' = "ended"
  /\ UNCHANGED <<rawQueue, config, outputCams, runningHandlers, switches,
                 camStreamsOpened, prodOutputCams, lastOutputCams, haveClients,
                 emptyFrameCnt, waitCnt, frameNr, mats, consumer, flushed>>
-----------------------------------------------------------------------------
(* The consumer takes its first snapshot, then waits for the streams.      *)
ConsumerStarts ==
  /\ consPc = "start"
  /\ consOutputCams' = outputCams
  /\ consPc' = "wait"
  /\ UNCHANGED <<rawQueue, shared, producer, view, got, flushed>>

CamStreamsAreOpen ==
  /\ consPc = "wait"
  /\ camStreamsOpened
  /\ consPc' = "loop"
  /\ UNCHANGED <<rawQueue, shared, producer, consOutputCams, view, got, flushed>>

(* After 30 seconds without camera streams it gives up and stops everyone. *)
WaitTimesOut ==
  /\ consPc = "wait"
  /\ ~camStreamsOpened
  /\ needToStop' = TRUE
  /\ consPc' = "ended"
  /\ UNCHANGED <<rawQueue, config, outputCams, runningHandlers, switches,
                 producer, consOutputCams, view, got, flushed>>

ConsumerSeesStop ==
  /\ consPc = "loop"
  /\ needToStop
  /\ consPc' = "ended"
  /\ UNCHANGED <<rawQueue, shared, producer, consOutputCams, view, got, flushed>>

ConsumerUpdatesOptions ==
  /\ consPc = "loop"
  /\ consOutputCams' = outputCams
  /\ UNCHANGED <<rawQueue, shared, producer, consPc, view, got, flushed>>

(* An entry is consumed; its frames are processed if they are all there.   *)
GetFrames ==
  /\ consPc = "loop"
  /\ getFramesFromQueue
  /\ IF FramesThere(consOutputCams)
       THEN /\ consPc' = "process"
            /\ view' = gIxToOutput
            /\ got' = [s \in Sides |-> IF s \in consOutputCams
                                         THEN gPEntries[s][gIxToOutput] ELSE got[s]]
            /\ flushed' = FALSE
       ELSE UNCHANGED <<consPc, view, got, flushed>>
  /\ UNCHANGED <<shared, producer, consOutputCams>>

FramesProcessed ==
  /\ consPc = "process"
  /\ consPc' = "loop"
  /\ UNCHANGED <<rawQueue, shared, producer, consOutputCams, view, got, flushed>>

(* The size of a frame is wrong: everyone is to stop, the loop goes on.    *)
WrongFrameSize ==
  /\ consPc = "process"
  /\ needToStop' = TRUE
  /\ consPc' = "loop"
  /\ UNCHANGED <<rawQueue, config, outputCams, runningHandlers, switches,
                 producer, consOutputCams, view, got, flushed>>

(* An exception ends the consumer, and everyone.                           *)
ConsumerFails ==
  /\ consPc \in {"loop", "process"}
  /\ needToStop' = TRUE
  /\ consPc' = "ended"
  /\ UNCHANGED <<rawQueue, config, outputCams, runningHandlers, switches,
                 producer, consOutputCams, view, got, flushed>>
-----------------------------------------------------------------------------
Environment ==
  \/ \E mode \in Modes : HandlersSetOutputCams(mode)
  \/ HandlersComeOrGo
  \/ SetFlagNeedToStop

ProducerWorks ==
  \/ OpenStreams \/ SetFlagCamStreamsOpened \/ ProducerRuns \/ ProducerSeesStop
  \/ CheckClients \/ UpdateOptions \/ GrabFrames \/ AppendFrames
  \/ RestartCamStreams \/ NoRestart \/ WaitForQueue \/ ProducerEnds

ProducerFailures == OpenStreamsFails \/ ProducerFails \/ GrabFails

ConsumerWorks ==
  \/ ConsumerStarts \/ CamStreamsAreOpen \/ WaitTimesOut \/ ConsumerSeesStop
  \/ ConsumerUpdatesOptions \/ GetFrames \/ FramesProcessed

ConsumerFailures == WrongFrameSize \/ ConsumerFails

Next ==
  \/ Environment
  \/ ProducerWorks \/ ProducerFailures
  \/ ConsumerWorks \/ ConsumerFailures

Spec == Init /\ [][Next]_vars

(* Both threads keep running, no lock is held across a wait and every wait *)
(* is bounded.  Each loop counts down to its next look at the stop flag,   *)
(* so that it looks again and again as long as it comes around: strong     *)
(* fairness of the two actions that see the flag.  Nothing need fail.      *)
FairSpec ==
  /\ Spec
  /\ WF_vars(ProducerWorks)
  /\ WF_vars(ConsumerWorks)
  /\ SF_vars(ProducerSeesStop)
  /\ SF_vars(ConsumerSeesStop)
-----------------------------------------------------------------------------
Frame == 0 .. MaxFrames

(* Every variable of the pipeline has its type.                            *)
TypeOK ==
  /\ gCountInBuf \in 0 .. QueueSize
  /\ gIxToStore \in Ix
  /\ gIxToOutput \in Ix
  /\ gThrVarHaveFrames \in BOOLEAN
  /\ gPEntries \in [Sides -> [Ix -> Frame]]
  /\ available \subseteq Sides /\ adaptFps \in BOOLEAN
  /\ outputCams \in Modes /\ prodOutputCams \in Modes
  /\ lastOutputCams \in Modes /\ consOutputCams \in Modes
  /\ needToStop \in BOOLEAN /\ runningHandlers \in BOOLEAN
  /\ camStreamsOpened \in BOOLEAN /\ haveClients \in BOOLEAN
  /\ flushed \in BOOLEAN
  /\ switches \in 0 .. MaxSwitches
  /\ emptyFrameCnt \in 0 .. MaxEmptyFrames + 1
  /\ waitCnt \in 0 .. MaxWaits
  /\ frameNr \in Frame
  /\ mats \in [Sides -> Frame] /\ got \in [Sides -> Frame]
  /\ view \in Ix
  /\ prodPc \in {"open", "opened", "run", "loop", "append", "restart", "drain",
                 "ended"}
  /\ consPc \in {"start", "wait", "loop", "process", "ended"}

(* The flag that the consumer waits on, the count and the two indices      *)
(* always agree: the flag is up exactly when there are entries, and the    *)
(* next entry to be stored follows the last one that is waiting.           *)
QueueConsistent ==
  /\ gThrVarHaveFrames <=> gCountInBuf # 0
  /\ gIxToStore = (gIxToOutput + gCountInBuf) % QueueSize

(* All sides of an entry that the producer is supplying come from the same *)
(* grab.                                                                   *)
SidesOfOneGrab ==
  \A n \in 0 .. gCountInBuf - 1 : \A s, r \in lastOutputCams :
    gPEntries[s][EntryIx(n)] = gPEntries[r][EntryIx(n)]

(* Without adaption of the frame rate, the sides of an entry come from the *)
(* same grab and later entries from later grabs: frames from before a      *)
(* switch of the cameras never wait in the queue beside new ones.          *)
QueuedEntriesPaired ==
  ~adaptFps =>
    /\ SidesOfOneGrab
    /\ \A n \in 0 .. gCountInBuf - 1 : \A m \in 0 .. n - 1, s \in lastOutputCams :
         gPEntries[s][EntryIx(m)] < gPEntries[s][EntryIx(n)]

(* frame_producer.cpp:368, "grab frames in a synchronized manner": with    *)
(* adaption too, what waits in the queue was grabbed together.             *)
EntriesSynchronized == SidesOfOneGrab

(* The consumer never processes a side that has no camera source or that   *)
(* no frame was written to, whatever order the handlers, the producer's    *)
(* start and its own snapshots come in.                                    *)
OnlyWrittenFrames ==
  consPc = "process" => \A s \in consOutputCams : s \in available /\ got[s] # 0

(* Without adaption of the frame rate, a frame that the consumer is        *)
(* processing in place is overwritten, if the queue was not flushed        *)
(* meanwhile, only by a producer that is a whole round of the ring ahead.  *)
OverwrittenOnlyByLap ==
  consPc = "process" /\ ~flushed /\ ~adaptFps =>
    \A s \in consOutputCams \cap lastOutputCams :
      \/ gPEntries[s][view] = got[s]
      \/ gPEntries[s][view] >= got[s] + QueueSize

(* The sides that the producer supplies are processed in the order of the  *)
(* grabs, across switches and dropped entries, each frame at most once.  A *)
(* frame may come again, but never an older one, while the sides that are  *)
(* grabbed and the sides that are stored disagree after a restart of the   *)
(* streams (which there is only with adaption of the frame rate).          *)
FramesInOrder ==
  [][ consPc = "loop" /\ consPc' = "process" =>
        \A s \in consOutputCams \cap lastOutputCams :
          got'[s] > got[s] \/ (adaptFps /\ got'[s] = got[s]) ]_vars

(* Once the stop flag is set, both threads end.                            *)
StopEndsWorkers == needToStop ~> (prodPc = "ended" /\ consPc = "ended")

(* If the producer ends, for whatever reason (cameras that cannot be       *)
(* opened or stop delivering, an exception), everybody is told to stop.    *)
ProducerEndStopsAll == prodPc = "ended" ~> (needToStop /\ consPc = "ended")
=============================================================================

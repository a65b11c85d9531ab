-------------------------- MODULE FramePipelineProofs --------------------------
(***************************************************************************)
(* Theorems about the frame producer, the frame consumer and the queue     *)
(* between them, for every size of the queue, every number of frames, of   *)
(* grabs that fail and of switches of the cameras, with and without        *)
(* adaption of the frame rate.                                             *)
(***************************************************************************)
EXTENDS FramePipeline, SequenceTheorems, TLAPS

(* The number of the frame that is appended next.                          *)
NextFrame == IF prodPc = "append" THEN frameNr ELSE frameNr + 1

(* The entries that are waiting, counted from the oldest.                  *)
Waiting == 0 .. gCountInBuf - 1

Entry(s, n) == gPEntries[s][EntryIx(n)]

(* Nothing is queued or processed before the producer's loop begins, and   *)
(* the loop ends with the first failed grab too many.                      *)
PhasesInv ==
  /\ prodPc \in {"open", "opened", "run"} => gCountInBuf = 0 /\ consPc # "process"
  /\ prodPc \notin {"drain", "ended"} => emptyFrameCnt <= MaxEmptyFrames

(* Frames come from cameras that there are, and nothing is newer than what *)
(* it was taken from: neither an entry than the frame its side retrieved   *)
(* last, nor what the consumer found.                                      *)
FramesInv ==
  \A s \in Sides :
    /\ mats[s] <= frameNr
    /\ mats[s] # 0 => s \in available
    /\ got[s] <= mats[s] /\ got[s] < NextFrame
    /\ \A ix \in Ix : gPEntries[s][ix] <= mats[s] /\ gPEntries[s][ix] < NextFrame

(* What is processed was there.                                            *)
FoundInv == consPc = "process" => \A s \in consOutputCams : got[s] # 0

(* On the sides that are supplied, no entry is older than the ones before  *)
(* it or than what was processed.                                          *)
OrderInv ==
  \A s \in lastOutputCams, n \in Waiting :
    /\ got[s] <= Entry(s, n)
    /\ \A m \in 0 .. n - 1 : Entry(s, m) <= Entry(s, n)

(* The sides that are grabbed are those that are stored.                   *)
GrabsSteady ==
  /\ prodPc # "restart"
  /\ prodOutputCams = lastOutputCams
  /\ prodPc = "append" => \A s \in lastOutputCams : mats[s] = frameNr

(* Every entry is newer than the ones before it and than what was          *)
(* processed, and at least as old as the number of entries that follow it. *)
StrictOrder ==
  \A s \in lastOutputCams, n \in Waiting :
    /\ got[s] < Entry(s, n)
    /\ Entry(s, n) + (gCountInBuf - n) <= NextFrame
    /\ \A m \in 0 .. n - 1 : Entry(s, m) < Entry(s, n)

(* All this holds without adaption of the frame rate.                      *)
SteadyInv == ~adaptFps => GrabsSteady /\ StrictOrder /\ SidesOfOneGrab

(* How many entries the next one to be stored is ahead of the one that is  *)
(* being processed.                                                        *)
Ahead == IF gIxToStore > view THEN gIxToStore - view
                              ELSE gIxToStore + QueueSize - view

(* The frame that is appended next is as much newer than the one that is   *)
(* being processed as its entry is ahead, or by whole rounds more.         *)
LapInv ==
  consPc = "process" /\ ~flushed /\ ~adaptFps =>
    \A s \in consOutputCams \cap lastOutputCams :
      /\ gPEntries[s][view] = got[s] \/ gPEntries[s][view] >= got[s] + QueueSize
      /\ got[s] + Ahead <= NextFrame

Inv ==
  /\ TypeOK /\ QueueConsistent /\ PhasesInv
  /\ FramesInv /\ FoundInv /\ OrderInv
  /\ SteadyInv /\ LapInv
-----------------------------------------------------------------------------
(* The remainder of an index that is at most one round too large.          *)
LEMMA IndexOfRound ==
  ASSUME NEW ix \in Ix, NEW n \in 0 .. QueueSize
  PROVE  /\ (ix + n) % QueueSize = IF ix + n < QueueSize THEN ix + n
                                                       ELSE ix + n - QueueSize
         /\ (ix + n) % QueueSize \in Ix
BY QueueSizeAssumption DEF Ix

LEMMA AdvancedInRing ==
  ASSUME NEW ix \in Ix
  PROVE  Advanced(ix) \in Ix
BY QueueSizeAssumption DEF Ix, Advanced

LEMMA EntriesInRing ==
  ASSUME TypeOK, NEW n \in Waiting
  PROVE  /\ EntryIx(n) = IF gIxToOutput + n < QueueSize THEN gIxToOutput + n
                                               ELSE gIxToOutput + n - QueueSize
         /\ EntryIx(n) \in Ix
BY IndexOfRound, QueueSizeAssumption DEF TypeOK, Waiting, EntryIx

(* Where the next entry is stored, without a remainder.                    *)
LEMMA StoreFollows ==
  ASSUME TypeOK
  PROVE  QueueConsistent <=>
           /\ gThrVarHaveFrames <=> gCountInBuf # 0
           /\ gIxToStore = IF gIxToOutput + gCountInBuf < QueueSize
                             THEN gIxToOutput + gCountInBuf
                             ELSE gIxToOutput + gCountInBuf - QueueSize
BY IndexOfRound DEF TypeOK, QueueConsistent
-----------------------------------------------------------------------------
(* An append leaves a queue of its type whose indices and count agree.     *)
LEMMA AppendKeepsQueue ==
  ASSUME TypeOK, QueueConsistent, appendFramesToQueue(lastOutputCams, mats)
  PROVE  /\ gCountInBuf' = IF gCountInBuf = QueueSize THEN QueueSize ELSE gCountInBuf + 1
         /\ gCountInBuf' \in 1 .. QueueSize
         /\ gIxToStore' \in Ix /\ gIxToOutput' \in Ix
         /\ gThrVarHaveFrames' \in BOOLEAN
         /\ gPEntries' \in [Sides -> [Ix -> Frame]]
         /\ QueueConsistent'
<1>. USE QueueSizeAssumption
<1>1. gIxToStore' = Advanced(gIxToStore) /\ gThrVarHaveFrames' = TRUE
  BY DEF appendFramesToQueue, StoreAfterAppend
<1>2. gIxToOutput' = IF gCountInBuf = QueueSize THEN Advanced(gIxToOutput)
                                                ELSE gIxToOutput
  BY DEF appendFramesToQueue, OutputAfterAppend, IsFull
<1>3. gCountInBuf' = IF gCountInBuf = QueueSize THEN QueueSize ELSE gCountInBuf + 1
  BY DEF appendFramesToQueue, IsFull
<1>4. gCountInBuf' \in 1 .. QueueSize
  BY <1>3 DEF TypeOK
<1>5. gIxToStore' \in Ix /\ gIxToOutput' \in Ix
  BY <1>1, <1>2, AdvancedInRing DEF TypeOK
<1>6. gPEntries' \in [Sides -> [Ix -> Frame]]
  BY DEF appendFramesToQueue, TypeOK
<1>7. gIxToStore = IF gIxToOutput + gCountInBuf < QueueSize
                     THEN gIxToOutput + gCountInBuf
                     ELSE gIxToOutput + gCountInBuf - QueueSize
  BY StoreFollows
<1>8. gIxToStore' = IF gIxToOutput' + gCountInBuf' < QueueSize
                      THEN gIxToOutput' + gCountInBuf'
                      ELSE gIxToOutput' + gCountInBuf' - QueueSize
  BY <1>1, <1>2, <1>3, <1>7 DEF TypeOK, Ix, Advanced
<1>9. QueueConsistent'
  <2>1. (gIxToOutput' + gCountInBuf') % QueueSize
          = IF gIxToOutput' + gCountInBuf' < QueueSize
              THEN gIxToOutput' + gCountInBuf'
              ELSE gIxToOutput' + gCountInBuf' - QueueSize
    BY <1>4, <1>5, IndexOfRound
  <2>2. QED
    BY <1>1, <1>4, <1>8, <2>1 DEF QueueConsistent
<1>10. QED
  BY <1>1, <1>3, <1>4, <1>5, <1>6, <1>9

(* Where an entry was before an append: a full queue lost its oldest.      *)
Former(n) == IF gCountInBuf = QueueSize THEN n + 1 ELSE n

(* After an append the new frames are the last entry, and the others are   *)
(* the ones that were there, without the oldest if the queue was full.     *)
LEMMA AppendedEntries ==
  ASSUME TypeOK, QueueConsistent, appendFramesToQueue(lastOutputCams, mats),
         NEW s \in lastOutputCams, NEW n \in 0 .. gCountInBuf' - 1
  PROVE  IF n = gCountInBuf' - 1
           THEN Entry(s, n)' = mats[s]
           ELSE Former(n) \in Waiting /\ Entry(s, n)' = Entry(s, Former(n))
<1>. USE QueueSizeAssumption
<1>1. /\ gCountInBuf \in 0 .. QueueSize
      /\ gIxToOutput \in 0 .. QueueSize - 1
      /\ gIxToStore \in 0 .. QueueSize - 1
      /\ gPEntries \in [Sides -> [Ix -> Frame]]
      /\ s \in Sides
  BY DEF TypeOK, Ix, Modes, Sides
<1>2. /\ gCountInBuf' = IF gCountInBuf = QueueSize THEN QueueSize ELSE gCountInBuf + 1
      /\ gPEntries'[s] = [gPEntries[s] EXCEPT ![gIxToStore] = mats[s]]
  BY <1>1 DEF appendFramesToQueue, IsFull
<1>3. gIxToStore = IF gIxToOutput + gCountInBuf < QueueSize
                     THEN gIxToOutput + gCountInBuf
                     ELSE gIxToOutput + gCountInBuf - QueueSize
  BY StoreFollows
<1>4. gIxToOutput' = IF gCountInBuf = QueueSize
                       THEN IF gIxToOutput + 1 = QueueSize THEN 0 ELSE gIxToOutput + 1
                       ELSE gIxToOutput
  BY <1>1 DEF appendFramesToQueue, OutputAfterAppend, IsFull, Advanced
<1>5. EntryIx(n)' = IF gIxToOutput' + n < QueueSize THEN gIxToOutput' + n
                                           ELSE gIxToOutput' + n - QueueSize
  <2>1. n \in 0 .. QueueSize /\ gIxToOutput' \in Ix
    BY <1>1, <1>2, <1>4, AppendKeepsQueue
  <2>2. QED
    BY <2>1, IndexOfRound DEF EntryIx
<1>6. CASE n = gCountInBuf' - 1
  <2>1. EntryIx(n)' = gIxToStore
    BY <1>1, <1>2, <1>3, <1>4, <1>5, <1>6
  <2>2. QED
    BY <1>1, <1>2, <1>6, <2>1 DEF Entry, Ix
<1>7. CASE n # gCountInBuf' - 1
  <2>1. Former(n) \in Waiting
    BY <1>1, <1>2, <1>7 DEF Waiting, Former
  <2>2. /\ EntryIx(Former(n)) = IF gIxToOutput + Former(n) < QueueSize
                                  THEN gIxToOutput + Former(n)
                                  ELSE gIxToOutput + Former(n) - QueueSize
        /\ EntryIx(Former(n)) \in Ix
    BY <2>1, EntriesInRing
  <2>3. EntryIx(n)' = EntryIx(Former(n)) /\ EntryIx(Former(n)) # gIxToStore
    BY <1>1, <1>2, <1>3, <1>4, <1>5, <1>7, <2>2 DEF Former
  <2>4. gPEntries'[s][EntryIx(Former(n))] = gPEntries[s][EntryIx(Former(n))]
    BY <1>1, <1>2, <2>2, <2>3
  <2>5. QED
    BY <1>7, <2>1, <2>3, <2>4 DEF Entry
<1>8. QED
  BY <1>6, <1>7

(* Taking an entry leaves a queue of its type whose indices and count agree.*)
LEMMA GetKeepsQueue ==
  ASSUME TypeOK, QueueConsistent, getFramesFromQueue, gThrVarHaveFrames
  PROVE  /\ gCountInBuf' = gCountInBuf - 1
         /\ gCountInBuf' \in 0 .. QueueSize - 1
         /\ gIxToOutput' \in Ix
         /\ gThrVarHaveFrames' \in BOOLEAN
         /\ UNCHANGED <<gIxToStore, gPEntries>>
         /\ QueueConsistent'
<1>. USE QueueSizeAssumption
<1>1. /\ gIxToOutput' = Advanced(gIxToOutput)
      /\ gCountInBuf' = gCountInBuf - 1
      /\ gThrVarHaveFrames' = (gCountInBuf - 1 # 0)
      /\ UNCHANGED <<gIxToStore, gPEntries>>
  BY DEF getFramesFromQueue
<1>2. gCountInBuf' \in 0 .. QueueSize - 1
  BY <1>1 DEF TypeOK, QueueConsistent
<1>3. gIxToOutput' \in Ix
  BY <1>1, AdvancedInRing DEF TypeOK
<1>4. gIxToStore = IF gIxToOutput + gCountInBuf < QueueSize
                     THEN gIxToOutput + gCountInBuf
                     ELSE gIxToOutput + gCountInBuf - QueueSize
  BY StoreFollows
<1>5. gIxToStore' = IF gIxToOutput' + gCountInBuf' < QueueSize
                      THEN gIxToOutput' + gCountInBuf'
                      ELSE gIxToOutput' + gCountInBuf' - QueueSize
  BY <1>1, <1>2, <1>4 DEF TypeOK, Ix, Advanced
<1>6. QueueConsistent'
  <2>1. (gIxToOutput' + gCountInBuf') % QueueSize
          = IF gIxToOutput' + gCountInBuf' < QueueSize
              THEN gIxToOutput' + gCountInBuf'
              ELSE gIxToOutput' + gCountInBuf' - QueueSize
    BY <1>2, <1>3, IndexOfRound
  <2>2. QED
    BY <1>1, <1>2, <1>5, <2>1 DEF QueueConsistent
<1>7. QED
  BY <1>1, <1>2, <1>3, <1>6

(* After an entry was taken the others are the ones behind it.             *)
LEMMA RemainingEntries ==
  ASSUME TypeOK, QueueConsistent, getFramesFromQueue, gThrVarHaveFrames,
         NEW s \in Sides, NEW n \in 0 .. gCountInBuf' - 1
  PROVE  /\ n + 1 \in Waiting
         /\ Entry(s, n)' = Entry(s, n + 1)
<1>. USE QueueSizeAssumption
<1>1. /\ gCountInBuf' = gCountInBuf - 1
      /\ gIxToOutput' \in Ix
      /\ gPEntries' = gPEntries
  BY GetKeepsQueue
<1>2. n + 1 \in Waiting /\ n \in 0 .. QueueSize
  BY <1>1 DEF Waiting, TypeOK
<1>3. gIxToOutput' = IF gIxToOutput + 1 = QueueSize THEN 0 ELSE gIxToOutput + 1
  BY DEF getFramesFromQueue, Advanced
<1>4. EntryIx(n)' = IF gIxToOutput' + n < QueueSize THEN gIxToOutput' + n
                                           ELSE gIxToOutput' + n - QueueSize
  BY <1>1, <1>2, IndexOfRound DEF EntryIx
<1>5. EntryIx(n + 1) = IF gIxToOutput + (n + 1) < QueueSize THEN gIxToOutput + (n + 1)
                                           ELSE gIxToOutput + (n + 1) - QueueSize
  BY <1>2, EntriesInRing
<1>6. EntryIx(n)' = EntryIx(n + 1)
  <2>1. gIxToOutput \in 0 .. QueueSize - 1 /\ gCountInBuf \in 0 .. QueueSize
    BY DEF TypeOK, Ix
  <2>2. n \in Nat /\ n + 1 < QueueSize
    BY <1>1, <1>2, <2>1 DEF Waiting
  <2>3. QED
    BY <1>3, <1>4, <1>5, <2>1, <2>2
<1>7. QED
  BY <1>1, <1>2, <1>6 DEF Entry
-----------------------------------------------------------------------------
LEMMA ModesAfterOpen == outputCams \in Modes => OutputCamsAfterOpen \in Modes
BY DEF OutputCamsAfterOpen, Modes

(* The steps of the environment keep the types.                            *)
LEMMA EnvironmentTypes == TypeOK /\ Environment => TypeOK'
<1>. SUFFICES ASSUME TypeOK, Environment PROVE TypeOK'
  OBVIOUS
<1>. USE PipelineAssumption DEF TypeOK, rawQueue, config, producer, consumer
<1>1. ASSUME NEW mode \in Modes, HandlersSetOutputCams(mode) PROVE TypeOK'
  BY <1>1 DEF HandlersSetOutputCams
<1>2. CASE HandlersComeOrGo
  BY <1>2 DEF HandlersComeOrGo
<1>3. CASE SetFlagNeedToStop
  BY <1>3 DEF SetFlagNeedToStop
<1>4. QED
  BY <1>1, <1>2, <1>3 DEF Environment

(* The producer flushes the queue unless its cameras stay the same.        *)
LEMMA UpdateOptionsQueue ==
  ASSUME UpdateOptions
  PROVE  \/ /\ lastOutputCams' = lastOutputCams
            /\ UNCHANGED <<gCountInBuf, gIxToStore, gIxToOutput,
                           gThrVarHaveFrames, gPEntries, flushed>>
         \/ /\ gCountInBuf' = 0 /\ gIxToStore' = 0 /\ gIxToOutput' = 0
            /\ gThrVarHaveFrames' = FALSE /\ gPEntries' = gPEntries
            /\ flushed' = TRUE
BY DEF UpdateOptions, flushQueue, CountAfterFlush, rawQueue

(* The steps of the producer keep the types.                               *)
LEMMA ProducerTypes ==
  TypeOK /\ QueueConsistent /\ PhasesInv /\ (ProducerWorks \/ ProducerFailures) => TypeOK'
<1>. SUFFICES ASSUME TypeOK, QueueConsistent, PhasesInv, ProducerWorks \/ ProducerFailures
              PROVE  TypeOK'
  OBVIOUS
<1>. USE PipelineAssumption, QueueSizeAssumption
     DEF TypeOK, rawQueue, config, shared, consumer
<1>1. CASE OpenStreamsFails \/ ProducerSeesStop \/ ProducerFails \/ NoRestart
  <2>1. /\ UNCHANGED <<rawQueue, shared, consumer, flushed>>
        /\ UNCHANGED <<camStreamsOpened, prodOutputCams, lastOutputCams,
                       haveClients, emptyFrameCnt, waitCnt, frameNr, mats>>
        /\ prodPc' \in {"ended", "drain", "loop"}
    BY <1>1 DEF OpenStreamsFails, ProducerSeesStop, ProducerFails, NoRestart
  <2>2. QED
    BY <2>1
<1>10. CASE SetFlagCamStreamsOpened
  BY <1>10 DEF SetFlagCamStreamsOpened
<1>11. CASE ProducerRuns
  BY <1>11 DEF ProducerRuns
<1>12. CASE CheckClients
  BY <1>12 DEF CheckClients
<1>2. CASE OpenStreams \/ RestartCamStreams
  BY <1>2, ModesAfterOpen DEF OpenStreams, RestartCamStreams
<1>3. CASE UpdateOptions
  <2>1. /\ gCountInBuf' \in 0 .. QueueSize
        /\ gIxToStore' \in Ix /\ gIxToOutput' \in Ix
        /\ gThrVarHaveFrames' \in BOOLEAN
        /\ gPEntries' = gPEntries
        /\ flushed' \in BOOLEAN
    <3>1. 0 \in Ix /\ 0 \in 0 .. QueueSize
      BY DEF Ix
    <3>2. QED
      BY <1>3, <3>1, UpdateOptionsQueue
  <2>2. QED
    BY <1>3, <2>1 DEF UpdateOptions
<1>4. CASE GrabFrames
  <2>1. frameNr' \in Frame /\ mats' \in [Sides -> Frame]
    BY <1>4 DEF GrabFrames, MatsAfterGrab, Frame
  <2>2. QED
    BY <1>4, <2>1 DEF GrabFrames
<1>5. CASE GrabFails
  <2>1. emptyFrameCnt' \in 0 .. MaxEmptyFrames + 1
    BY <1>5 DEF GrabFails, PhasesInv
  <2>2. outputCams' \in Modes /\ prodPc' \in {"drain", prodPc}
    BY <1>5, ModesAfterOpen DEF GrabFails
  <2>3. QED
    BY <1>5, <2>1, <2>2 DEF GrabFails
<1>6. CASE AppendFrames
  <2>1. /\ gCountInBuf' \in 0 .. QueueSize
        /\ gIxToStore' \in Ix /\ gIxToOutput' \in Ix
        /\ gThrVarHaveFrames' \in BOOLEAN
        /\ gPEntries' \in [Sides -> [Ix -> Frame]]
    BY <1>6, AppendKeepsQueue DEF AppendFrames
  <2>2. QED
    BY <1>6, <2>1 DEF AppendFrames
<1>7. CASE WaitForQueue
  BY <1>7 DEF WaitForQueue, StillWaiting, WaitsAfterRound
<1>8. CASE ProducerEnds
  BY <1>8 DEF ProducerEnds, StopAfterProducer
<1>9. QED
  BY <1>1, <1>2, <1>3, <1>4, <1>5, <1>6, <1>7, <1>8, <1>10, <1>11, <1>12
     DEF ProducerWorks, ProducerFailures

(* Without entries nothing happens to the queue, and nothing is found.     *)
LEMMA GetFromEmpty ==
  ASSUME GetFrames, ~gThrVarHaveFrames
  PROVE  UNCHANGED <<rawQueue, shared, producer, consumer, flushed>>
BY DEF GetFrames, getFramesFromQueue, FramesThere, consumer

(* The steps of the consumer keep the types.                               *)
LEMMA ConsumerTypes ==
  TypeOK /\ QueueConsistent /\ (ConsumerWorks \/ ConsumerFailures) => TypeOK'
<1>. SUFFICES ASSUME TypeOK, QueueConsistent, ConsumerWorks \/ ConsumerFailures
              PROVE  TypeOK'
  OBVIOUS
<1>. USE DEF TypeOK, rawQueue, config, shared, producer
<1>1. CASE ConsumerStarts \/ CamStreamsAreOpen \/ ConsumerSeesStop
           \/ ConsumerUpdatesOptions \/ FramesProcessed
  BY <1>1 DEF ConsumerStarts, CamStreamsAreOpen, ConsumerSeesStop,
     ConsumerUpdatesOptions, FramesProcessed
<1>2. CASE WaitTimesOut \/ WrongFrameSize \/ ConsumerFails
  <2>1. /\ UNCHANGED <<rawQueue, config, outputCams, runningHandlers, switches>>
        /\ UNCHANGED <<producer, consOutputCams, view, got, flushed>>
        /\ needToStop' = TRUE
        /\ consPc' \in {"loop", "ended"}
    BY <1>2 DEF WaitTimesOut, WrongFrameSize, ConsumerFails
  <2>2. QED
    BY <2>1
<1>3. CASE GetFrames
  <2>1. CASE ~gThrVarHaveFrames
    BY <1>3, <2>1, GetFromEmpty DEF consumer
  <2>2. CASE gThrVarHaveFrames
    <3>1. /\ gCountInBuf' \in 0 .. QueueSize
          /\ gIxToStore' \in Ix /\ gIxToOutput' \in Ix
          /\ gThrVarHaveFrames' \in BOOLEAN
          /\ gPEntries' \in [Sides -> [Ix -> Frame]]
      BY <1>3, <2>2, GetKeepsQueue, QueueSizeAssumption DEF GetFrames
    <3>2. got' \in [Sides -> Frame] /\ view' \in Ix /\ flushed' \in BOOLEAN
      <4>1. CASE FramesThere(consOutputCams)
        <5>1. /\ view' = gIxToOutput /\ flushed' = FALSE
              /\ got' = [r \in Sides |-> IF r \in consOutputCams
                                           THEN gPEntries[r][gIxToOutput] ELSE got[r]]
          BY <1>3, <4>1 DEF GetFrames
        <5>2. QED
          BY <5>1
      <4>2. QED
        BY <1>3, <4>1 DEF GetFrames
    <3>3. QED
      BY <1>3, <3>1, <3>2 DEF GetFrames
  <2>3. QED
    BY <2>1, <2>2
<1>4. QED
  BY <1>1, <1>2, <1>3 DEF ConsumerWorks, ConsumerFailures

LEMMA TypesStep ==
  ASSUME TypeOK, QueueConsistent, PhasesInv, [Next]_vars
  PROVE  TypeOK'
<1>1. CASE UNCHANGED vars
  BY <1>1 DEF vars, rawQueue, config, shared, producer, consumer, TypeOK
<1>2. QED
  BY <1>1, EnvironmentTypes, ProducerTypes, ConsumerTypes DEF Next
-----------------------------------------------------------------------------
(* Which steps do something to the queue, to what the consumer processes,  *)
(* or to what the producer grabbed and is to append.                       *)
QueueSteps == UpdateOptions \/ AppendFrames \/ GetFrames

LEMMA OtherStepsKeepQueue ==
  ASSUME [Next]_vars, ~QueueSteps
  PROVE  UNCHANGED <<gCountInBuf, gIxToStore, gIxToOutput, gThrVarHaveFrames,
                     gPEntries, view, got, flushed>>
<1>. USE DEF rawQueue, config, shared, producer, consumer
<1>1. CASE Environment
  BY <1>1 DEF Environment, HandlersSetOutputCams, HandlersComeOrGo, SetFlagNeedToStop
<1>2. CASE ProducerWorks
  BY <1>2 DEF QueueSteps, ProducerWorks, OpenStreams, SetFlagCamStreamsOpened,
     ProducerRuns, ProducerSeesStop, CheckClients, GrabFrames, RestartCamStreams,
     NoRestart, WaitForQueue, ProducerEnds
<1>3. CASE ProducerFailures
  BY <1>3 DEF ProducerFailures, OpenStreamsFails, ProducerFails, GrabFails
<1>4. CASE ConsumerWorks
  BY <1>4 DEF QueueSteps, ConsumerWorks, ConsumerStarts, CamStreamsAreOpen,
     WaitTimesOut, ConsumerSeesStop, ConsumerUpdatesOptions, FramesProcessed
<1>5. CASE ConsumerFailures
  BY <1>5 DEF ConsumerFailures, WrongFrameSize, ConsumerFails
<1>6. CASE UNCHANGED vars
  BY <1>6 DEF vars
<1>7. QED
  BY <1>1, <1>2, <1>3, <1>4, <1>5, <1>6 DEF Next

(* The consumer begins to process by taking an entry, and does not change  *)
(* its mind about the sides until it is done.                              *)
LEMMA ProcessingSteps ==
  ASSUME [Next]_vars, ~GetFrames, consPc' = "process"
  PROVE  consPc = "process" /\ consOutputCams' = consOutputCams
<1>. USE DEF rawQueue, config, shared, producer, consumer
<1>1. CASE Environment
  BY <1>1 DEF Environment, HandlersSetOutputCams, HandlersComeOrGo, SetFlagNeedToStop
<1>2. CASE ProducerWorks
  BY <1>2 DEF ProducerWorks, OpenStreams, SetFlagCamStreamsOpened, ProducerRuns,
     ProducerSeesStop, CheckClients, UpdateOptions, GrabFrames, AppendFrames,
     RestartCamStreams, NoRestart, WaitForQueue, ProducerEnds
<1>3. CASE ProducerFailures
  BY <1>3 DEF ProducerFailures, OpenStreamsFails, ProducerFails, GrabFails
<1>4. CASE ConsumerWorks
  BY <1>4 DEF ConsumerWorks, ConsumerStarts, CamStreamsAreOpen,
     WaitTimesOut, ConsumerSeesStop, ConsumerUpdatesOptions, FramesProcessed
<1>5. CASE ConsumerFailures
  BY <1>5 DEF ConsumerFailures, WrongFrameSize, ConsumerFails
<1>6. CASE UNCHANGED vars
  BY <1>6 DEF vars
<1>7. QED
  BY <1>1, <1>2, <1>3, <1>4, <1>5, <1>6 DEF Next

(* What the steps of the consumer and of the environment leave alone.      *)
LEMMA OthersKeepProducer ==
  ASSUME Environment \/ ConsumerWorks \/ ConsumerFailures
  PROVE  UNCHANGED <<producer, config>>
BY DEF Environment, HandlersSetOutputCams, HandlersComeOrGo, SetFlagNeedToStop,
   ConsumerWorks, ConsumerStarts, CamStreamsAreOpen, WaitTimesOut,
   ConsumerSeesStop, ConsumerUpdatesOptions, GetFrames, FramesProcessed,
   ConsumerFailures, WrongFrameSize, ConsumerFails, shared

(* Which steps do something to what the producer has grabbed, ...          *)
LEMMA OtherStepsKeepGrab ==
  ASSUME [Next]_vars, ~GrabFrames
  PROVE  UNCHANGED <<mats, frameNr, available, adaptFps>>
<1>. USE DEF config, shared, producer, consumer
<1>1. CASE Environment \/ ConsumerWorks \/ ConsumerFailures
  BY <1>1, OthersKeepProducer
<1>2. CASE ProducerWorks
  BY <1>2 DEF ProducerWorks, OpenStreams, SetFlagCamStreamsOpened, ProducerRuns,
     ProducerSeesStop, CheckClients, UpdateOptions, AppendFrames,
     RestartCamStreams, NoRestart, WaitForQueue, ProducerEnds
<1>3. CASE ProducerFailures
  BY <1>3 DEF ProducerFailures, OpenStreamsFails, ProducerFails, GrabFails
<1>4. CASE UNCHANGED vars
  BY <1>4 DEF vars
<1>5. QED
  BY <1>1, <1>2, <1>3, <1>4 DEF Next

(* ... and to the sides it stores.                                         *)
LEMMA OtherStepsKeepSides ==
  ASSUME [Next]_vars, ~UpdateOptions, ~ProducerRuns
  PROVE  lastOutputCams' = lastOutputCams
<1>. USE DEF config, shared, producer, consumer
<1>1. CASE Environment \/ ConsumerWorks \/ ConsumerFailures
  BY <1>1, OthersKeepProducer
<1>2. CASE ProducerWorks
  BY <1>2 DEF ProducerWorks, OpenStreams, SetFlagCamStreamsOpened,
     ProducerSeesStop, CheckClients, GrabFrames, AppendFrames,
     RestartCamStreams, NoRestart, WaitForQueue, ProducerEnds
<1>3. CASE ProducerFailures
  BY <1>3 DEF ProducerFailures, OpenStreamsFails, ProducerFails, GrabFails
<1>4. CASE UNCHANGED vars
  BY <1>4 DEF vars
<1>5. QED
  BY <1>1, <1>2, <1>3, <1>4 DEF Next

(* The next frame that is appended is never an earlier one than before.    *)
LEMMA NextFrameGrows ==
  ASSUME TypeOK, [Next]_vars
  PROVE  /\ NextFrame' >= NextFrame
         /\ AppendFrames => NextFrame' = NextFrame + 1
<1>. USE PipelineAssumption DEF NextFrame, TypeOK, Frame, config, shared, producer, consumer
<1>1. CASE Environment \/ ConsumerWorks \/ ConsumerFailures
  BY <1>1, OthersKeepProducer DEF AppendFrames
<1>2. CASE GrabFrames
  BY <1>2 DEF GrabFrames, AppendFrames
<1>3. CASE AppendFrames
  BY <1>3 DEF AppendFrames
<1>4. CASE ProducerWorks /\ ~GrabFrames /\ ~AppendFrames
  BY <1>4, OtherStepsKeepGrab DEF ProducerWorks, OpenStreams, SetFlagCamStreamsOpened,
     ProducerRuns, ProducerSeesStop, CheckClients, UpdateOptions,
     RestartCamStreams, NoRestart, WaitForQueue, ProducerEnds
<1>5. CASE ProducerFailures
  BY <1>5 DEF ProducerFailures, OpenStreamsFails, ProducerFails, GrabFails, AppendFrames
<1>6. CASE UNCHANGED vars
  BY <1>6 DEF vars, AppendFrames
<1>7. QED
  BY <1>1, <1>2, <1>3, <1>4, <1>5, <1>6 DEF Next
-----------------------------------------------------------------------------
(* The count, the flag and the indices keep agreeing.                      *)
LEMMA ConsistentStep ==
  ASSUME TypeOK, QueueConsistent, [Next]_vars
  PROVE  QueueConsistent'
<1>1. CASE UpdateOptions
  <2>1. 0 % QueueSize = 0
    BY QueueSizeAssumption
  <2>2. QED
    <3>1. CASE gCountInBuf' = 0 /\ gIxToStore' = 0 /\ gIxToOutput' = 0
               /\ gThrVarHaveFrames' = FALSE
      BY <2>1, <3>1 DEF QueueConsistent
    <3>2. CASE UNCHANGED <<gCountInBuf, gIxToStore, gIxToOutput, gThrVarHaveFrames>>
      BY <3>2 DEF QueueConsistent
    <3>3. QED
      BY <1>1, <3>1, <3>2, UpdateOptionsQueue
<1>2. CASE AppendFrames
  BY <1>2, AppendKeepsQueue DEF AppendFrames
<1>3. CASE GetFrames
  <2>1. CASE ~gThrVarHaveFrames
    BY <1>3, <2>1, GetFromEmpty DEF rawQueue, QueueConsistent
  <2>2. CASE gThrVarHaveFrames
    BY <1>3, <2>2, GetKeepsQueue DEF GetFrames
  <2>3. QED
    BY <2>1, <2>2
<1>4. CASE ~QueueSteps
  BY <1>4, OtherStepsKeepQueue DEF QueueConsistent
<1>5. QED
  BY <1>1, <1>2, <1>3, <1>4 DEF QueueSteps

(* Until the producer's loop begins nothing is appended, so that there is  *)
(* nothing to be taken either.                                             *)
LEMMA PhasesStep ==
  ASSUME TypeOK, QueueConsistent, PhasesInv, [Next]_vars
  PROVE  PhasesInv'
<1>. USE PipelineAssumption DEF PhasesInv, config, shared, producer, consumer
<1>1. CASE Environment
  BY <1>1, OthersKeepProducer DEF Environment, HandlersSetOutputCams,
     HandlersComeOrGo, SetFlagNeedToStop, rawQueue
<1>2. CASE GetFrames
  <2>1. CASE ~gThrVarHaveFrames
    BY <1>2, <2>1, GetFromEmpty DEF rawQueue
  <2>2. CASE gThrVarHaveFrames
    <3>1. prodPc \notin {"open", "opened", "run"}
      BY <2>2 DEF QueueConsistent
    <3>2. QED
      BY <1>2, <3>1 DEF GetFrames
  <2>3. QED
    BY <2>1, <2>2
<1>3. CASE ~GetFrames /\ (ConsumerWorks \/ ConsumerFailures)
  <2>1. gCountInBuf' = gCountInBuf /\ UNCHANGED producer
    BY <1>3, OthersKeepProducer DEF ConsumerWorks, ConsumerStarts, CamStreamsAreOpen,
       WaitTimesOut, ConsumerSeesStop, ConsumerUpdatesOptions, FramesProcessed,
       ConsumerFailures, WrongFrameSize, ConsumerFails, rawQueue
  <2>2. consPc' = "process" => consPc = "process"
    BY <1>3, ProcessingSteps
  <2>3. QED
    BY <2>1, <2>2
<1>4. CASE OpenStreams \/ SetFlagCamStreamsOpened \/ OpenStreamsFails
  BY <1>4 DEF OpenStreams, SetFlagCamStreamsOpened, OpenStreamsFails, rawQueue
<1>5. CASE GrabFails
  BY <1>5 DEF GrabFails, TypeOK
<1>6. CASE ProducerWorks /\ ~OpenStreams /\ ~SetFlagCamStreamsOpened
  BY <1>6 DEF ProducerWorks, ProducerRuns, ProducerSeesStop, CheckClients,
     UpdateOptions, GrabFrames, AppendFrames, RestartCamStreams, NoRestart,
     WaitForQueue, ProducerEnds
<1>7. CASE ProducerFails
  BY <1>7 DEF ProducerFails
<1>8. CASE UNCHANGED vars
  BY <1>8 DEF vars, rawQueue
<1>9. QED
  BY <1>1, <1>2, <1>3, <1>4, <1>5, <1>6, <1>7, <1>8
     DEF Next, ProducerFailures, ConsumerWorks

(* Frames are numbers.                                                     *)
LEMMA FramesAreNumbers ==
  ASSUME TypeOK
  PROVE  /\ frameNr \in Nat /\ NextFrame \in Nat
         /\ \A s \in Sides : mats[s] \in Nat /\ got[s] \in Nat
         /\ \A s \in Sides, ix \in Ix : gPEntries[s][ix] \in Nat
<1>1. Frame \subseteq Nat
  BY PipelineAssumption DEF Frame
<1>2. /\ frameNr \in Frame /\ mats \in [Sides -> Frame] /\ got \in [Sides -> Frame]
      /\ gPEntries \in [Sides -> [Ix -> Frame]]
  BY DEF TypeOK
<1>3. \A s \in Sides, ix \in Ix : gPEntries[s][ix] \in Frame
  BY <1>2
<1>4. frameNr \in Nat /\ frameNr + 1 \in Nat
  BY <1>1, <1>2
<1>5. NextFrame \in Nat
  BY <1>4 DEF NextFrame
<1>6. \A s \in Sides : mats[s] \in Nat /\ got[s] \in Nat
  BY <1>1, <1>2
<1>7. QED
  BY <1>1, <1>3, <1>4, <1>5, <1>6

LEMMA NextFrameType ==
  ASSUME TypeOK, [Next]_vars
  PROVE  NextFrame' \in Nat
<1>1. (frameNr' = frameNr \/ frameNr' = frameNr + 1) /\ frameNr \in Nat
  BY FramesAreNumbers, OtherStepsKeepGrab DEF GrabFrames
<1>2. frameNr' \in Nat /\ frameNr' + 1 \in Nat
  BY <1>1
<1>3. NextFrame' = frameNr' \/ NextFrame' = frameNr' + 1
  BY DEF NextFrame
<1>4. QED
  BY <1>2, <1>3

(* Frames are never newer than what they were taken from.                  *)
LEMMA FramesStep ==
  ASSUME TypeOK, FramesInv, [Next]_vars
  PROVE  FramesInv'
<1>. USE DEF FramesInv
<1>. USE FramesAreNumbers, NextFrameGrows, NextFrameType
<1>1. CASE GrabFrames
  <2>1. ASSUME NEW s \in Sides
        PROVE  /\ mats'[s] \in {mats[s], frameNr + 1}
               /\ mats'[s] = mats[s] \/ s \in available
    BY <1>1 DEF GrabFrames, MatsAfterGrab
  <2>2. /\ UNCHANGED <<gPEntries, got, available, NextFrame>>
        /\ frameNr' = frameNr + 1
    BY <1>1 DEF GrabFrames, NextFrame, rawQueue, shared, config, consumer
  <2>3. SUFFICES ASSUME NEW s \in Sides
                 PROVE  /\ mats'[s] <= frameNr'
                        /\ mats'[s] # 0 => s \in available
                        /\ got[s] <= mats'[s] /\ got[s] < NextFrame
                        /\ \A ix \in Ix : gPEntries[s][ix] <= mats'[s]
                                           /\ gPEntries[s][ix] < NextFrame
    BY <2>2
  <2>4. mats[s] <= mats'[s] /\ mats'[s] <= frameNr + 1 /\ mats'[s] \in Nat
    BY <2>1
  <2>5. QED
    BY <2>1, <2>2, <2>4
<1>2. CASE AppendFrames
  <2>1. UNCHANGED <<mats, frameNr, got, available>> /\ NextFrame' = frameNr + 1
    BY <1>2 DEF AppendFrames, NextFrame, shared, config, consumer
  <2>2. ASSUME NEW s \in Sides, NEW ix \in Ix
        PROVE  gPEntries'[s][ix] \in {gPEntries[s][ix], mats[s]}
    BY <1>2 DEF AppendFrames, appendFramesToQueue, TypeOK
  <2>3. ASSUME NEW s \in Sides, NEW ix \in Ix
        PROVE  gPEntries'[s][ix] <= mats[s] /\ gPEntries'[s][ix] < frameNr + 1
    BY <2>2
  <2>4. QED
    BY <2>1, <2>3
<1>3. CASE GetFrames
  <2>1. ASSUME NEW s \in Sides
        PROVE  got'[s] \in {got[s], gPEntries[s][gIxToOutput]}
    BY <1>3 DEF GetFrames
  <2>2. gPEntries' = gPEntries
    BY <1>3 DEF GetFrames, getFramesFromQueue, rawQueue
  <2>3. UNCHANGED <<mats, frameNr, available, NextFrame>>
    BY <1>3 DEF GetFrames, NextFrame, shared, config, producer
  <2>4. ASSUME NEW s \in Sides
        PROVE  got'[s] <= mats[s] /\ got'[s] < NextFrame
    BY <2>1 DEF TypeOK
  <2>5. QED
    BY <2>2, <2>3, <2>4
<1>4. CASE UpdateOptions
  <2>1. gPEntries' = gPEntries /\ UNCHANGED <<mats, frameNr, available, got>>
    BY <1>4, UpdateOptionsQueue DEF UpdateOptions, shared, config, consumer
  <2>2. QED
    BY <2>1
<1>5. CASE ~QueueSteps /\ ~GrabFrames
  <2>1. UNCHANGED <<mats, frameNr, available, gPEntries, got>>
    BY <1>5, OtherStepsKeepQueue, OtherStepsKeepGrab
  <2>2. QED
    BY <2>1
<1>6. QED
  BY <1>1, <1>2, <1>3, <1>4, <1>5 DEF QueueSteps

(* What is processed was found there.                                      *)
LEMMA FoundStep ==
  ASSUME TypeOK, FoundInv, [Next]_vars
  PROVE  FoundInv'
<1>1. CASE GetFrames
  <2>1. CASE FramesThere(consOutputCams)
    <3>1. got' = [s \in Sides |-> IF s \in consOutputCams
                                    THEN gPEntries[s][gIxToOutput] ELSE got[s]]
      BY <1>1, <2>1 DEF GetFrames
    <3>2. consOutputCams' = consOutputCams /\ consOutputCams \subseteq Sides
      BY <1>1 DEF GetFrames, TypeOK, Modes, Sides
    <3>3. QED
      BY <2>1, <3>1, <3>2 DEF FramesThere, FoundInv
  <2>2. CASE ~FramesThere(consOutputCams)
    BY <1>1, <2>2 DEF GetFrames, FoundInv
  <2>3. QED
    BY <2>1, <2>2
<1>2. CASE ~GetFrames
  <2>1. got' = got
    BY <1>2, OtherStepsKeepQueue, Zenon
       DEF QueueSteps, UpdateOptions, AppendFrames, consumer
  <2>2. QED
    BY <1>2, <2>1, ProcessingSteps DEF FoundInv
<1>3. QED
  BY <1>1, <1>2
-----------------------------------------------------------------------------
(* The entries stay what they are if nothing happens to the queue.         *)
LEMMA EntriesKept ==
  ASSUME UNCHANGED <<gCountInBuf, gIxToOutput, gPEntries>>
  PROVE  Waiting' = Waiting /\ \A s, n : Entry(s, n)' = Entry(s, n)
BY DEF Waiting, Entry, EntryIx

(* What happens to the entries of the sides that are supplied, in a step   *)
(* that neither appends nor takes one: nothing, or they are gone.          *)
LEMMA EntriesKeptOrGone ==
  ASSUME TypeOK, PhasesInv, [Next]_vars, ~AppendFrames,
         ~(GetFrames /\ gThrVarHaveFrames)
  PROVE  \/ gCountInBuf' = 0
         \/ UNCHANGED <<lastOutputCams, gCountInBuf, gIxToStore, gIxToOutput,
                        gPEntries, view, got, flushed>>
<1>1. CASE UpdateOptions
  BY <1>1, UpdateOptionsQueue DEF UpdateOptions, consumer
<1>2. CASE GetFrames
  BY <1>2, GetFromEmpty DEF rawQueue, producer, consumer
<1>3. CASE ProducerRuns
  BY <1>3 DEF ProducerRuns, PhasesInv, rawQueue
<1>4. CASE ~QueueSteps /\ ~ProducerRuns
  BY <1>4, OtherStepsKeepQueue, OtherStepsKeepSides DEF QueueSteps
<1>5. QED
  BY <1>1, <1>2, <1>3, <1>4 DEF QueueSteps

(* What the consumer has of a side after it took an entry.                 *)
LEMMA GotAfterGet ==
  ASSUME TypeOK, QueueConsistent, GetFrames, gThrVarHaveFrames, NEW s \in Sides
  PROVE  /\ 0 \in Waiting /\ EntryIx(0) = gIxToOutput
         /\ got'[s] \in {got[s], Entry(s, 0)}
<1>1. 0 \in Waiting
  BY DEF Waiting, TypeOK, QueueConsistent
<1>2. EntryIx(0) = gIxToOutput
  BY <1>1, EntriesInRing, QueueSizeAssumption DEF TypeOK, Ix
<1>3. QED
  BY <1>1, <1>2 DEF GetFrames, Entry

(* An entry and one before it.                                             *)
LEMMA EarlierEntry ==
  ASSUME NEW c \in Nat, NEW n \in 0 .. c - 1, NEW m \in 0 .. n - 1
  PROVE  /\ n \in Nat /\ m \in Nat /\ m < n /\ n < c
         /\ m \in 0 .. c - 1 /\ m # c - 1
         /\ m + 1 \in 0 .. (n + 1) - 1
OBVIOUS

(* The order of the entries is kept.                                       *)
LEMMA OrderStep ==
  ASSUME TypeOK, QueueConsistent, PhasesInv, FramesInv, OrderInv, [Next]_vars
  PROVE  OrderInv'
<1>1. CASE AppendFrames
  <2>1. SUFFICES ASSUME NEW s \in lastOutputCams, NEW n \in 0 .. gCountInBuf' - 1
                 PROVE  /\ got[s] <= Entry(s, n)'
                        /\ \A m \in 0 .. n - 1 : Entry(s, m)' <= Entry(s, n)'
    BY <1>1 DEF AppendFrames, Waiting, consumer, OrderInv
  <2>2. appendFramesToQueue(lastOutputCams, mats) /\ s \in Sides
    BY <1>1 DEF AppendFrames, TypeOK, Modes, Sides
  <2>3. gCountInBuf' \in Nat
    BY <2>2, AppendKeepsQueue, QueueSizeAssumption
  <2>4. ASSUME NEW k \in 0 .. gCountInBuf' - 1, k # gCountInBuf' - 1
        PROVE  /\ Former(k) \in Waiting
               /\ Entry(s, k)' = Entry(s, Former(k))
               /\ Entry(s, k)' <= mats[s]
    BY <2>2, <2>4, AppendedEntries, EntriesInRing DEF FramesInv, Entry
  <2>5. ASSUME NEW m \in 0 .. n - 1
        PROVE  /\ Former(m) \in Waiting
               /\ Entry(s, m)' = Entry(s, Former(m))
               /\ Entry(s, m)' <= mats[s]
    <3>1. m \in 0 .. gCountInBuf' - 1 /\ m # gCountInBuf' - 1
      BY <2>3, EarlierEntry
    <3>2. QED
      BY <2>4, <3>1
  <2>6. CASE n = gCountInBuf' - 1
    <3>1. Entry(s, n)' = mats[s]
      BY <2>2, <2>6, AppendedEntries
    <3>2. got[s] <= mats[s]
      BY <2>2 DEF FramesInv
    <3>3. QED
      BY <2>5, <3>1, <3>2
  <2>7. CASE n # gCountInBuf' - 1
    <3>1. Former(n) \in Waiting /\ Entry(s, n)' = Entry(s, Former(n))
      BY <2>4, <2>7
    <3>2. got[s] <= Entry(s, Former(n))
      BY <3>1 DEF OrderInv
    <3>3. ASSUME NEW m \in 0 .. n - 1
          PROVE  Entry(s, Former(m)) <= Entry(s, Former(n))
      <4>1. Former(m) \in 0 .. Former(n) - 1
        BY <2>3, EarlierEntry DEF Former
      <4>2. QED
        BY <3>1, <4>1 DEF OrderInv
    <3>4. QED
      BY <2>5, <3>1, <3>2, <3>3
  <2>8. QED
    BY <2>6, <2>7
<1>2. CASE GetFrames /\ gThrVarHaveFrames
  <2>1. getFramesFromQueue /\ lastOutputCams' = lastOutputCams
    BY <1>2 DEF GetFrames, producer
  <2>2. SUFFICES ASSUME NEW s \in lastOutputCams, NEW n \in 0 .. gCountInBuf' - 1
                 PROVE  /\ got'[s] <= Entry(s, n)'
                        /\ \A m \in 0 .. n - 1 : Entry(s, m)' <= Entry(s, n)'
    BY <2>1 DEF Waiting, OrderInv
  <2>3. s \in Sides /\ gCountInBuf' \in Nat
    BY <1>2, <2>1, GetKeepsQueue, QueueSizeAssumption DEF TypeOK, Modes, Sides
  <2>4. ASSUME NEW k \in 0 .. gCountInBuf' - 1
        PROVE  k + 1 \in Waiting /\ Entry(s, k)' = Entry(s, k + 1)
    BY <1>2, <2>1, <2>3, RemainingEntries
  <2>5. got'[s] \in {got[s], Entry(s, 0)}
    BY <1>2, <2>3, GotAfterGet
  <2>6. got'[s] <= Entry(s, n)'
    <3>0. n \in Nat
      BY <2>3
    <3>1. got[s] <= Entry(s, n + 1) /\ 0 \in 0 .. (n + 1) - 1
      BY <2>4, <3>0 DEF OrderInv
    <3>2. Entry(s, 0) <= Entry(s, n + 1)
      BY <2>4, <3>1 DEF OrderInv
    <3>3. QED
      BY <2>4, <2>5, <3>1, <3>2
  <2>7. ASSUME NEW m \in 0 .. n - 1
        PROVE  Entry(s, m)' <= Entry(s, n)'
    <3>1. m \in 0 .. gCountInBuf' - 1 /\ m + 1 \in 0 .. (n + 1) - 1
      BY <2>3, EarlierEntry
    <3>2. Entry(s, m + 1) <= Entry(s, n + 1)
      BY <2>4, <3>1 DEF OrderInv
    <3>3. QED
      BY <2>4, <3>1, <3>2
  <2>8. QED
    BY <2>6, <2>7
<1>3. CASE gCountInBuf' = 0
  BY <1>3 DEF Waiting, OrderInv
<1>4. CASE UNCHANGED <<lastOutputCams, gCountInBuf, gIxToStore, gIxToOutput,
                       gPEntries, view, got, flushed>>
  BY <1>4, EntriesKept DEF OrderInv
<1>5. QED
  BY <1>1, <1>2, <1>3, <1>4, EntriesKeptOrGone

(* Without adaption, the sides that are grabbed are the ones that are      *)
(* stored, since only the producer's options change them, together.        *)
LEMMA GrabsStep ==
  ASSUME TypeOK, ~adaptFps, GrabsSteady, [Next]_vars
  PROVE  GrabsSteady'
<1>. USE DEF GrabsSteady, config, shared, producer, consumer
<1>1. CASE Environment \/ ConsumerWorks \/ ConsumerFailures
  BY <1>1, OthersKeepProducer
<1>2. CASE GrabFrames
  <2>1. /\ prodPc' = "append" /\ lastOutputCams' = lastOutputCams
        /\ prodOutputCams' = prodOutputCams /\ frameNr' = frameNr + 1
        /\ mats' = MatsAfterGrab
    BY <1>2 DEF GrabFrames
  <2>2. lastOutputCams \subseteq Sides
    BY DEF TypeOK, Modes, Sides
  <2>3. QED
    BY <2>1, <2>2 DEF MatsAfterGrab
<1>3. CASE ProducerRuns \/ UpdateOptions
  BY <1>3 DEF ProducerRuns, UpdateOptions
<1>4. CASE AppendFrames
  BY <1>4 DEF AppendFrames
<1>5. CASE OpenStreams \/ SetFlagCamStreamsOpened \/ ProducerSeesStop \/ CheckClients
             \/ RestartCamStreams \/ NoRestart \/ WaitForQueue \/ ProducerEnds
  BY <1>5 DEF OpenStreams, SetFlagCamStreamsOpened, ProducerSeesStop, CheckClients,
     RestartCamStreams, NoRestart, WaitForQueue, ProducerEnds
<1>6. CASE ProducerFailures
  BY <1>6 DEF ProducerFailures, OpenStreamsFails, ProducerFails, GrabFails
<1>7. CASE UNCHANGED vars
  BY <1>7 DEF vars
<1>8. QED
  BY <1>1, <1>2, <1>3, <1>4, <1>5, <1>6, <1>7 DEF Next, ProducerWorks

LEMMA EntriesAreNumbers ==
  ASSUME TypeOK
  PROVE  \A s \in Sides, n \in Waiting : Entry(s, n) \in Nat
BY FramesAreNumbers, EntriesInRing DEF Entry

(* Without adaption, entries stay strictly ordered.                        *)
LEMMA StrictStep ==
  ASSUME TypeOK, QueueConsistent, PhasesInv, FramesInv, [Next]_vars,
         GrabsSteady, StrictOrder
  PROVE  StrictOrder'
<1>1. CASE AppendFrames
  <2>1. SUFFICES ASSUME NEW s \in lastOutputCams, NEW n \in 0 .. gCountInBuf' - 1
                 PROVE  /\ got[s] < Entry(s, n)'
                        /\ Entry(s, n)' + (gCountInBuf' - n) <= frameNr + 1
                        /\ \A m \in 0 .. n - 1 : Entry(s, m)' < Entry(s, n)'
    BY <1>1 DEF AppendFrames, Waiting, NextFrame, consumer, StrictOrder
  <2>2. appendFramesToQueue(lastOutputCams, mats) /\ s \in Sides
    BY <1>1 DEF AppendFrames, TypeOK, Modes, Sides
  <2>3. /\ gCountInBuf' = IF gCountInBuf = QueueSize THEN QueueSize ELSE gCountInBuf + 1
        /\ gCountInBuf' \in Nat /\ gCountInBuf \in Nat /\ QueueSize \in Nat
        /\ n \in Nat
    BY <2>2, AppendKeepsQueue, QueueSizeAssumption DEF TypeOK
  <2>4. /\ mats[s] = frameNr /\ NextFrame = frameNr /\ frameNr \in Nat
        /\ got[s] \in Nat /\ got[s] < frameNr
    BY <1>1, <2>2, FramesAreNumbers DEF AppendFrames, GrabsSteady, NextFrame, FramesInv
  <2>5. ASSUME NEW k \in 0 .. gCountInBuf' - 1, k # gCountInBuf' - 1
        PROVE  /\ Former(k) \in Waiting /\ Former(k) \in Nat /\ k \in Nat
               /\ Entry(s, k)' = Entry(s, Former(k))
               /\ Entry(s, Former(k)) \in Nat
               /\ got[s] < Entry(s, Former(k))
               /\ Entry(s, Former(k)) + (gCountInBuf' - k) <= frameNr + 1
    <3>1. Former(k) \in Waiting /\ Entry(s, k)' = Entry(s, Former(k)) /\ k \in Nat
      BY <2>2, <2>3, <2>5, AppendedEntries
    <3>2. /\ got[s] < Entry(s, Former(k)) /\ Entry(s, Former(k)) \in Nat
          /\ Entry(s, Former(k)) + (gCountInBuf - Former(k)) <= frameNr
      BY <2>2, <2>4, <3>1, EntriesAreNumbers DEF StrictOrder
    <3>3. gCountInBuf' - k = (gCountInBuf - Former(k)) + 1 /\ Former(k) \in Nat
      BY <2>3, <3>1 DEF Former
    <3>4. QED
      BY <2>3, <2>4, <3>1, <3>2, <3>3
  <2>6. ASSUME NEW m \in 0 .. n - 1
        PROVE  m \in 0 .. gCountInBuf' - 1 /\ m # gCountInBuf' - 1
    BY <2>3, EarlierEntry
  <2>7. CASE n = gCountInBuf' - 1
    <3>1. Entry(s, n)' = frameNr
      BY <2>2, <2>4, <2>7, AppendedEntries
    <3>2. ASSUME NEW m \in 0 .. n - 1
          PROVE  Entry(s, m)' < frameNr
      <4>1. gCountInBuf' - m >= 2 /\ m \in Nat
        BY <2>3, <2>7
      <4>2. /\ Entry(s, m)' = Entry(s, Former(m)) /\ Entry(s, Former(m)) \in Nat
            /\ Entry(s, Former(m)) + (gCountInBuf' - m) <= frameNr + 1
        BY <2>5, <2>6
      <4>3. QED
        BY <2>3, <2>4, <4>1, <4>2
    <3>3. QED
      BY <2>3, <2>4, <2>7, <3>1, <3>2
  <2>8. CASE n # gCountInBuf' - 1
    <3>1. ASSUME NEW m \in 0 .. n - 1
          PROVE  Entry(s, m)' < Entry(s, n)'
      <4>1. Former(m) \in 0 .. Former(n) - 1
        BY <2>3, EarlierEntry DEF Former
      <4>2. Entry(s, Former(m)) < Entry(s, Former(n))
        BY <2>5, <2>8, <4>1 DEF StrictOrder
      <4>3. QED
        BY <2>5, <2>6, <2>8, <4>2
    <3>2. QED
      BY <2>5, <2>8, <3>1
  <2>9. QED
    BY <2>7, <2>8
<1>2. CASE GetFrames /\ gThrVarHaveFrames
  <2>1. /\ getFramesFromQueue /\ lastOutputCams' = lastOutputCams
        /\ NextFrame' = NextFrame /\ NextFrame \in Nat
    BY <1>2, FramesAreNumbers DEF GetFrames, producer, NextFrame
  <2>2. SUFFICES ASSUME NEW s \in lastOutputCams, NEW n \in 0 .. gCountInBuf' - 1
                 PROVE  /\ got'[s] < Entry(s, n)'
                        /\ Entry(s, n)' + (gCountInBuf' - n) <= NextFrame
                        /\ \A m \in 0 .. n - 1 : Entry(s, m)' < Entry(s, n)'
    BY <2>1 DEF Waiting, StrictOrder
  <2>3. /\ s \in Sides /\ gCountInBuf' \in Nat /\ gCountInBuf \in Nat
        /\ gCountInBuf' = gCountInBuf - 1
    BY <1>2, <2>1, GetKeepsQueue, QueueSizeAssumption DEF TypeOK, Modes, Sides
  <2>4. ASSUME NEW k \in 0 .. gCountInBuf' - 1
        PROVE  /\ k + 1 \in Waiting /\ k \in Nat
               /\ Entry(s, k)' = Entry(s, k + 1)
               /\ got[s] < Entry(s, k + 1)
               /\ Entry(s, k + 1) + (gCountInBuf - (k + 1)) <= NextFrame
    <3>1. k + 1 \in Waiting /\ Entry(s, k)' = Entry(s, k + 1)
      BY <1>2, <2>1, <2>3, RemainingEntries
    <3>2. QED
      BY <2>3, <3>1 DEF StrictOrder
  <2>5. got'[s] \in {got[s], Entry(s, 0)}
    BY <1>2, <2>3, GotAfterGet
  <2>6. n \in Nat /\ gCountInBuf' - n = gCountInBuf - (n + 1)
    BY <2>3
  <2>7. got'[s] < Entry(s, n)'
    <3>1. 0 \in 0 .. (n + 1) - 1
      BY <2>6
    <3>2. Entry(s, 0) < Entry(s, n + 1)
      BY <2>4, <3>1 DEF StrictOrder
    <3>3. QED
      BY <2>4, <2>5, <3>2
  <2>8. ASSUME NEW m \in 0 .. n - 1
        PROVE  Entry(s, m)' < Entry(s, n)'
    <3>1. m \in 0 .. gCountInBuf' - 1 /\ m + 1 \in 0 .. (n + 1) - 1
      BY <2>3, EarlierEntry
    <3>2. Entry(s, m + 1) < Entry(s, n + 1)
      BY <2>4, <3>1 DEF StrictOrder
    <3>3. QED
      BY <2>4, <3>1, <3>2
  <2>9. QED
    BY <2>4, <2>6, <2>7, <2>8
<1>3. CASE gCountInBuf' = 0
  BY <1>3 DEF Waiting, StrictOrder
<1>4. CASE ~AppendFrames /\ UNCHANGED <<lastOutputCams, gCountInBuf, gIxToStore,
                       gIxToOutput, gPEntries, view, got, flushed>>
  <2>1. Waiting' = Waiting /\ \A s, n : Entry(s, n)' = Entry(s, n)
    BY <1>4, EntriesKept
  <2>2. ASSUME NEW s \in lastOutputCams, NEW n \in Waiting
        PROVE  /\ got[s] < Entry(s, n)
               /\ Entry(s, n) + (gCountInBuf - n) <= NextFrame'
               /\ \A m \in 0 .. n - 1 : Entry(s, m) < Entry(s, n)
    <3>1. /\ n \in Nat /\ gCountInBuf \in Nat /\ gCountInBuf - n \in Nat
          /\ NextFrame \in Nat /\ NextFrame' >= NextFrame
      BY FramesAreNumbers, NextFrameGrows, QueueSizeAssumption DEF TypeOK, Waiting
    <3>2. s \in Sides
      BY DEF TypeOK, Modes, Sides
    <3>3. Entry(s, n) \in Nat /\ NextFrame' \in Nat
      BY <3>2, EntriesAreNumbers, NextFrameType
    <3>4. QED
      BY <3>1, <3>3 DEF StrictOrder
  <2>3. QED
    BY <1>4, <2>1, <2>2 DEF StrictOrder
<1>5. QED
  BY <1>1, <1>2, <1>3, <1>4, EntriesKeptOrGone

(* Without adaption, what is stored together was grabbed together.         *)
LEMMA PairsStep ==
  ASSUME TypeOK, QueueConsistent, PhasesInv, [Next]_vars,
         GrabsSteady, SidesOfOneGrab
  PROVE  SidesOfOneGrab'
<1>. USE DEF SidesOfOneGrab
<1>1. CASE AppendFrames
  <2>1. SUFFICES ASSUME NEW n \in 0 .. gCountInBuf' - 1,
                        NEW s \in lastOutputCams, NEW r \in lastOutputCams
                 PROVE  Entry(s, n)' = Entry(r, n)'
    BY <1>1 DEF AppendFrames, Entry
  <2>2. appendFramesToQueue(lastOutputCams, mats) /\ mats[s] = mats[r]
    BY <1>1 DEF AppendFrames, GrabsSteady
  <2>3. CASE n = gCountInBuf' - 1
    BY <2>2, <2>3, AppendedEntries
  <2>4. CASE n # gCountInBuf' - 1
    <3>1. /\ Former(n) \in Waiting
          /\ Entry(s, n)' = Entry(s, Former(n)) /\ Entry(r, n)' = Entry(r, Former(n))
      BY <2>2, <2>4, AppendedEntries
    <3>2. QED
      BY <3>1 DEF Waiting, Entry
  <2>5. QED
    BY <2>3, <2>4
<1>2. CASE GetFrames /\ gThrVarHaveFrames
  <2>1. getFramesFromQueue /\ lastOutputCams' = lastOutputCams
    BY <1>2 DEF GetFrames, producer
  <2>2. SUFFICES ASSUME NEW n \in 0 .. gCountInBuf' - 1,
                        NEW s \in lastOutputCams, NEW r \in lastOutputCams
                 PROVE  Entry(s, n)' = Entry(r, n)'
    BY <2>1 DEF Entry
  <2>3. s \in Sides /\ r \in Sides
    BY DEF TypeOK, Modes, Sides
  <2>4. /\ n + 1 \in Waiting
        /\ Entry(s, n)' = Entry(s, n + 1) /\ Entry(r, n)' = Entry(r, n + 1)
    BY <1>2, <2>1, <2>3, RemainingEntries
  <2>5. QED
    BY <2>4 DEF Waiting, Entry
<1>3. CASE gCountInBuf' = 0
  BY <1>3
<1>4. CASE UNCHANGED <<lastOutputCams, gCountInBuf, gIxToStore, gIxToOutput,
                       gPEntries, view, got, flushed>>
  BY <1>4 DEF EntryIx
<1>5. QED
  BY <1>1, <1>2, <1>3, <1>4, EntriesKeptOrGone

LEMMA SteadyStep ==
  ASSUME TypeOK, QueueConsistent, PhasesInv, FramesInv, SteadyInv, [Next]_vars
  PROVE  SteadyInv'
<1>1. adaptFps' = adaptFps
  BY OtherStepsKeepGrab DEF GrabFrames, shared, config
<1>2. QED
  BY <1>1, GrabsStep, StrictStep, PairsStep DEF SteadyInv

(* How far the entry to be stored is ahead, after an append.               *)
LEMMA AheadAfterAppend ==
  ASSUME TypeOK, gIxToStore' = Advanced(gIxToStore), view' = view
  PROVE  /\ Ahead \in 1 .. QueueSize
         /\ gIxToStore = view => Ahead = QueueSize /\ Ahead' = 1
         /\ gIxToStore # view => Ahead' = Ahead + 1
BY QueueSizeAssumption DEF TypeOK, Ix, Advanced, Ahead

(* Without adaption, what is being processed is overwritten by a lap only. *)
LEMMA LapStep ==
  ASSUME TypeOK, TypeOK', QueueConsistent, PhasesInv, FramesInv, SteadyInv, LapInv,
         [Next]_vars
  PROVE  LapInv'
<1>. SUFFICES ASSUME consPc' = "process", ~flushed', ~adaptFps',
                     NEW s \in consOutputCams', s \in lastOutputCams'
              PROVE  /\ \/ gPEntries'[s][view'] = got'[s]
                        \/ gPEntries'[s][view'] >= got'[s] + QueueSize
                     /\ got'[s] + Ahead' <= NextFrame'
  BY DEF LapInv
<1>1. ~adaptFps
  BY OtherStepsKeepGrab DEF GrabFrames, shared, config
<1>2. GrabsSteady /\ StrictOrder
  BY <1>1 DEF SteadyInv
<1>3. /\ s \in Sides /\ got[s] \in Nat /\ mats[s] \in Nat
      /\ frameNr \in Nat /\ NextFrame \in Nat /\ QueueSize \in Nat \ {0}
      /\ gPEntries[s][view] \in Nat
  BY FramesAreNumbers, QueueSizeAssumption DEF TypeOK, Modes, Sides
<1>4. CASE AppendFrames
  <2>1. /\ consPc = "process" /\ ~flushed
        /\ s \in consOutputCams \cap lastOutputCams
        /\ UNCHANGED <<view, got>>
        /\ prodPc = "append" /\ NextFrame' = NextFrame + 1
        /\ appendFramesToQueue(lastOutputCams, mats)
    BY <1>4, NextFrameGrows DEF AppendFrames, consumer
  <2>2. /\ gPEntries[s][view] = got[s] \/ gPEntries[s][view] >= got[s] + QueueSize
        /\ got[s] + Ahead <= NextFrame
    BY <1>1, <2>1 DEF LapInv
  <2>3. mats[s] = NextFrame /\ got[s] < NextFrame
    BY <1>2, <1>3, <2>1 DEF GrabsSteady, NextFrame, FramesInv
  <2>4. /\ gIxToStore' = Advanced(gIxToStore)
        /\ gPEntries'[s] = [gPEntries[s] EXCEPT ![gIxToStore] = mats[s]]
    BY <1>3, <2>1 DEF appendFramesToQueue, StoreAfterAppend
  <2>5. /\ Ahead \in 1 .. QueueSize
        /\ gIxToStore = view => Ahead = QueueSize /\ Ahead' = 1
        /\ gIxToStore # view => Ahead' = Ahead + 1
    BY <2>1, <2>4, AheadAfterAppend
  <2>6. CASE gIxToStore = view
    <3>1. gPEntries'[s][view] = NextFrame
      BY <1>3, <2>3, <2>4, <2>6 DEF TypeOK
    <3>2. QED
      BY <1>3, <2>1, <2>2, <2>3, <2>5, <2>6, <3>1
  <2>7. CASE gIxToStore # view
    <3>1. gPEntries'[s][view] = gPEntries[s][view]
      BY <1>3, <2>4, <2>7 DEF TypeOK
    <3>2. Ahead \in Nat
      BY <1>3, <2>5
    <3>3. QED
      BY <1>3, <2>1, <2>2, <2>5, <2>7, <3>1, <3>2
  <2>8. QED
    BY <2>6, <2>7
<1>5. CASE GetFrames /\ gThrVarHaveFrames
  <2>1. CASE consPc' = "process" /\ FramesThere(consOutputCams)
    <3>1. /\ view' = gIxToOutput /\ got'[s] = gPEntries[s][gIxToOutput]
          /\ s \in lastOutputCams
      BY <1>3, <1>5, <2>1 DEF GetFrames, producer
    <3>2. NextFrame' = NextFrame /\ getFramesFromQueue
      BY <1>5 DEF GetFrames, NextFrame, producer
    <3>3. UNCHANGED <<gIxToStore, gPEntries>>
      BY <1>5, <3>2, GetKeepsQueue
    <3>4. 0 \in Waiting /\ EntryIx(0) = gIxToOutput
      BY <1>3, <1>5, GotAfterGet
    <3>5. Ahead' = gCountInBuf
      <4>1. gIxToStore = IF gIxToOutput + gCountInBuf < QueueSize
                           THEN gIxToOutput + gCountInBuf
                           ELSE gIxToOutput + gCountInBuf - QueueSize
        BY StoreFollows
      <4>2. gCountInBuf \in 1 .. QueueSize
        BY <1>5 DEF TypeOK, QueueConsistent
      <4>3. gIxToOutput \in 0 .. QueueSize - 1
        BY DEF TypeOK, Ix
      <4>4. QED
        BY <1>3, <3>1, <3>3, <4>1, <4>2, <4>3 DEF Ahead
    <3>6. gPEntries[s][gIxToOutput] + (gCountInBuf - 0) <= NextFrame
      BY <1>2, <3>1, <3>4 DEF StrictOrder, Entry
    <3>7. gCountInBuf - 0 = gCountInBuf
      BY DEF TypeOK
    <3>8. QED
      BY <3>1, <3>2, <3>3, <3>5, <3>6, <3>7
  <2>2. CASE ~FramesThere(consOutputCams)
    BY <1>5, <2>2 DEF GetFrames
  <2>3. QED
    BY <2>1, <2>2
<1>6. CASE UNCHANGED <<lastOutputCams, gCountInBuf, gIxToStore, gIxToOutput,
                       gPEntries, view, got, flushed>>
           /\ ~(GetFrames /\ gThrVarHaveFrames)
  <2>1. consPc = "process" /\ consOutputCams' = consOutputCams
    BY <1>6, ProcessingSteps, GetFromEmpty DEF consumer
  <2>2. /\ gPEntries[s][view] = got[s] \/ gPEntries[s][view] >= got[s] + QueueSize
        /\ got[s] + Ahead <= NextFrame
    BY <1>1, <1>6, <2>1 DEF LapInv
  <2>3. Ahead' = Ahead /\ Ahead \in Nat
    BY <1>3, <1>6 DEF Ahead, TypeOK, Ix
  <2>4. NextFrame' \in Nat /\ NextFrame' >= NextFrame
    BY NextFrameType, NextFrameGrows
  <2>5. QED
    BY <1>3, <1>6, <2>2, <2>3, <2>4
<1>7. CASE UpdateOptions /\ ~(GetFrames /\ gThrVarHaveFrames)
  <2>1. UNCHANGED <<view, got>>
    BY <1>7 DEF UpdateOptions, consumer
  <2>2. QED
    BY <1>6, <1>7, <2>1, UpdateOptionsQueue
<1>8. CASE ProducerRuns
  BY <1>8 DEF ProducerRuns, PhasesInv, consumer
<1>9. CASE GetFrames /\ ~gThrVarHaveFrames
  BY <1>6, <1>9, GetFromEmpty DEF rawQueue, producer, consumer
<1>10. CASE ~QueueSteps /\ ~ProducerRuns
  BY <1>6, <1>10, OtherStepsKeepQueue, OtherStepsKeepSides DEF QueueSteps
<1>11. QED
  BY <1>4, <1>5, <1>7, <1>8, <1>9, <1>10 DEF QueueSteps
-----------------------------------------------------------------------------
LEMMA InvInit == Init => Inv
<1>. SUFFICES ASSUME Init PROVE Inv
  OBVIOUS
<1>1. TypeOK
  <2>1. 0 \in Frame /\ 0 \in Ix /\ 0 \in 0 .. QueueSize /\ 0 \in 0 .. MaxSwitches
        /\ 0 \in 0 .. MaxEmptyFrames + 1 /\ 0 \in 0 .. MaxWaits
    BY PipelineAssumption, QueueSizeAssumption DEF Frame, Ix
  <2>2. /\ gPEntries \in [Sides -> [Ix -> Frame]]
        /\ mats \in [Sides -> Frame] /\ got \in [Sides -> Frame]
    BY <2>1 DEF Init, RawQueueInit
  <2>3. {"L"} \in Modes
    BY DEF Modes
  <2>4. QED
    BY <2>1, <2>2, <2>3 DEF Init, RawQueueInit, TypeOK
<1>. USE PipelineAssumption, QueueSizeAssumption DEF Init, RawQueueInit
<1>2. QueueConsistent
  BY DEF QueueConsistent
<1>3. PhasesInv /\ FoundInv /\ LapInv
  BY DEF PhasesInv, FoundInv, LapInv
<1>4. FramesInv
  BY DEF FramesInv, NextFrame
<1>5. Waiting = {}
  BY DEF Waiting
<1>6. OrderInv /\ StrictOrder /\ SidesOfOneGrab /\ GrabsSteady
  BY <1>5 DEF OrderInv, StrictOrder, SidesOfOneGrab, GrabsSteady, Waiting
<1>7. QED
  BY <1>1, <1>2, <1>3, <1>4, <1>6 DEF Inv, SteadyInv

LEMMA InvStep == Inv /\ [Next]_vars => Inv'
<1>. SUFFICES ASSUME Inv, [Next]_vars PROVE Inv'
  OBVIOUS
<1>. USE DEF Inv
<1>1. TypeOK'
  BY TypesStep
<1>2. QueueConsistent' /\ PhasesInv'
  BY ConsistentStep, PhasesStep
<1>3. FramesInv' /\ FoundInv' /\ OrderInv'
  BY <1>1, FramesStep, FoundStep, OrderStep
<1>4. SteadyInv' /\ LapInv'
  BY <1>1, SteadyStep, LapStep
<1>5. QED
  BY <1>1, <1>2, <1>3, <1>4

(* The inductive invariant of the pipeline.                                *)
THEOREM InvCorrect == Spec => []Inv
BY InvInit, InvStep, PTL DEF Spec

(* Every variable of the two threads and of their queue has its type.      *)
THEOREM TypeCorrect == Spec => []TypeOK
<1>1. Inv => TypeOK
  BY DEF Inv
<1>2. QED
  BY <1>1, InvCorrect, PTL

(* The flag, the count and the two indices of the queue agree, through     *)
(* appends to a full queue, takes and flushes.                             *)
THEOREM QueueCorrect == Spec => []QueueConsistent
<1>1. Inv => QueueConsistent
  BY DEF Inv
<1>2. QED
  BY <1>1, InvCorrect, PTL

(* Without adaption, what waits together was grabbed together, later       *)
(* entries later.                                                          *)
THEOREM PairsCorrect == Spec => []QueuedEntriesPaired
<1>1. Inv => QueuedEntriesPaired
  BY DEF Inv, SteadyInv, StrictOrder, QueuedEntriesPaired, Waiting, Entry
<1>2. QED
  BY <1>1, InvCorrect, PTL

(* Whatever is processed was written by a camera that there is.            *)
THEOREM WrittenCorrect == Spec => []OnlyWrittenFrames
<1>1. ASSUME Inv, consPc = "process", NEW s \in consOutputCams
      PROVE  s \in available /\ got[s] # 0
  <2>1. s \in Sides
    BY <1>1 DEF Inv, TypeOK, Modes, Sides
  <2>2. got[s] # 0
    BY <1>1 DEF Inv, FoundInv
  <2>3. mats[s] # 0
    BY <1>1, <2>1, <2>2, FramesAreNumbers DEF Inv, FramesInv
  <2>4. QED
    BY <1>1, <2>1, <2>2, <2>3 DEF Inv, FramesInv
<1>2. Inv => OnlyWrittenFrames
  BY <1>1 DEF OnlyWrittenFrames
<1>3. QED
  BY <1>2, InvCorrect, PTL

(* Without adaption and without a flush, a frame is overwritten while it   *)
(* is processed only by a producer that is a whole round ahead.            *)
THEOREM LapCorrect == Spec => []OverwrittenOnlyByLap
<1>1. Inv => OverwrittenOnlyByLap
  BY DEF Inv, LapInv, OverwrittenOnlyByLap
<1>2. QED
  BY <1>1, InvCorrect, PTL

(* The sides that are supplied are processed in the order of their grabs.  *)
THEOREM OrderCorrect == Spec => FramesInOrder
<1>1. ASSUME Inv, [Next]_vars, consPc = "loop", consPc' = "process",
             NEW s \in consOutputCams \cap lastOutputCams
      PROVE  got'[s] > got[s] \/ (adaptFps /\ got'[s] = got[s])
  <2>1. TypeOK /\ QueueConsistent /\ OrderInv
    BY <1>1 DEF Inv
  <2>2. GetFrames /\ FramesThere(consOutputCams) /\ gThrVarHaveFrames
    BY <1>1, ProcessingSteps DEF GetFrames, FramesThere
  <2>3. s \in Sides /\ got[s] \in Nat
    BY <2>1, FramesAreNumbers DEF TypeOK, Modes, Sides
  <2>4. 0 \in Waiting /\ EntryIx(0) = gIxToOutput
    BY <2>1, <2>2, <2>3, GotAfterGet
  <2>5. got'[s] = Entry(s, 0)
    BY <2>2, <2>3, <2>4 DEF GetFrames, Entry
  <2>6. Entry(s, 0) \in Nat /\ got[s] <= Entry(s, 0)
    BY <2>1, <2>3, <2>4, EntriesAreNumbers DEF OrderInv
  <2>7. ~adaptFps => got[s] < Entry(s, 0)
    BY <1>1, <2>4 DEF Inv, SteadyInv, StrictOrder
  <2>8. QED
    BY <2>1, <2>3, <2>5, <2>6, <2>7
<1>2. Inv /\ [Next]_vars =>
        [consPc = "loop" /\ consPc' = "process" =>
           \A s \in consOutputCams \cap lastOutputCams :
             got'[s] > got[s] \/ (adaptFps /\ got'[s] = got[s])]_vars
  BY <1>1
<1>3. QED
  BY <1>2, InvCorrect, PTL DEF Spec, FramesInOrder
-----------------------------------------------------------------------------
(* What the queue promises for one side: the bounded queue of module       *)
(* BoundedQueue, which a switch of the cameras empties.                    *)
Queued(s) == [i \in 1 .. gCountInBuf |-> Entry(s, i - 1)]

Promise == INSTANCE BoundedQueue WITH
             Size <- QueueSize, Item <- Frame,
             queue <- <<>>, dropped <- 0, taken <- 0

Put(s) == Queued(s)' = Promise!Enqueue(Queued(s), mats[s])

Taken(s) ==
  /\ Queued(s) # <<>>
  /\ Queued(s)' = Tail(Queued(s))
  /\ consPc' = "process" /\ s \in consOutputCams => got'[s] = Head(Queued(s))

Emptied(s) == Queued(s)' = <<>> /\ lastOutputCams' # lastOutputCams

LEMMA QueuedAreFrames ==
  ASSUME TypeOK, NEW s \in Sides
  PROVE  /\ Queued(s) \in Seq(Nat) /\ Len(Queued(s)) = gCountInBuf
         /\ \A i \in 1 .. gCountInBuf : Queued(s)[i] = Entry(s, i - 1)
<1>1. gCountInBuf \in 0 .. QueueSize /\ QueueSize \in Nat
  BY QueueSizeAssumption DEF TypeOK
<1>2. ASSUME NEW i \in 1 .. gCountInBuf
      PROVE  Entry(s, i - 1) \in Nat
  <2>1. i - 1 \in Waiting
    BY <1>1 DEF Waiting
  <2>2. QED
    BY <2>1, EntriesAreNumbers
<1>3. QED
  BY <1>1, <1>2 DEF Queued

QueuedInv ==
  \A s \in Sides :
    /\ Queued(s) \in Seq(Nat) /\ Len(Queued(s)) = gCountInBuf
    /\ \A i \in 1 .. gCountInBuf : Queued(s)[i] = Entry(s, i - 1)

LEMMA QueuedAlwaysFrames == TypeOK => QueuedInv
BY QueuedAreFrames DEF QueuedInv

(* The sequence that an append leaves, entry by entry.                     *)
LEMMA EnqueuedEntries ==
  ASSUME NEW q \in Seq(Nat), NEW new \in Seq(Nat), NEW e \in Nat,
         Len(new) = IF Len(q) = QueueSize THEN QueueSize ELSE Len(q) + 1,
         new[Len(new)] = e,
         \A i \in 1 .. Len(new) - 1 :
           new[i] = IF Len(q) = QueueSize THEN q[i + 1] ELSE q[i]
  PROVE  new = Promise!Enqueue(q, e)
<1>. USE QueueSizeAssumption
<1>. DEFINE rest == IF Len(q) = QueueSize THEN Tail(q) ELSE q
<1>1. /\ rest \in Seq(Nat) /\ Len(rest) = Len(new) - 1
      /\ \A i \in 1 .. Len(new) - 1 : rest[i] = new[i]
  <2>1. CASE Len(q) = QueueSize
    <3>1. q # <<>>
      BY <2>1
    <3>2. /\ Tail(q) \in Seq(Nat) /\ Len(Tail(q)) = Len(q) - 1
          /\ \A i \in 1 .. Len(Tail(q)) : Tail(q)[i] = q[i + 1]
      BY <3>1, HeadTailProperties
    <3>3. QED
      BY <2>1, <3>2
  <2>2. CASE Len(q) # QueueSize
    BY <2>2
  <2>3. QED
    BY <2>1, <2>2
<1>2. Promise!Enqueue(q, e) = Append(rest, e)
  BY DEF Promise!Enqueue, Promise!IsFull
<1>. HIDE DEF rest
<1>3. /\ Append(rest, e) \in Seq(Nat) /\ Len(Append(rest, e)) = Len(new)
      /\ \A i \in 1 .. Len(new) : Append(rest, e)[i] = new[i]
  BY <1>1, AppendProperties
<1>4. QED
  BY <1>2, <1>3, SeqEqual

(* An append puts the frame of a side into its queue, which drops its      *)
(* oldest frame if it is full.                                             *)
LEMMA AppendPuts ==
  ASSUME TypeOK, TypeOK', QueueConsistent, AppendFrames, NEW s \in lastOutputCams
  PROVE  Put(s)
<1>1. /\ gCountInBuf \in 0 .. QueueSize /\ QueueSize \in Nat \ {0}
      /\ s \in Sides /\ mats[s] \in Nat
      /\ appendFramesToQueue(lastOutputCams, mats)
  BY QueueSizeAssumption, FramesAreNumbers DEF TypeOK, Modes, Sides, AppendFrames
<1>. DEFINE q == Queued(s)
            new == Queued(s)'
<1>2. /\ q \in Seq(Nat) /\ Len(q) = gCountInBuf
      /\ \A i \in 1 .. gCountInBuf : q[i] = Entry(s, i - 1)
  BY <1>1, QueuedAreFrames
<1>3. /\ gCountInBuf' = IF gCountInBuf = QueueSize THEN QueueSize ELSE gCountInBuf + 1
      /\ gCountInBuf' \in Nat
  BY <1>1, AppendKeepsQueue
<1>4. /\ new \in Seq(Nat) /\ Len(new) = gCountInBuf'
      /\ \A i \in 1 .. gCountInBuf' : new[i] = Entry(s, i - 1)'
  <2>1. QueuedInv'
    BY QueuedAlwaysFrames, PTL
  <2>2. QED
    BY <1>1, <2>1 DEF QueuedInv
<1>5. ASSUME NEW i \in 1 .. gCountInBuf'
      PROVE  IF i = gCountInBuf' THEN new[i] = mats[s]
             ELSE new[i] = IF gCountInBuf = QueueSize THEN q[i + 1] ELSE q[i]
  <2>1. i - 1 \in 0 .. gCountInBuf' - 1
    BY <1>3
  <2>2. IF i - 1 = gCountInBuf' - 1
          THEN Entry(s, i - 1)' = mats[s]
          ELSE /\ Former(i - 1) \in Waiting
               /\ Entry(s, i - 1)' = Entry(s, Former(i - 1))
    BY <1>1, <2>1, AppendedEntries
  <2>3. new[i] = Entry(s, i - 1)'
    BY <1>4
  <2>4. Former(i - 1) = IF gCountInBuf = QueueSize THEN (i + 1) - 1 ELSE i - 1
    BY <1>3 DEF Former
  <2>5. i # gCountInBuf' => (IF gCountInBuf = QueueSize THEN i + 1 ELSE i) \in 1 .. gCountInBuf
    BY <1>1, <1>3
  <2>6. CASE i = gCountInBuf'
    BY <2>2, <2>3, <2>6, <1>3
  <2>7. CASE i # gCountInBuf'
    <3>1. i - 1 # gCountInBuf' - 1
      BY <1>3, <2>7
    <3>2. new[i] = Entry(s, Former(i - 1))
      BY <2>2, <2>3, <3>1
    <3>3. CASE gCountInBuf = QueueSize
      <4>1. i + 1 \in 1 .. gCountInBuf /\ Former(i - 1) = (i + 1) - 1
        BY <2>4, <2>5, <2>7, <3>3
      <4>2. q[i + 1] = Entry(s, (i + 1) - 1)
        BY <1>2, <4>1
      <4>3. QED
        BY <2>7, <3>2, <3>3, <4>1, <4>2
    <3>4. CASE gCountInBuf # QueueSize
      <4>1. i \in 1 .. gCountInBuf /\ Former(i - 1) = i - 1
        BY <2>4, <2>5, <2>7, <3>4
      <4>2. q[i] = Entry(s, i - 1)
        BY <1>2, <4>1
      <4>3. QED
        BY <2>7, <3>2, <3>4, <4>1, <4>2
    <3>5. QED
      BY <3>3, <3>4
  <2>8. QED
    BY <2>6, <2>7
<1>. HIDE DEF q, new
<1>6. new = Promise!Enqueue(q, mats[s])
  <2>1. Len(new) = IF Len(q) = QueueSize THEN QueueSize ELSE Len(q) + 1
    BY <1>2, <1>3, <1>4
  <2>2. gCountInBuf' \in 1 .. gCountInBuf'
    BY <1>1, <1>3
  <2>3. new[Len(new)] = mats[s]
    BY <1>4, <1>5, <2>2
  <2>4. \A i \in 1 .. Len(new) - 1 :
          new[i] = IF Len(q) = QueueSize THEN q[i + 1] ELSE q[i]
    <3>1. Len(new) = gCountInBuf' /\ Len(q) = gCountInBuf
      BY <1>2, <1>4
    <3>2. ASSUME NEW i \in 1 .. gCountInBuf' - 1
          PROVE  new[i] = IF gCountInBuf = QueueSize THEN q[i + 1] ELSE q[i]
      <4>1. i \in 1 .. gCountInBuf' /\ i # gCountInBuf'
        BY <1>3
      <4>2. QED
        BY <1>5, <4>1
    <3>3. QED
      BY <3>1, <3>2
  <2>5. q \in Seq(Nat) /\ new \in Seq(Nat) /\ mats[s] \in Nat
    BY <1>1, <1>2, <1>4
  <2>6. QED
    BY <2>1, <2>3, <2>4, <2>5, EnqueuedEntries
<1>7. QED
  BY <1>6 DEF Put, q, new

(* Taking an entry takes the oldest frame, which the consumer processes if *)
(* it looks at that side.                                                  *)
LEMMA GetTakes ==
  ASSUME TypeOK, TypeOK', QueueConsistent, GetFrames, gThrVarHaveFrames, NEW s \in Sides
  PROVE  Taken(s)
<1>1. /\ gCountInBuf \in Nat \ {0} /\ getFramesFromQueue
      /\ gCountInBuf' = gCountInBuf - 1
  <2>1. gCountInBuf \in Nat \ {0}
    BY QueueSizeAssumption DEF TypeOK, QueueConsistent
  <2>2. getFramesFromQueue
    BY DEF GetFrames
  <2>3. QED
    BY <2>1, <2>2, GetKeepsQueue
<1>. DEFINE q == Queued(s)
            new == Queued(s)'
<1>2. /\ q \in Seq(Nat) /\ Len(q) = gCountInBuf
      /\ \A i \in 1 .. gCountInBuf : q[i] = Entry(s, i - 1)
  BY QueuedAreFrames
<1>3. /\ new \in Seq(Nat) /\ Len(new) = gCountInBuf'
      /\ \A i \in 1 .. gCountInBuf' : new[i] = Entry(s, i - 1)'
  <2>1. QueuedInv'
    BY QueuedAlwaysFrames, PTL
  <2>2. QED
    BY <2>1 DEF QueuedInv
<1>4. ASSUME NEW i \in 1 .. gCountInBuf'
      PROVE  new[i] = q[i + 1]
  <2>1. i - 1 \in 0 .. gCountInBuf' - 1
    BY <1>1
  <2>2. Entry(s, i - 1)' = Entry(s, (i - 1) + 1)
    BY <1>1, <2>1, RemainingEntries
  <2>3. i + 1 \in 1 .. gCountInBuf /\ (i + 1) - 1 = (i - 1) + 1
    BY <1>1
  <2>4. new[i] = Entry(s, i - 1)'
    BY <1>3
  <2>5. QED
    BY <1>2, <2>2, <2>3, <2>4
<1>5. consPc' = "process" /\ s \in consOutputCams => got'[s] = q[1]
  <2>1. EntryIx(0) = gIxToOutput
    BY GotAfterGet
  <2>2. q[1] = Entry(s, 0)
    BY <1>1, <1>2
  <2>3. consPc = "loop"
    BY DEF GetFrames
  <2>4. QED
    BY <2>1, <2>2, <2>3 DEF GetFrames, Entry
<1>. HIDE DEF q, new
<1>6. q # <<>> /\ Head(q) = q[1]
  BY <1>1, <1>2
<1>7. /\ Tail(q) \in Seq(Nat) /\ Len(Tail(q)) = Len(q) - 1
      /\ \A i \in 1 .. Len(Tail(q)) : Tail(q)[i] = q[i + 1]
  BY <1>2, <1>6, HeadTailProperties
<1>8. new = Tail(q)
  BY <1>1, <1>2, <1>3, <1>4, <1>7, SeqEqual
<1>9. QED
  BY <1>5, <1>6, <1>8 DEF Taken, q, new

(* On each of its sides that are stored, the raw queue is a bounded queue  *)
(* that drops its oldest frame: a step puts a frame into it, takes its     *)
(* oldest or leaves it alone, or a switch of the cameras empties it.       *)
THEOREM QueueKeepsPromise ==
  Spec => [][\A s \in lastOutputCams :
               Queued(s)' = Queued(s) \/ Put(s) \/ Taken(s) \/ Emptied(s)]_vars
<1>1. ASSUME Inv, Inv', [Next]_vars, NEW s \in lastOutputCams
      PROVE  Queued(s)' = Queued(s) \/ Put(s) \/ Taken(s) \/ Emptied(s)
  <2>1. TypeOK /\ TypeOK' /\ QueueConsistent /\ s \in Sides
    BY <1>1 DEF Inv, TypeOK, Modes, Sides
  <2>2. ASSUME UNCHANGED <<gCountInBuf, gIxToOutput, gPEntries>>
        PROVE  Queued(s)' = Queued(s)
    BY <2>2 DEF Queued, Entry, EntryIx
  <2>3. CASE AppendFrames
    BY <1>1, <2>1, <2>3, AppendPuts
  <2>4. CASE GetFrames
    <3>1. CASE gThrVarHaveFrames
      BY <2>1, <2>4, <3>1, GetTakes
    <3>2. CASE ~gThrVarHaveFrames
      BY <2>2, <2>4, <3>2, GetFromEmpty DEF rawQueue
    <3>3. QED
      BY <3>1, <3>2
  <2>5. CASE UpdateOptions
    <3>1. CASE lastOutputCams = outputCams
      BY <2>2, <2>5, <3>1 DEF UpdateOptions, rawQueue
    <3>2. CASE lastOutputCams # outputCams
      <4>1. gCountInBuf' = 0 /\ lastOutputCams' # lastOutputCams
        BY <2>5, <3>2 DEF UpdateOptions, flushQueue, CountAfterFlush
      <4>2. QueuedInv'
        BY <2>1, QueuedAlwaysFrames, PTL
      <4>3. Queued(s)' \in Seq(Nat) /\ Len(Queued(s)') = 0
        BY <2>1, <4>1, <4>2 DEF QueuedInv
      <4>4. Queued(s)' = <<>>
        BY <4>3, EmptySeq
      <4>5. QED
        BY <4>1, <4>4 DEF Emptied
    <3>3. QED
      BY <3>1, <3>2
  <2>6. CASE ~QueueSteps
    BY <1>1, <2>2, <2>6, OtherStepsKeepQueue
  <2>7. QED
    BY <2>3, <2>4, <2>5, <2>6 DEF QueueSteps
<1>2. Inv /\ Inv' /\ [Next]_vars =>
        [\A s \in lastOutputCams :
           Queued(s)' = Queued(s) \/ Put(s) \/ Taken(s) \/ Emptied(s)]_vars
  BY <1>1
<1>3. QED
  BY <1>2, InvCorrect, PTL DEF Spec
=============================================================================

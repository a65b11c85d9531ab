--------------------------- MODULE CalibrationProofs ---------------------------
(***************************************************************************)
(* Theorems about the calibration of a camera, for any number of handlers, *)
(* requests and restarts and for every number of patterns and tries.       *)
(***************************************************************************)
EXTENDS Calibration, TLAPS

(* Type correctness.  A complete set of patterns is never added to: with   *)
(* it the camera is calibrated, or the calibration is given up.            *)
PatternsInv == patterns = MaxPatterns => gTries = MAX_TRIES \/ gCalibrated \/ gWriteToFileFailed

(* What a frame does to the calibration.                                   *)
CalibrationStep == FrameIgnored \/ NoPatternFound \/ PatternFound \/ PatternCompletes

LEMMA StepKeepsTypes ==
  ASSUME TypeOK, PatternsInv, CalibrationStep
  PROVE  /\ gCalibrated' \in BOOLEAN
         /\ patterns' \in 0 .. MaxPatterns
         /\ gTries' \in 0 .. MAX_TRIES
         /\ gLoadedFromFile' = gLoadedFromFile
         /\ gWriteToFileFailed' \in BOOLEAN
         /\ file' \in BOOLEAN
         /\ PatternsInv'
<1>. USE CalibrationAssumption DEF TypeOK, PatternsInv
<1>1. CASE FrameIgnored
  BY <1>1 DEF FrameIgnored, calibration
<1>2. CASE NoPatternFound
  BY <1>2 DEF NoPatternFound, Calibrating
<1>3. CASE PatternFound
  BY <1>3 DEF PatternFound, Calibrating, TriesAfterPattern
<1>4. CASE PatternCompletes
  <2>1. /\ gCalibrated' = (canWrite \/ file)
        /\ file' = (canWrite \/ file)
        /\ gWriteToFileFailed' = ~(canWrite \/ file)
    BY <1>4 DEF PatternCompletes, CalibratedAfterSave
  <2>2. gCalibrated' \in BOOLEAN /\ file' \in BOOLEAN /\ gWriteToFileFailed' \in BOOLEAN
    BY <2>1
  <2>3. gCalibrated' \/ gWriteToFileFailed'
    BY <2>1
  <2>4. patterns' \in 0 .. MaxPatterns /\ gTries' = gTries /\ gLoadedFromFile' = gLoadedFromFile
    BY <1>4 DEF PatternCompletes, Calibrating
  <2>5. QED
    BY <2>2, <2>3, <2>4
<1>5. QED
  BY <1>1, <1>2, <1>3, <1>4 DEF CalibrationStep

LEMMA NoFlagsAreFlags == NoFlags \in Flags
BY DEF NoFlags, Flags

LEMMA TypesInductive ==
  ASSUME TypeOK, PatternsInv, [Next]_vars
  PROVE  TypeOK' /\ PatternsInv'
<1>. USE CalibrationAssumption
<1>1. CASE Restart
  <2>1. shared' \in Flags /\ optsRt' \in Flags
    BY <1>1, NoFlagsAreFlags DEF Restart
  <2>2. restarts' \in 0 .. MaxRestarts
    BY <1>1 DEF Restart, TypeOK
  <2>3. patterns' = 0 /\ gTries' = 0
    BY <1>1 DEF Restart
  <2>4. patterns' \in 0 .. MaxPatterns /\ gTries' \in 0 .. MAX_TRIES /\ PatternsInv'
    BY <2>3 DEF PatternsInv
  <2>5. frames' \in 0 .. CopyEvery
    BY <1>1 DEF Restart
  <2>6. QED
    BY <1>1, <2>1, <2>2, <2>4, <2>5 DEF Restart, TypeOK
<1>. USE DEF TypeOK, Flags, PatternsInv
<1>2. CASE InitSubProcs
  BY <1>2 DEF InitSubProcs, handlers, world, history
<1>3. CASE UpdateFlags
  BY <1>3 DEF UpdateFlags, handlers, calibration, world, history
<1>4. CASE ClearDoReset
  BY <1>4 DEF ClearDoReset, handlers, calibration, world, history
<1>5. CASE ResetData
  <2>1. file' \in BOOLEAN /\ wasReset' \in BOOLEAN
    BY <1>5 DEF ResetData, FileAfterReset
  <2>2. patterns' = 0 /\ gTries' = 0
    BY <1>5 DEF ResetData
  <2>3. patterns' \in 0 .. MaxPatterns /\ gTries' \in 0 .. MAX_TRIES /\ PatternsInv'
    BY <2>2
  <2>4. QED
    BY <1>5, <2>1, <2>3 DEF ResetData, SharedAfterReset, handlers, world
<1>6. CASE ProcessFrame
  <2>1. CalibrationStep
    BY <1>6 DEF ProcessFrame, CalibrationStep
  <2>2. shared' \in Flags /\ optsRt' \in Flags
    BY <1>6, <2>1, StepKeepsTypes DEF ProcessFrame, DoneAfterFrame
  <2>3. wasReset' \in BOOLEAN /\ frames' \in 0 .. CopyEvery
    BY <1>6 DEF ProcessFrame
  <2>4. consPc' \in {"loop", "finish"}
    BY <1>6 DEF ProcessFrame
  <2>5. QED
    BY <1>6, <2>1, <2>2, <2>3, <2>4, StepKeepsTypes DEF ProcessFrame, handlers, world
<1>7. CASE ClearDoStart
  <2>1. overtaken' \in BOOLEAN
    BY <1>7 DEF ClearDoStart
  <2>2. QED
    BY <1>7, <2>1 DEF ClearDoStart, handlers, calibration, world
<1>8. ASSUME NEW h \in Handlers, NEW start \in BOOLEAN, SetDoStart(h, start)
      PROVE  TypeOK' /\ PatternsInv'
  <2>1. wanted' \in {"none", "start", "reset"} /\ requests' \in 0 .. MaxRequests
    BY <1>8 DEF SetDoStart
  <2>2. shared' \in Flags
    BY <1>8 DEF SetDoStart, SharedAfterRequest
  <2>3. handlerPc' \in [Handlers -> {"idle", "doStartSet", "doResetSet"}]
    BY <1>8 DEF SetDoStart, HandlerGoes
  <2>4. UNCHANGED <<consumer, calibration, world>>
    BY <1>8 DEF SetDoStart
  <2>5. wasReset' \in BOOLEAN /\ overtaken' \in BOOLEAN
    BY <1>8 DEF SetDoStart
  <2>6. PatternsInv'
    BY <2>4 DEF calibration
  <2>7. TypeOK'
    BY <2>1, <2>2, <2>3, <2>4, <2>5 DEF consumer, calibration, world
  <2>8. QED
    BY <2>6, <2>7
<1>9. ASSUME NEW h \in Handlers, HandlerFinishes(h) PROVE TypeOK' /\ PatternsInv'
  <2>1. shared' \in Flags
    BY <1>9 DEF HandlerFinishes, SetDoReset, SetNotDone
  <2>2. handlerPc' \in [Handlers -> {"idle", "doStartSet", "doResetSet"}]
    BY <1>9 DEF HandlerFinishes, SetDoReset, SetNotDone, HandlerGoes
  <2>3. UNCHANGED <<requests, consumer, calibration, world, history>>
    BY <1>9 DEF HandlerFinishes, SetDoReset, SetNotDone
  <2>4. QED
    BY <2>1, <2>2, <2>3 DEF consumer, calibration, world, history
<1>10. CASE UNCHANGED vars
  BY <1>10 DEF vars, handlers, consumer, calibration, world, history
<1>11. QED
  BY <1>1, <1>2, <1>3, <1>4, <1>5, <1>6, <1>7, <1>8, <1>9, <1>10
     DEF Next, Consumer, Handler

LEMMA TypesAlways == Spec => [](TypeOK /\ PatternsInv)
<1>1. Init => TypeOK /\ PatternsInv
  <2>. SUFFICES ASSUME Init PROVE TypeOK /\ PatternsInv
    OBVIOUS
  <2>1. shared \in Flags /\ optsRt \in Flags
    BY NoFlagsAreFlags DEF Init
  <2>2. requests \in 0 .. MaxRequests /\ frames \in 0 .. CopyEvery /\ restarts \in 0 .. MaxRestarts
    BY CalibrationAssumption DEF Init
  <2>3. patterns \in 0 .. MaxPatterns /\ gTries \in 0 .. MAX_TRIES /\ PatternsInv
    BY CalibrationAssumption DEF Init, PatternsInv
  <2>4. file \in BOOLEAN
    BY DEF Init
  <2>5. QED
    BY <2>1, <2>2, <2>3, <2>4 DEF Init, TypeOK
<1>2. QED
  BY <1>1, TypesInductive, PTL DEF Spec

(* Every variable has its type; in particular no more patterns are kept    *)
(* than the limit with which a calibration is given up.                    *)
THEOREM TypeCorrect == Spec => []TypeOK
BY TypesAlways, PTL

-----------------------------------------------------------------------------
(* A camera that is calibrated has its file, whatever fails.               *)
THEOREM SavedCorrect == Spec => []CalibrationSaved
<1>1. Init => CalibrationSaved
  BY DEF Init, CalibrationSaved
<1>2. TypeOK /\ CalibrationSaved /\ [Next]_vars => CalibrationSaved'
  <2>. SUFFICES ASSUME TypeOK, CalibrationSaved, [Next]_vars PROVE CalibrationSaved'
    OBVIOUS
  <2>. USE DEF CalibrationSaved, TypeOK
  <2>1. CASE Restart \/ InitSubProcs \/ ResetData
    BY <2>1 DEF Restart, InitSubProcs, ResetData
  <2>2. CASE ProcessFrame
    <3>1. CASE FrameIgnored \/ NoPatternFound \/ PatternFound
      BY <3>1 DEF FrameIgnored, NoPatternFound, PatternFound, calibration
    <3>2. CASE PatternCompletes
      BY <3>2 DEF PatternCompletes, CalibratedAfterSave
    <3>3. QED
      BY <2>2, <3>1, <3>2 DEF ProcessFrame
  <2>3. CASE UpdateFlags \/ ClearDoReset \/ ClearDoStart
    BY <2>3 DEF UpdateFlags, ClearDoReset, ClearDoStart, calibration
  <2>4. ASSUME NEW h \in Handlers, Handler(h) PROVE CalibrationSaved'
    BY <2>4 DEF Handler, SetDoStart, HandlerFinishes, SetDoReset, SetNotDone, calibration
  <2>5. CASE UNCHANGED vars
    BY <2>5 DEF vars, calibration
  <2>6. QED
    BY <2>1, <2>2, <2>3, <2>4, <2>5 DEF Next, Consumer
<1>3. QED
  BY <1>1, <1>2, TypeCorrect, PTL DEF Spec

-----------------------------------------------------------------------------
(* A reset request is still to be carried out.                             *)
ResetPending ==
  \/ shared.doReset
  \/ consPc = "reset"
  \/ \E h \in Handlers : handlerPc[h] = "doStartSet"

(* Once the reset that was asked for last has been carried out, nothing is *)
(* done or calibrated, and a start that the consumer still has in its copy *)
(* has collected no more patterns than frames were processed with it.      *)
ResetDone ==
  /\ ~gCalibrated /\ ~shared.done /\ ~optsRt.done
  /\ consPc # "load"
  /\ optsRt.doStart => patterns <= frames

ResetInv ==
  /\ optsRt.doReset => shared.doReset
  /\ wanted = "reset" => ~shared.doStart /\ (ResetPending \/ ResetDone)

(* A frame that comes when the reset is done cannot complete a calibration:*)
(* too few patterns fit between two copies of the flags.                   *)
LEMMA NothingCompletes ==
  ASSUME CopyEvery < MinPatterns, TypeOK, ResetDone, frames < CopyEvery, CalibrationStep
  PROVE  ~gCalibrated' /\ (optsRt.doStart => patterns' <= frames + 1)
<1>. USE CalibrationAssumption DEF TypeOK, ResetDone
<1>1. CASE FrameIgnored
  BY <1>1 DEF FrameIgnored, calibration
<1>2. CASE NoPatternFound
  BY <1>2 DEF NoPatternFound
<1>3. CASE PatternFound
  BY <1>3 DEF PatternFound
<1>4. CASE PatternCompletes
  <2>1. patterns + 1 >= MinPatterns /\ optsRt.doStart
    BY <1>4 DEF PatternCompletes, Calibrating
  <2>2. QED
    BY <2>1
<1>5. QED
  BY <1>1, <1>2, <1>3, <1>4 DEF CalibrationStep

LEMMA ResetInvInductive ==
  ASSUME CopyEvery < MinPatterns, TypeOK, ResetInv, [Next]_vars
  PROVE  ResetInv'
<1>1. CASE Restart
  BY <1>1 DEF Restart, NoFlags, ResetInv
<1>2. CASE InitSubProcs
  BY <1>2 DEF InitSubProcs, handlers, history, ResetInv, ResetPending, ResetDone
<1>3. CASE UpdateFlags
  BY <1>3 DEF UpdateFlags, handlers, calibration, history, TypeOK, Flags,
              ResetInv, ResetPending, ResetDone
<1>4. CASE ClearDoReset
  BY <1>4 DEF ClearDoReset, handlers, history, TypeOK, Flags, ResetInv, ResetPending
<1>5. CASE ResetData
  BY <1>5 DEF ResetData, SharedAfterReset, handlers, TypeOK, Flags,
              ResetInv, ResetPending, ResetDone
<1>6. CASE ProcessFrame
  <2>1. CalibrationStep /\ frames < CopyEvery /\ frames' = frames + 1
    BY <1>6 DEF ProcessFrame, CalibrationStep
  <2>2. /\ shared'.doReset = shared.doReset /\ optsRt'.doReset = optsRt.doReset
        /\ shared'.doStart = shared.doStart /\ optsRt'.doStart = optsRt.doStart
        /\ UNCHANGED <<handlerPc, wanted>>
        /\ consPc # "reset" /\ consPc' # "load"
    BY <1>6 DEF ProcessFrame, DoneAfterFrame, handlers, TypeOK, Flags
  <2>3. ASSUME ResetDone PROVE ResetDone'
    <3>1. ~gCalibrated' /\ (optsRt.doStart => patterns' <= frames + 1)
      BY <2>1, <2>3, NothingCompletes
    <3>2. gCalibrated' = FALSE /\ optsRt.done = FALSE
      BY <1>6, <2>1, <2>3, <3>1 DEF ResetDone, TypeOK, Flags, CalibrationStep, FrameIgnored,
         NoPatternFound, PatternFound, PatternCompletes, CalibratedAfterSave, calibration
    <3>3. UNCHANGED <<shared, optsRt>>
      BY <1>6, <3>2 DEF ProcessFrame
    <3>4. QED
      BY <2>1, <2>2, <2>3, <3>1, <3>3 DEF ResetDone
  <2>4. QED
    BY <2>2, <2>3 DEF ResetInv, ResetPending
<1>7. CASE ClearDoStart
  BY <1>7 DEF ClearDoStart, handlers, calibration, TypeOK, Flags,
              ResetInv, ResetPending, ResetDone
<1>8. ASSUME NEW h \in Handlers, NEW start \in BOOLEAN, SetDoStart(h, start)
      PROVE  ResetInv'
  <2>1. handlerPc'[h] = "doStartSet"
    BY <1>8 DEF SetDoStart, HandlerGoes, TypeOK
  <2>2. shared'.doReset = shared.doReset /\ shared'.doStart = start /\ UNCHANGED optsRt
    BY <1>8 DEF SetDoStart, SharedAfterRequest, consumer, TypeOK, Flags
  <2>3. wanted' = "reset" => ~start
    BY <1>8 DEF SetDoStart
  <2>4. QED
    BY <2>1, <2>2, <2>3 DEF ResetInv, ResetPending
<1>9. ASSUME NEW h \in Handlers, SetDoReset(h) PROVE ResetInv'
  BY <1>9 DEF SetDoReset, HandlerGoes, consumer, history, TypeOK, Flags,
              ResetInv, ResetPending
<1>10. ASSUME NEW h \in Handlers, SetNotDone(h) PROVE ResetInv'
  BY <1>10 DEF SetNotDone, HandlerGoes, consumer, calibration, history, TypeOK, Flags,
               ResetInv, ResetPending, ResetDone
<1>11. CASE UNCHANGED vars
  BY <1>11 DEF vars, handlers, consumer, calibration, history,
               ResetInv, ResetPending, ResetDone
<1>12. QED
  BY <1>1, <1>2, <1>3, <1>4, <1>5, <1>6, <1>7, <1>8, <1>9, <1>10, <1>11
     DEF Next, Consumer, Handler, HandlerFinishes

(* A reset that is the last request wins over every calibration that was   *)
(* running or asked for, if fewer frames than patterns pass between two    *)
(* copies of the flags.                                                    *)
THEOREM ResetWinsCorrect ==
  ASSUME CopyEvery < MinPatterns
  PROVE  Spec => []ResetWins
<1>1. Init => ResetInv
  BY DEF Init, ResetInv, NoFlags
<1>2. TypeOK /\ ResetInv /\ [Next]_vars => ResetInv'
  BY ResetInvInductive
<1>3. ResetInv => ResetWins
  BY DEF ResetInv, ResetPending, ResetDone, ResetWins, Quiet
<1>4. QED
  BY <1>1, <1>2, <1>3, TypeCorrect, PTL DEF Spec

-----------------------------------------------------------------------------
(* The consumer clears the flag of a start only for a camera that it has   *)
(* calibrated; without another request that camera stays calibrated.       *)
StartInv ==
  /\ optsRt.doReset => shared.doReset
  /\ consPc = "finish" => gCalibrated
  /\ consPc = "reset" => ~optsRt.doReset
  /\ wanted = "start" /\ ~overtaken =>
       \/ shared.doStart
       \/ /\ gCalibrated /\ ~shared.doReset
          /\ consPc \notin {"load", "reset"}
          /\ \A h \in Handlers : handlerPc[h] # "doStartSet"

(* A calibrated camera stays calibrated while frames are processed.        *)
LEMMA StaysCalibrated ==
  ASSUME gCalibrated, CalibrationStep
  PROVE  gCalibrated'
BY DEF CalibrationStep, FrameIgnored, NoPatternFound, PatternFound, PatternCompletes,
       Calibrating, calibration

(* The last request is carried out, given up or still wanted if it was a   *)
(* start, unless it was overtaken by the end of the one before.            *)
THEOREM StartCorrect == Spec => []StartTakesEffect
<1>1. Init => StartInv
  BY DEF Init, StartInv, NoFlags
<1>2. TypeOK /\ StartInv /\ [Next]_vars => StartInv'
  <2>. SUFFICES ASSUME TypeOK, StartInv, [Next]_vars PROVE StartInv'
    OBVIOUS
  <2>. USE DEF StartInv, TypeOK, Flags
  <2>1. CASE Restart
    BY <2>1 DEF Restart, NoFlags
  <2>2. CASE InitSubProcs
    BY <2>2 DEF InitSubProcs, handlers, history
  <2>3. CASE UpdateFlags
    BY <2>3 DEF UpdateFlags, handlers, calibration, history
  <2>4. CASE ClearDoReset
    BY <2>4 DEF ClearDoReset, handlers, calibration, history
  <2>5. CASE ResetData
    BY <2>5 DEF ResetData, SharedAfterReset, handlers
  <2>6. CASE ProcessFrame
    <3>1. gCalibrated => gCalibrated'
      BY <2>6, StaysCalibrated DEF ProcessFrame, CalibrationStep
    <3>2. /\ shared'.doReset = shared.doReset /\ optsRt'.doReset = optsRt.doReset
          /\ shared'.doStart = shared.doStart
          /\ UNCHANGED <<handlerPc, wanted, overtaken>>
          /\ consPc' = "loop" \/ (consPc' = "finish" /\ gCalibrated')
      BY <2>6 DEF ProcessFrame, DoneAfterFrame, handlers
    <3>3. QED
      BY <3>1, <3>2
  <2>7. CASE ClearDoStart
    BY <2>7 DEF ClearDoStart, handlers, calibration
  <2>8. ASSUME NEW h \in Handlers, NEW start \in BOOLEAN, SetDoStart(h, start)
        PROVE  StartInv'
    BY <2>8 DEF SetDoStart, SharedAfterRequest, HandlerGoes, consumer, calibration
  <2>9. ASSUME NEW h \in Handlers, HandlerFinishes(h) PROVE StartInv'
    BY <2>9 DEF HandlerFinishes, SetDoReset, SetNotDone, HandlerGoes, consumer,
                calibration, history
  <2>10. CASE UNCHANGED vars
    BY <2>10 DEF vars, handlers, consumer, calibration, history
  <2>11. QED
    BY <2>1, <2>2, <2>3, <2>4, <2>5, <2>6, <2>7, <2>8, <2>9, <2>10
       DEF Next, Consumer, Handler
<1>3. StartInv => StartTakesEffect
  BY DEF StartInv, StartTakesEffect, Quiet
<1>4. QED
  BY <1>1, <1>2, <1>3, TypeCorrect, PTL DEF Spec

-----------------------------------------------------------------------------
(* A calibration that came from the file and was reset left no file.       *)
NoFileInv == wasReset => ~file

(* The next run of the program does not come up with it either.            *)
THEOREM ResetLastsCorrect == Spec => ResetLasts
<1>1. Init => NoFileInv
  BY DEF Init, NoFileInv
<1>2. TypeOK /\ NoFileInv /\ [Next]_vars => NoFileInv'
  <2>. SUFFICES ASSUME TypeOK, NoFileInv, [Next]_vars PROVE NoFileInv'
    OBVIOUS
  <2>. USE DEF NoFileInv, TypeOK
  <2>1. CASE ResetData
    BY <2>1 DEF ResetData, FileAfterReset
  <2>2. CASE ProcessFrame
    <3>1. CASE FrameIgnored \/ NoPatternFound \/ PatternFound
      BY <2>2, <3>1 DEF ProcessFrame, FrameIgnored, NoPatternFound, PatternFound, calibration
    <3>2. CASE PatternCompletes
      BY <2>2, <3>2 DEF ProcessFrame, PatternCompletes, CalibratedAfterSave
    <3>3. QED
      BY <2>2, <3>1, <3>2 DEF ProcessFrame
  <2>3. CASE Restart \/ InitSubProcs \/ UpdateFlags \/ ClearDoReset \/ ClearDoStart
    BY <2>3 DEF Restart, InitSubProcs, UpdateFlags, ClearDoReset, ClearDoStart,
                calibration, history
  <2>4. ASSUME NEW h \in Handlers, Handler(h) PROVE NoFileInv'
    BY <2>4 DEF Handler, SetDoStart, HandlerFinishes, SetDoReset, SetNotDone,
                calibration, history
  <2>5. CASE UNCHANGED vars
    BY <2>5 DEF vars, calibration, history
  <2>6. QED
    BY <2>1, <2>2, <2>3, <2>4, <2>5 DEF Next, Consumer
<1>3. TypeOK /\ NoFileInv /\ [Next]_vars =>
        [consPc = "load" /\ consPc' = "start" /\ wasReset => ~gCalibrated']_vars
  <2>. SUFFICES ASSUME TypeOK, NoFileInv, Next, consPc = "load", consPc' = "start", wasReset
                PROVE  ~gCalibrated'
    OBVIOUS
  <2>1. InitSubProcs
    BY DEF Next, Restart, Consumer, UpdateFlags, ClearDoReset, ResetData, ProcessFrame,
           ClearDoStart, Handler, SetDoStart, HandlerFinishes, SetDoReset, SetNotDone, consumer
  <2>2. QED
    BY <2>1 DEF InitSubProcs, NoFileInv
<1>4. QED
  BY <1>1, <1>2, <1>3, TypeCorrect, PTL DEF Spec, ResetLasts
=============================================================================

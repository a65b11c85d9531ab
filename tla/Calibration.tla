----------------------------- MODULE Calibration ------------------------------
(***************************************************************************)
(* The calibration of one camera (FrameSubProcessorCalibrate) and the      *)
(* flags that control it.  HTTP handlers start and reset a calibration by  *)
(* setting three flags in Shared, each with a lock of its own.  The frame  *)
(* consumer copies the flags every few rounds and looks at its copy with   *)
(* every frame: it resets, collects chessboard patterns, calibrates, and   *)
(* writes flags back to Shared.  A calibration is saved to a file that the *)
(* next run of the program loads.                                          *)
(*                                                                         *)
(* Of the data of a calibration only its existence is kept, and of the     *)
(* patterns their number.  The calibration output path does not change: if *)
(* it cannot be written to, it never can.                                  *)
(***************************************************************************)
EXTENDS Naturals

CONSTANTS
  MAX_TRIES,    \* frames without a pattern after which it gives up
  MinPatterns,  \* patterns with which it first tries to calibrate
  MaxPatterns,  \* patterns with which it gives up
  CopyEvery,    \* frames between two copies of the flags (cameraFps / 5)
  Handlers,     \* the handler threads
  MaxRequests,  \* bound: how many requests are made
  MaxRestarts   \* bound: how often the program is started again

ASSUME CalibrationAssumption ==
  /\ MAX_TRIES \in Nat \ {0}
  /\ MinPatterns \in Nat \ {0}
  /\ MaxPatterns \in Nat /\ MinPatterns <= MaxPatterns
  /\ CopyEvery \in Nat \ {0}
  /\ MaxRequests \in Nat
  /\ MaxRestarts \in Nat

VARIABLES
  canWrite,     \* can files be created in the calibration output path?
  shared,       \* Shared: the flags of this camera
  handlerPc,    \* where each handler is
  requests,     \* requests so far
  consPc,       \* where the consumer is
  optsRt,       \* the consumer's copy of the flags
  frames,       \* frames processed since the copy was made
  gCalibrated,
  patterns,     \* how many patterns were collected (imagePoints.size())
  gTries,
  gLoadedFromFile, gWriteToFileFailed,
  file,         \* is there a data file?
  restarts,     \* how often the program was started again
  wanted,       \* history: what the last request asked for
  wasReset,     \* history: did a reset request end a calibration from the file?
  overtaken     \* history: did a start end while a request was pending?

handlers == <<handlerPc, requests>>
consumer == <<consPc, optsRt, frames>>
calibration == <<gCalibrated, patterns, gTries, gLoadedFromFile,
                 gWriteToFileFailed, file>>
history == <<wanted, wasReset, overtaken>>
world == <<canWrite, restarts>>
vars == <<shared, handlers, consumer, calibration, world, history>>

Flags == [doStart : BOOLEAN, doReset : BOOLEAN, done : BOOLEAN]

NoFlags == [doStart |-> FALSE, doReset |-> FALSE, done |-> FALSE]

Init ==
  /\ shared = NoFlags
  /\ handlerPc = [h \in Handlers |-> "idle"]
  /\ requests = 0
  /\ consPc = "load"
  /\ optsRt = NoFlags
  /\ frames = 0
  /\ gCalibrated = FALSE
  /\ patterns = 0
  /\ gTries = 0
  /\ gLoadedFromFile = FALSE
  /\ gWriteToFileFailed = FALSE
  /\ canWrite \in BOOLEAN
  /\ file \in IF canWrite THEN BOOLEAN ELSE {FALSE}
  /\ restarts = 0
  /\ wanted = "none"
  /\ wasReset = FALSE
  /\ overtaken = FALSE
-----------------------------------------------------------------------------
HandlerGoes(h, pc) == handlerPc' = [handlerPc EXCEPT ![h] = pc]

(* Mutant of SharedAfterRequest: a reset leaves a running start alone.     *)
SharedAfterRequestKept(start) ==
  [shared EXCEPT !.doStart = shared.doStart \/ start]

SharedAfterRequest(start) == [shared EXCEPT !.doStart = start]

(* The first of three flags: a start raises doStart, a reset lowers it.    *)
SetDoStart(h, start) ==
  /\ handlerPc[h] = "idle"
  /\ requests < MaxRequests
  /\ requests' = requests + 1
  /\ shared' = SharedAfterRequest(start)
  /\ HandlerGoes(h, "doStartSet")
  /\ wanted' = IF start THEN "start" ELSE "reset"
  /\ overtaken' = FALSE
  /\ UNCHANGED <<consumer, calibration, world, wasReset>>

SetDoReset(h) ==
  /\ handlerPc[h] = "doStartSet"
  /\ shared' = [shared EXCEPT !.doReset = TRUE]
  /\ HandlerGoes(h, "doResetSet")
  /\ UNCHANGED <<requests, consumer, calibration, world, history>>

SetNotDone(h) ==
  /\ handlerPc[h] = "doResetSet"
  /\ shared' = [shared EXCEPT !.done = FALSE]
  /\ HandlerGoes(h, "idle")
  /\ UNCHANGED <<requests, consumer, calibration, world, history>>
-----------------------------------------------------------------------------
(* The constructor of the frame processor loads the file, which holds the  *)
(* patterns of the calibration too.                                        *)
InitSubProcs ==
  /\ consPc = "load"
  /\ gLoadedFromFile' = file
  /\ gCalibrated' = file
  /\ patterns' = IF file THEN MinPatterns ELSE 0
  /\ consPc' = "start"
  /\ UNCHANGED <<shared, handlers, optsRt, frames, gTries, gWriteToFileFailed,
                 file, world, history>>

(* The consumer copies the flags, before its first round and every few     *)
(* rounds from then on.                                                    *)
UpdateFlags ==
  /\ consPc \in {"start", "loop"}
  /\ optsRt' = shared
  /\ frames' = 0
  /\ consPc' = "loop"
  /\ UNCHANGED <<shared, handlers, calibration, world, history>>

(* A frame comes while a reset is asked for: its flag is cleared, ...      *)
ClearDoReset ==
  /\ consPc = "loop"
  /\ optsRt.doReset
  /\ shared' = [shared EXCEPT !.doReset = FALSE]
  /\ optsRt' = [optsRt EXCEPT !.doReset = FALSE]
  /\ consPc' = "reset"
  /\ UNCHANGED <<handlers, frames, calibration, world, history>>

(* Mutant of FileAfterReset: the file is not deleted.                      *)
FileAfterResetKept == file

(* The file is deleted only if the calibration was loaded from it.         *)
FileAfterReset == file /\ ~gLoadedFromFile

(* Mutant of SharedAfterReset: the reset that comes with a start takes the *)
(* start with it.                                                          *)
SharedAfterResetStops == [shared EXCEPT !.done = FALSE, !.doStart = FALSE]

SharedAfterReset == [shared EXCEPT !.done = FALSE]

(* ... then the data are reset.  (Perspective and translation of the same  *)
(* camera are told to reset their data too.)                               *)
ResetData ==
  /\ consPc = "reset"
  /\ shared' = SharedAfterReset
  /\ optsRt' = [optsRt EXCEPT !.done = FALSE]
  /\ gCalibrated' = FALSE
  /\ file' = FileAfterReset
  /\ gLoadedFromFile' = FALSE
  /\ patterns' = 0
  /\ gTries' = 0
  /\ consPc' = "process"
  /\ wasReset' = (wanted = "reset" /\ gLoadedFromFile)
  /\ UNCHANGED <<handlers, frames, gWriteToFileFailed, world, wanted, overtaken>>

(* processFrame does something to a frame only while a calibration is      *)
(* running and has not given up.                                           *)
Calibrating ==
  /\ optsRt.doStart \/ optsRt.done
  /\ gTries # MAX_TRIES
  /\ ~gWriteToFileFailed
  /\ ~gCalibrated

(* A frame that changes nothing about the calibration.                     *)
FrameIgnored ==
  /\ ~Calibrating
  /\ UNCHANGED calibration

NoPatternFound ==
  /\ Calibrating
  /\ gTries' = gTries + 1
  /\ UNCHANGED <<gCalibrated, patterns, gLoadedFromFile, gWriteToFileFailed, file>>

TriesAfterPattern == IF patterns + 1 >= MaxPatterns THEN MAX_TRIES ELSE gTries

(* The next pattern is too few, or one with which the calibration fails.   *)
PatternFound ==
  /\ Calibrating
  /\ patterns' = patterns + 1
  /\ gTries' = TriesAfterPattern
  /\ UNCHANGED <<gCalibrated, gLoadedFromFile, gWriteToFileFailed, file>>

(* Mutant of CalibratedAfterSave: a failed save does not matter.           *)
CalibratedAfterSaveAnyway == TRUE

CalibratedAfterSave == canWrite \/ file

(* The calibration succeeds and is saved; it counts only if there is a     *)
(* file afterwards.                                                        *)
PatternCompletes ==
  /\ Calibrating
  /\ patterns + 1 >= MinPatterns
  /\ patterns' = patterns + 1
  /\ gCalibrated' = CalibratedAfterSave
  /\ file' = (canWrite \/ file)
  /\ gWriteToFileFailed' = ~(canWrite \/ file)
  /\ UNCHANGED <<gTries, gLoadedFromFile>>

(* Mutant of DoneAfterFrame: the clients are not told.                     *)
DoneAfterFrameKept == shared

DoneAfterFrame == [shared EXCEPT !.done = gCalibrated']

(* A frame is processed; if that disagrees with the flag, the clients are  *)
(* told, and a start that has succeeded is over.                           *)
ProcessFrame ==
  /\ consPc = "process" \/ (consPc = "loop" /\ ~optsRt.doReset)
  /\ frames < CopyEvery
  /\ frames' = frames + 1
  /\ FrameIgnored \/ NoPatternFound \/ PatternFound \/ PatternCompletes
  /\ IF gCalibrated' # optsRt.done
       THEN /\ shared' = DoneAfterFrame
            /\ optsRt' = [optsRt EXCEPT !.done = gCalibrated']
            /\ consPc' = IF gCalibrated' /\ optsRt.doStart THEN "finish" ELSE "loop"
       ELSE consPc' = "loop" /\ UNCHANGED <<shared, optsRt>>
  /\ wasReset' = (wasReset /\ ~gCalibrated')
  /\ UNCHANGED <<handlers, world, wanted, overtaken>>

(* The flag is cleared, whatever was requested since it was copied.        *)
ClearDoStart ==
  /\ consPc = "finish"
  /\ shared' = [shared EXCEPT !.doStart = FALSE]
  /\ optsRt' = [optsRt EXCEPT !.doStart = FALSE]
  /\ consPc' = "loop"
  /\ overtaken' = (shared.doReset \/ \E h \in Handlers : handlerPc[h] # "idle")
  /\ UNCHANGED <<handlers, frames, calibration, world, wanted, wasReset>>

(* The program stops, wherever its threads are, and is started again.      *)
Restart ==
  /\ restarts < MaxRestarts
  /\ restarts' = restarts + 1
  /\ shared' = NoFlags
  /\ handlerPc' = [h \in Handlers |-> "idle"]
  /\ consPc' = "load"
  /\ optsRt' = NoFlags
  /\ frames' = 0
  /\ gCalibrated' = FALSE
  /\ patterns' = 0
  /\ gTries' = 0
  /\ gLoadedFromFile' = FALSE
  /\ gWriteToFileFailed' = FALSE
  /\ wanted' = "none"
  /\ overtaken' = FALSE
  /\ UNCHANGED <<canWrite, requests, file, wasReset>>
-----------------------------------------------------------------------------
HandlerFinishes(h) == SetDoReset(h) \/ SetNotDone(h)

Handler(h) ==
  (\E start \in BOOLEAN : SetDoStart(h, start)) \/ HandlerFinishes(h)

Consumer ==
  InitSubProcs \/ UpdateFlags \/ ClearDoReset \/ ResetData \/ ProcessFrame \/ ClearDoStart

Next == Restart \/ Consumer \/ \E h \in Handlers : Handler(h)

Spec == Init /\ [][Next]_vars

(* A handler that has begun a request finishes it, and the consumer keeps  *)
(* copying the flags and, because there is a client and the camera is      *)
(* shown, processing frames.  Requests need not be made, and patterns need *)
(* not be found.                                                           *)
FairSpec ==
  /\ Spec
  /\ \A h \in Handlers : WF_vars(HandlerFinishes(h))
  /\ WF_vars(Consumer)
  /\ SF_vars(UpdateFlags)
  /\ SF_vars(ProcessFrame)
-----------------------------------------------------------------------------
(* Every variable has its type.                                            *)
TypeOK ==
  /\ shared \in Flags /\ optsRt \in Flags
  /\ handlerPc \in [Handlers -> {"idle", "doStartSet", "doResetSet"}]
  /\ requests \in 0 .. MaxRequests
  /\ consPc \in {"load", "start", "loop", "reset", "process", "finish"}
  /\ frames \in 0 .. CopyEvery
  /\ gCalibrated \in BOOLEAN
  /\ patterns \in 0 .. MaxPatterns
  /\ gTries \in 0 .. MAX_TRIES
  /\ gLoadedFromFile \in BOOLEAN
  /\ gWriteToFileFailed \in BOOLEAN
  /\ file \in BOOLEAN
  /\ canWrite \in BOOLEAN
  /\ restarts \in 0 .. MaxRestarts
  /\ wanted \in {"none", "start", "reset"}
  /\ wasReset \in BOOLEAN /\ overtaken \in BOOLEAN

(* A camera that is calibrated stays so if the program stops now: there is *)
(* a file for the next run to load.                                        *)
CalibrationSaved == gCalibrated => file

(* The handlers are done and the consumer has seen what they set.          *)
Quiet ==
  /\ \A h \in Handlers : handlerPc[h] = "idle"
  /\ consPc = "loop"
  /\ optsRt = shared
  /\ ~shared.doReset

(* The last request wins if it was a reset: a calibration that was running *)
(* when it came, or that an earlier start had asked for, does not complete *)
(* after it.  This needs CopyEvery < MinPatterns: the flags are copied     *)
(* every cameraFps / 5 frames and 10 patterns are needed, so that it holds *)
(* below 50 frames per second and not for every rate that can be           *)
(* configured.                                                             *)
ResetWins == Quiet /\ wanted = "reset" => ~gCalibrated /\ ~shared.doStart

(* When no more requests come, the flag that clients see agrees with the   *)
(* calibration, although a handler clears it after the consumer may have   *)
(* set it.                                                                 *)
DoneConverges == <>[](shared.done = gCalibrated)

(* The last request is carried out, given up or still wanted if it was a   *)
(* start, unless the consumer was just then clearing the flag of an        *)
(* earlier start, which takes the new one with it.                         *)
StartTakesEffect ==
  Quiet /\ wanted = "start" /\ ~overtaken => gCalibrated \/ shared.doStart

(* A calibration that came from the file and was reset is gone, for the    *)
(* next run of the program too.  (One that was made in this run comes back *)
(* with the next: its file is not deleted.)                                *)
ResetLasts ==
  [][ consPc = "load" /\ consPc' = "start" /\ wasReset => ~gCalibrated' ]_vars
=============================================================================

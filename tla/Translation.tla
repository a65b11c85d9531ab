----------------------------- MODULE Translation ------------------------------
(***************************************************************************)
(* The translation of one camera's image (FrameSubProcessorTranslation)    *)
(* and the runtime options that control it.  HTTP handlers set the deltas  *)
(* and flags in Shared, each with a lock of its own; the frame consumer    *)
(* copies all options at once, applies what is flagged as changed, clears  *)
(* the flag, and resets the deltas when it is told to.  The fixed delta is *)
(* kept in a file that the next run of the program loads.                  *)
(*                                                                         *)
(* A delta is an element of Deltas, and 0 is no translation.  The handlers *)
(* of the two dynamic deltas and of the left and right fixed delta treat   *)
(* every camera alike, so one camera is modelled.  The calibration output  *)
(* path does not change: if it cannot be written to, it never can.         *)
(***************************************************************************)
EXTENDS Naturals

CONSTANTS
  Deltas,     \* the deltas that clients ask for
  Handlers,   \* the handler threads
  NoFile,     \* stands for the contents of a file that does not exist
  MaxRestarts \* bound: how often the program is started again

ASSUME TranslationAssumption ==
  /\ Deltas \subseteq Nat
  /\ 0 \in Deltas
  /\ NoFile \notin Deltas
  /\ MaxRestarts \in Nat

VARIABLES
  canWrite,     \* can files be created in the calibration output path?
  shared,       \* Shared: the options of this camera
  handlerPc,    \* where each handler is
  rtOptsCur,    \* the fixed delta in each handler's snapshot of the options
  consPc,       \* where the consumer is
  optsRt,       \* the consumer's copy of the options
  gTrDataFix, gTrDataDyn,  \* the deltas that are applied to frames
  gLastTrDataFix,          \* the fixed delta that was saved last
  gLoadedFromFile, gLoadFromFileFailed, gWriteToFileFailed,
  file,         \* the contents of the data file
  restarts,     \* how often the program was started again
  raced,        \* history: was an option set while another was applied?
  touched       \* history: was a delta or its flag set since the last reset?

handlers == <<handlerPc, rtOptsCur>>
consumer == <<consPc, optsRt>>
filter == <<gTrDataFix, gTrDataDyn, gLastTrDataFix, gLoadedFromFile,
            gLoadFromFileFailed, gWriteToFileFailed, file>>
history == <<raced, touched>>
world == <<canWrite, restarts>>
vars == <<shared, handlers, consumer, filter, world, history>>

Options == [fix : Deltas, dyn : Deltas, changed : BOOLEAN, doReset : BOOLEAN]

(* RuntimeOptionsStc::reset.                                               *)
InitialOptions == [fix |-> 0, dyn |-> 0, changed |-> FALSE, doReset |-> FALSE]

Init ==
  /\ shared = InitialOptions
  /\ handlerPc = [h \in Handlers |-> "idle"]
  /\ rtOptsCur = [h \in Handlers |-> 0]
  /\ consPc = "load"
  /\ optsRt = InitialOptions
  /\ gTrDataFix = 0 /\ gTrDataDyn = 0 /\ gLastTrDataFix = 0
  /\ gLoadedFromFile = FALSE
  /\ gLoadFromFileFailed = FALSE
  /\ gWriteToFileFailed = FALSE
  /\ canWrite \in BOOLEAN
  /\ file \in IF canWrite THEN Deltas \cup {NoFile} ELSE {NoFile}
  /\ restarts = 0
  /\ raced = FALSE
  /\ touched = FALSE
-----------------------------------------------------------------------------
(* The consumer holds a copy that it is about to apply.                    *)
Applying == consPc = "apply" /\ optsRt.changed

Connect(h) ==
  /\ handlerPc[h] = "idle"
  /\ handlerPc' = [handlerPc EXCEPT ![h] = "connected"]
  /\ rtOptsCur' = [rtOptsCur EXCEPT ![h] = shared.fix]
  /\ UNCHANGED <<shared, consumer, filter, world, history>>

(* A request looks at its snapshot only before it sets something: from then*)
(* on the snapshot has its initial value, which nothing reads.             *)
HandlerGoes(h, pc) ==
  /\ handlerPc' = [handlerPc EXCEPT ![h] = pc]
  /\ rtOptsCur' = [rtOptsCur EXCEPT ![h] = 0]

(* A delta that the snapshot shows to be set already is not set again.     *)
NothingToSet(h) ==
  /\ handlerPc[h] = "connected"
  /\ HandlerGoes(h, "idle")
  /\ UNCHANGED <<shared, consumer, filter, world, history>>

(* The delta is set first, and the flag after it (SetTrChanged).           *)
SetFixDelta(h, delta) ==
  /\ handlerPc[h] = "connected"
  /\ delta # rtOptsCur[h]
  /\ shared' = [shared EXCEPT !.fix = delta]
  /\ raced' = (raced \/ Applying)
  /\ touched' = TRUE
  /\ HandlerGoes(h, "deltaSet")
  /\ UNCHANGED <<consumer, filter, world>>

(* One request sets the dynamic deltas of both cameras if one of them      *)
(* differs from the snapshot.                                              *)
SetDynDelta(h, delta) ==
  /\ handlerPc[h] = "connected"
  /\ shared' = [shared EXCEPT !.dyn = delta]
  /\ raced' = (raced \/ Applying)
  /\ touched' = TRUE
  /\ HandlerGoes(h, "deltaSet")
  /\ UNCHANGED <<consumer, filter, world>>

SetTrChanged(h) ==
  /\ handlerPc[h] = "deltaSet"
  /\ shared' = [shared EXCEPT !.changed = TRUE]
  /\ raced' = (raced \/ Applying)
  /\ touched' = TRUE
  /\ HandlerGoes(h, "idle")
  /\ UNCHANGED <<consumer, filter, world>>

SetTrDoReset(h) ==
  /\ handlerPc[h] = "connected"
  /\ shared' = [shared EXCEPT !.doReset = TRUE]
  /\ HandlerGoes(h, "idle")
  /\ UNCHANGED <<consumer, filter, world, history>>
-----------------------------------------------------------------------------
FileThere == file # NoFile

(* The file is read if there is one.  (The header of a file written by     *)
(* this configuration matches it.)                                         *)
loadTrDataFromFile ==
  /\ gLoadedFromFile' = FileThere
  /\ gLoadFromFileFailed' = (gLoadFromFileFailed \/ ~FileThere)
  /\ gTrDataFix' = IF FileThere THEN file ELSE gTrDataFix
  /\ gLastTrDataFix' = IF FileThere THEN file ELSE gLastTrDataFix

(* What a save of a delta leaves in the file.                              *)
FileAfterSave(delta) == IF canWrite THEN delta ELSE file

(* A delta that differs from the one saved last is saved, until a save     *)
(* leaves no file behind.                                                  *)
setFixDelta(delta) ==
  /\ gTrDataFix' = delta
  /\ gLastTrDataFix' = delta
  /\ IF delta # gLastTrDataFix /\ ~gWriteToFileFailed
       THEN /\ file' = FileAfterSave(delta)
            /\ gWriteToFileFailed' = (FileAfterSave(delta) = NoFile)
       ELSE UNCHANGED <<file, gWriteToFileFailed>>

(* The constructor of the frame processor loads the file and shows the     *)
(* fixed delta to the clients.                                             *)
InitSubProcs ==
  /\ consPc = "load"
  /\ loadTrDataFromFile
  /\ shared' = [shared EXCEPT !.fix = gTrDataFix']
  /\ consPc' = "start"
  /\ UNCHANGED <<handlers, optsRt, gTrDataDyn, gWriteToFileFailed, file,
                 world, history>>

(* Mutant of MustApply: the deltas are applied with every copy.            *)
MustApplyAlways == TRUE

MustApply == shared.changed

(* The consumer copies the options, before its first round and every few   *)
(* rounds from then on.                                                    *)
UpdateOptions ==
  /\ consPc \in {"start", "loop"}
  /\ optsRt' = shared
  /\ consPc' = IF MustApply THEN "apply" ELSE "loop"
  /\ raced' = (raced /\ ~shared.changed)
  /\ UNCHANGED <<shared, handlers, filter, world, touched>>

SharedAfterApply == [shared EXCEPT !.changed = FALSE]

(* Both deltas are applied; then the flag is cleared, whatever was set     *)
(* since the options were copied.                                          *)
UpdateSubProcsSettings ==
  /\ consPc = "apply"
  /\ setFixDelta(optsRt.fix)
  /\ gTrDataDyn' = optsRt.dyn
  /\ shared' = SharedAfterApply
  /\ optsRt' = [optsRt EXCEPT !.changed = FALSE]
  /\ consPc' = "loop"
  /\ UNCHANGED <<handlers, gLoadedFromFile, gLoadFromFileFailed, world, history>>

(* A frame is processed.  The translation is skipped while corners of the  *)
(* perspective are missing; otherwise it looks for the file again if it    *)
(* has neither been read nor been missing before.                          *)
ProcessFrame(skipTr) ==
  /\ consPc = "loop"
  /\ ~optsRt.doReset
  /\ IF skipTr \/ gWriteToFileFailed \/ gLoadedFromFile \/ gLoadFromFileFailed
       THEN UNCHANGED <<gTrDataFix, gLastTrDataFix, gLoadedFromFile, gLoadFromFileFailed>>
       ELSE loadTrDataFromFile
  /\ UNCHANGED <<shared, handlers, consumer, gTrDataDyn, gWriteToFileFailed,
                 file, world, history>>

(* Mutants of the next two: the file is not deleted, the flag not cleared. *)
FileAfterResetKept == file
SharedAfterResetKept == shared

FileAfterReset == NoFile

SharedAfterReset == [shared EXCEPT !.doReset = FALSE]

(* A reset of the calibration or the perspective of the same camera, which *)
(* come before the translation in the same call, asks for its reset too.   *)
EarlierStageReset ==
  /\ consPc = "loop"
  /\ shared' = [shared EXCEPT !.doReset = TRUE]
  /\ optsRt' = [optsRt EXCEPT !.doReset = TRUE]
  /\ consPc' = "reset"
  /\ UNCHANGED <<handlers, filter, world, history>>

(* The reset clears both deltas and deletes the file, so that the frame    *)
(* that follows in the same call finds none.                               *)
ResetData(skipTr) ==
  /\ consPc \in {"loop", "reset"}
  /\ optsRt.doReset
  /\ shared' = SharedAfterReset
  /\ optsRt' = [optsRt EXCEPT !.doReset = FALSE]
  /\ gTrDataFix' = 0 /\ gTrDataDyn' = 0 /\ gLastTrDataFix' = 0
  /\ gLoadedFromFile' = FALSE
  /\ gLoadFromFileFailed' =
       (gLoadFromFileFailed \/ ~(skipTr \/ gWriteToFileFailed))
  /\ file' = FileAfterReset
  /\ consPc' = IF optsRt.fix # 0 THEN "show" ELSE "loop"
  /\ touched' = (shared.changed \/ \E h \in Handlers : handlerPc[h] = "deltaSet")
  /\ UNCHANGED <<handlers, gWriteToFileFailed, world, raced>>

(* Mutant of SharedAfterShow: the clients are not told.                    *)
SharedAfterShowKept == shared

SharedAfterShow == [shared EXCEPT !.fix = gTrDataFix]

(* After a reset the fixed delta is shown to the clients, if the consumer  *)
(* knows of another one; the dynamic delta is not.                         *)
ShowFixDelta ==
  /\ consPc = "show"
  /\ shared' = SharedAfterShow
  /\ optsRt' = [optsRt EXCEPT !.fix = gTrDataFix]
  /\ consPc' = "loop"
  /\ UNCHANGED <<handlers, filter, world, history>>

(* The program stops, wherever its threads are, and is started again.      *)
Restart ==
  /\ restarts < MaxRestarts
  /\ restarts' = restarts + 1
  /\ shared' = InitialOptions
  /\ handlerPc' = [h \in Handlers |-> "idle"]
  /\ rtOptsCur' = [h \in Handlers |-> 0]
  /\ consPc' = "load"
  /\ optsRt' = InitialOptions
  /\ gTrDataFix' = 0 /\ gTrDataDyn' = 0 /\ gLastTrDataFix' = 0
  /\ gLoadedFromFile' = FALSE
  /\ gLoadFromFileFailed' = FALSE
  /\ gWriteToFileFailed' = FALSE
  /\ raced' = FALSE
  /\ touched' = FALSE
  /\ UNCHANGED <<canWrite, file>>
-----------------------------------------------------------------------------
Handler(h) ==
  \/ Connect(h) \/ NothingToSet(h)
  \/ \E delta \in Deltas : SetFixDelta(h, delta) \/ SetDynDelta(h, delta)
  \/ SetTrChanged(h) \/ SetTrDoReset(h)

Consumer ==
  \/ InitSubProcs \/ UpdateOptions \/ UpdateSubProcsSettings
  \/ \E skipTr \in BOOLEAN : ProcessFrame(skipTr) \/ ResetData(skipTr)
  \/ EarlierStageReset \/ ShowFixDelta

Next == Restart \/ Consumer \/ \E h \in Handlers : Handler(h)

Spec == Init /\ [][Next]_vars

(* The consumer's loop keeps running while there is a client, and counts   *)
(* down to the round in which it copies the options: strong fairness of    *)
(* that round, which other rounds come between.  The camera is shown, so   *)
(* that its frames are processed.                                          *)
FairSpec ==
  /\ Spec
  /\ WF_vars(Consumer)
  /\ SF_vars(UpdateOptions)
  /\ SF_vars(\E skipTr \in BOOLEAN : ResetData(skipTr))
-----------------------------------------------------------------------------
(* Every variable has its type.                                            *)
TypeOK ==
  /\ shared \in Options
  /\ handlerPc \in [Handlers -> {"idle", "connected", "deltaSet"}]
  /\ rtOptsCur \in [Handlers -> Deltas]
  /\ consPc \in {"load", "start", "loop", "apply", "reset", "show"}
  /\ optsRt \in Options
  /\ gTrDataFix \in Deltas /\ gTrDataDyn \in Deltas /\ gLastTrDataFix \in Deltas
  /\ gLoadedFromFile \in BOOLEAN
  /\ gLoadFromFileFailed \in BOOLEAN
  /\ gWriteToFileFailed \in BOOLEAN
  /\ file \in Deltas \cup {NoFile}
  /\ canWrite \in BOOLEAN
  /\ restarts \in 0 .. MaxRestarts
  /\ raced \in BOOLEAN /\ touched \in BOOLEAN

(* The next run of the program starts with the fixed delta that is applied *)
(* now, whenever this one stops, unless the file could not be written.     *)
FileMatchesFilter ==
  consPc # "load" /\ ~gWriteToFileFailed =>
    gTrDataFix = IF file = NoFile THEN 0 ELSE file

(* No option is about to be changed or applied.                            *)
Quiet ==
  /\ \A h \in Handlers : handlerPc[h] # "deltaSet"
  /\ consPc = "loop"
  /\ ~shared.changed /\ ~shared.doReset /\ ~optsRt.doReset

(* The fixed delta that clients see is the one that is applied, whatever   *)
(* the order of requests, resets and restarts, unless a request came in    *)
(* the moment between the copy of the options and the clearing of the      *)
(* flag.                                                                   *)
ShownIsApplied == Quiet /\ ~raced => shared.fix = gTrDataFix

(* A change that is flagged is taken up, and a reset that is flagged is    *)
(* carried out, whatever else is requested meanwhile.                      *)
FlagsServed ==
  /\ shared.changed ~> ~shared.changed
  /\ shared.doReset ~> ~shared.doReset

(* A reset clears the dynamic delta, and it stays cleared until a client   *)
(* changes one of the deltas.  (The shared dynamic delta is not cleared,   *)
(* so that any change brings it back.)                                     *)
DynDeltaStaysReset == ~touched => gTrDataDyn = 0
=============================================================================

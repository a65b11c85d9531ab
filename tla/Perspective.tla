------------------------------ MODULE Perspective ------------------------------
(***************************************************************************)
(* The perspective transformation of one camera's image                    *)
(* (FrameSubProcessorPerspectiveTransf) and the options that control it.   *)
(* Clients post the corners of a rectangle one by one: each request        *)
(* appends a corner to the list of ITS SNAPSHOT of the options, raises the *)
(* changed flag and writes the whole list back.  When a list is complete   *)
(* the transformation is computed from it and saved for the next run; the  *)
(* corners of a calibrated camera take the place of a missing list.        *)
(*                                                                         *)
(* A corner is a model value.  The list of the filter also holds corners   *)
(* that no client has sent: derived ones behind a complete list, and       *)
(* placeholders when the transformation was loaded or comes from the       *)
(* calibration.  The source corners stand for the transformation; the      *)
(* destination corners are computed from them.  A calibrated camera has    *)
(* its corners (a calibration is saved with its image points).             *)
(***************************************************************************)
EXTENDS OptionValues, Sequences

CONSTANT Handlers  \* the handler threads

Placeholders == [i \in 1 .. MAX |-> <<"loaded", i>>]
CalPlaceholders == [i \in 1 .. MAX |-> <<"calibrated", i>>]
CalRectCorners == [i \in 1 .. MAX |-> <<"chessboard", i>>]
DerivedCorners == [i \in 1 .. MAX |-> <<"derived", i>>]

(* The first MAX corners of a list.                                        *)
FirstCorners(list) == SubSeq(list, 1, IF Len(list) < MAX THEN Len(list) ELSE MAX)

VARIABLES
  canWrite,    \* can files be created in the calibration output path?
  shared,      \* Shared: the options of this camera
  handlerPc,   \* where each handler is
  rtOptsNew,   \* the corners in each handler's copy of the options
  posts,       \* corners posted in this run of the program
  consPc,      \* where the consumer is
  optsRt,      \* the consumer's copy of the options
  calibrated,  \* is this camera calibrated?
  gOptRectCorners, gHaveAllCorners, gLoadedFromFile, gWriteToFileFailed,
  gPtDataStc,  \* the corners that frames are transformed with
  file,        \* the contents of the data file
  raced,       \* history: was a list set that the consumer missed?
  touched      \* history: were corners set since the last reset?

handlers == <<handlerPc, rtOptsNew, posts>>
consumer == <<consPc, optsRt>>
filter == <<gOptRectCorners, gHaveAllCorners, gLoadedFromFile,
            gWriteToFileFailed, gPtDataStc, file>>
history == <<raced, touched>>
vars == <<shared, handlers, consumer, calibrated, filter, canWrite, history>>

InitialOptions == [corners |-> <<>>, changed |-> FALSE, doReset |-> FALSE, done |-> FALSE]

(* The consumer writes procPtDone alone, and its copy always agrees.       *)
InitialCopy == [corners |-> <<>>, changed |-> FALSE, doReset |-> FALSE]

Init ==
  /\ canWrite \in BOOLEAN
  /\ shared = InitialOptions
  /\ handlerPc = [h \in Handlers |-> "idle"]
  /\ rtOptsNew = [h \in Handlers |-> <<>>]
  /\ posts = 0
  /\ consPc = "load"
  /\ optsRt = InitialCopy
  /\ calibrated \in BOOLEAN
  /\ gOptRectCorners = <<>>
  /\ gHaveAllCorners = FALSE
  /\ gLoadedFromFile = FALSE
  /\ gWriteToFileFailed = FALSE
  /\ gPtDataStc = <<>>
  /\ file \in IF canWrite THEN [1 .. MAX -> Corners] \cup {CalRectCorners, NoFile}
                          ELSE {NoFile}
  /\ raced = FALSE
  /\ touched = TRUE
-----------------------------------------------------------------------------
Connect(h) ==
  /\ handlerPc[h] = "idle"
  /\ handlerPc' = [handlerPc EXCEPT ![h] = "connected"]
  /\ rtOptsNew' = [rtOptsNew EXCEPT ![h] = shared.corners]
  /\ UNCHANGED <<shared, posts, consumer, calibrated, filter, canWrite, history>>

(* The handler is done; nothing reads its copy of the corners any more.    *)
Answered(h) ==
  /\ handlerPc' = [handlerPc EXCEPT ![h] = "idle"]
  /\ rtOptsNew' = [rtOptsNew EXCEPT ![h] = <<>>]

(* The corner is missing, for both cameras or outside of the output image  *)
(* that the snapshot knows (which has no size before the first frame).     *)
CornerRefused(h) ==
  /\ handlerPc[h] = "connected"
  /\ Answered(h)
  /\ UNCHANGED <<shared, posts, consumer, calibrated, filter, canWrite, history>>

(* A corner is appended, the flag is raised, and the list is set after it. *)
PostCorner(h, corner) ==
  /\ handlerPc[h] = "connected"
  /\ posts < MaxPosts
  /\ posts' = posts + 1
  /\ rtOptsNew' = [rtOptsNew EXCEPT ![h] = Append(rtOptsNew[h], corner)]
  /\ shared' = [shared EXCEPT !.changed = TRUE]
  /\ handlerPc' = [handlerPc EXCEPT ![h] = "flagged"]
  /\ UNCHANGED <<consumer, calibrated, filter, canWrite, history>>

(* A list is missed if the flag was cleared again before it was set, or    *)
(* will be after the consumer has made its copy.                           *)
SetRectCorners(h) ==
  /\ handlerPc[h] = "flagged"
  /\ shared' = [shared EXCEPT !.corners = FirstCorners(rtOptsNew[h])]
  /\ raced' = (raced \/ ~shared.changed \/ consPc = "apply")
  /\ touched' = TRUE
  /\ Answered(h)
  /\ UNCHANGED <<posts, consumer, calibrated, filter, canWrite>>

SetPtDoReset(h) ==
  /\ handlerPc[h] = "connected"
  /\ shared' = [shared EXCEPT !.doReset = TRUE]
  /\ Answered(h)
  /\ UNCHANGED <<posts, consumer, calibrated, filter, canWrite, history>>
-----------------------------------------------------------------------------
(* The constructor of the frame processor loads the file, if there is one. *)
InitSubProcs ==
  /\ consPc = "load"
  /\ consPc' = "start"
  /\ IF file = NoFile
       THEN UNCHANGED <<gOptRectCorners, gPtDataStc, gHaveAllCorners, gLoadedFromFile>>
       ELSE /\ gOptRectCorners' = Placeholders
            /\ gPtDataStc' = file
            /\ gHaveAllCorners' = TRUE
            /\ gLoadedFromFile' = TRUE
  /\ UNCHANGED <<shared, handlers, optsRt, calibrated, gWriteToFileFailed, file,
                 canWrite, history>>

(* The consumer copies the options, before its first round and every few   *)
(* rounds from then on; it looks at the corners only if they are flagged.  *)
UpdateOptions ==
  /\ consPc \in {"start", "loop"}
  /\ optsRt' = [corners |-> IF shared.changed THEN shared.corners ELSE <<>>,
                changed |-> shared.changed,
                doReset |-> shared.doReset]
  /\ consPc' = IF shared.changed THEN "apply" ELSE "loop"
  /\ raced' = (raced /\ ~shared.changed)
  /\ UNCHANGED <<shared, handlers, calibrated, filter, canWrite, touched>>

(* The comparison of two lists of one length looks neither at their first  *)
(* corners nor stops at their ends: what lies behind them may differ, ...  *)
MayDiffer(val) == Len(val) # Len(gOptRectCorners) \/ val # <<>>

(* Mutant of MayEqual: lists of one length are taken to be the same.       *)
MayEqualInLength(val) == Len(val) = Len(gOptRectCorners)

(* ... or be the same.                                                     *)
MayEqual(val) ==
  /\ Len(val) = Len(gOptRectCorners)
  /\ \A i \in 2 .. Len(val) : val[i] = gOptRectCorners[i]

(* Mutant of FileAfterSave: the file that is there already is kept.        *)
FileAfterSaveKept(corners) == IF canWrite /\ file = NoFile THEN corners ELSE file

(* What a save leaves in the file.                                         *)
FileAfterSave(corners) == IF canWrite THEN corners ELSE file

(* The transformation is replaced, and saved until a save leaves no file.  *)
SetTransform(corners) ==
  /\ gPtDataStc' = corners
  /\ gHaveAllCorners' = TRUE
  /\ gLoadedFromFile' = FALSE
  /\ IF gWriteToFileFailed
       THEN UNCHANGED <<file, gWriteToFileFailed>>
       ELSE /\ file' = FileAfterSave(corners)
            /\ gWriteToFileFailed' = (file' = NoFile)

(* An incomplete list takes the transformation away, and its file if that  *)
(* was loaded, but not if it was written by this run.                      *)
setManualRectCorners(val) ==
  \/ /\ MayEqual(val)
     /\ UNCHANGED filter
  \/ /\ MayDiffer(val)
     /\ IF Len(val) = MAX
          THEN /\ gOptRectCorners' = val \o DerivedCorners
               /\ SetTransform(val)
          ELSE /\ gOptRectCorners' = val
               /\ gHaveAllCorners' = FALSE
               /\ gLoadedFromFile' = FALSE
               /\ file' = IF gLoadedFromFile THEN NoFile ELSE file
               /\ gPtDataStc' = IF gLoadedFromFile THEN <<>> ELSE gPtDataStc
               /\ UNCHANGED gWriteToFileFailed

SharedAfterApply == [shared EXCEPT !.changed = FALSE]

(* The copied list is applied; then the flag is cleared, whatever was set  *)
(* since the options were copied.                                          *)
UpdateSubProcsSettings ==
  /\ consPc = "apply"
  /\ setManualRectCorners(optsRt.corners)
  /\ shared' = SharedAfterApply
  /\ optsRt' = [optsRt EXCEPT !.corners = <<>>, !.changed = FALSE]
  /\ consPc' = "loop"
  /\ UNCHANGED <<handlers, calibrated, canWrite, history>>
-----------------------------------------------------------------------------
(* The calibration of the same camera succeeds with a frame.               *)
CalibrationCompletes ==
  /\ consPc = "loop"
  /\ ~calibrated
  /\ calibrated' = TRUE
  /\ UNCHANGED <<shared, handlers, consumer, filter, canWrite, history>>

(* A reset of the calibration comes before the perspective in the same     *)
(* frame, and asks for its reset too.                                      *)
CalibrationReset ==
  /\ consPc = "loop"
  /\ calibrated' = FALSE
  /\ shared' = [shared EXCEPT !.doReset = TRUE]
  /\ optsRt' = [optsRt EXCEPT !.doReset = TRUE]
  /\ consPc' = "reset"
  /\ UNCHANGED <<handlers, filter, canWrite, history>>

(* Mutant of FileAfterReset: only a file that was loaded is deleted.       *)
FileAfterResetLoaded == IF gLoadedFromFile THEN NoFile ELSE file

FileAfterReset == NoFile

(* A frame comes while a reset is asked for.  (The reset of the translation*)
(* that follows is in module Translation.)  The options are set one by one,*)
(* but no handler sets two of them.                                        *)
ResetData ==
  /\ consPc \in {"loop", "reset"}
  /\ optsRt.doReset
  /\ shared' = [shared EXCEPT !.doReset = FALSE, !.done = FALSE, !.corners = <<>>]
  /\ optsRt' = [optsRt EXCEPT !.doReset = FALSE]
  /\ gOptRectCorners' = <<>>
  /\ gHaveAllCorners' = FALSE
  /\ gLoadedFromFile' = FALSE
  /\ gPtDataStc' = <<>>
  /\ file' = FileAfterReset
  /\ consPc' = "loop"
  /\ touched' = FALSE
  /\ UNCHANGED <<handlers, calibrated, gWriteToFileFailed, canWrite, raced>>

(* The clients are told of a transformation that came or went, with the    *)
(* corners of the filter.                                                  *)
Announced(done, list) ==
  [shared EXCEPT !.done = done, !.corners = FirstCorners(list)]

(* Another frame: the corners of a calibrated camera take the place of     *)
(* missing ones.                                                           *)
ProcessFrame ==
  /\ consPc = "loop"
  /\ ~optsRt.doReset
  /\ IF calibrated /\ ~gHaveAllCorners
       THEN /\ gOptRectCorners' = CalPlaceholders
            /\ SetTransform(CalRectCorners)
            /\ shared' = Announced(TRUE, CalPlaceholders)
            /\ touched' = TRUE
       ELSE /\ shared' = IF gHaveAllCorners # shared.done
                           THEN Announced(gHaveAllCorners, gOptRectCorners)
                           ELSE shared
            /\ UNCHANGED <<filter, touched>>
  /\ UNCHANGED <<handlers, consumer, calibrated, canWrite, raced>>

(* The program stops, wherever its threads are, and is started again with  *)
(* the file that is left.                                                  *)
Restart ==
  /\ shared' = InitialOptions
  /\ handlerPc' = [h \in Handlers |-> "idle"]
  /\ rtOptsNew' = [h \in Handlers |-> <<>>]
  /\ posts' = 0
  /\ consPc' = "load"
  /\ optsRt' = InitialCopy
  /\ calibrated' \in BOOLEAN
  /\ gOptRectCorners' = <<>>
  /\ gHaveAllCorners' = FALSE
  /\ gLoadedFromFile' = FALSE
  /\ gWriteToFileFailed' = FALSE
  /\ gPtDataStc' = <<>>
  /\ raced' = FALSE
  /\ touched' = TRUE
  /\ UNCHANGED <<canWrite, file>>
-----------------------------------------------------------------------------
Handler(h) ==
  \/ Connect(h) \/ CornerRefused(h) \/ SetRectCorners(h) \/ SetPtDoReset(h)
  \/ \E corner \in Corners : PostCorner(h, corner)

Consumer ==
  \/ InitSubProcs \/ UpdateOptions \/ UpdateSubProcsSettings
  \/ CalibrationReset \/ ResetData \/ ProcessFrame

Next == Restart \/ CalibrationCompletes \/ Consumer \/ \E h \in Handlers : Handler(h)

Spec == Init /\ [][Next]_vars
-----------------------------------------------------------------------------
(* What the elements of lists are: corners that were sent or invented.     *)
Cells == Corners \cup ({"loaded", "calibrated", "derived"} \X (1 .. MAX))

(* Every variable has its type, and no list is longer than a complete one, *)
(* but for the derived corners.                                            *)
SharedOK ==
  /\ shared \in [corners : Seq(Cells), changed : BOOLEAN, doReset : BOOLEAN, done : BOOLEAN]
  /\ Len(shared.corners) <= MAX

HandlersOK ==
  /\ handlerPc \in [Handlers -> {"idle", "connected", "flagged"}]
  /\ rtOptsNew \in [Handlers -> Seq(Cells)]
  /\ posts \in 0 .. MaxPosts

ConsumerOK ==
  /\ consPc \in {"load", "start", "loop", "apply", "reset"}
  /\ optsRt \in [corners : Seq(Cells), changed : BOOLEAN, doReset : BOOLEAN]
  /\ Len(optsRt.corners) <= MAX

FilterOK ==
  /\ gOptRectCorners \in Seq(Cells)
  /\ gHaveAllCorners \in BOOLEAN
  /\ gLoadedFromFile \in BOOLEAN
  /\ gWriteToFileFailed \in BOOLEAN

TypeOK ==
  /\ SharedOK /\ HandlersOK /\ ConsumerOK /\ FilterOK
  /\ canWrite \in BOOLEAN /\ calibrated \in BOOLEAN
  /\ raced \in BOOLEAN /\ touched \in BOOLEAN

(* The next run of the program starts with the transformation that is      *)
(* applied now, whenever this one stops, unless the file could not be      *)
(* written.                                                                *)
FileMatchesTransform ==
  gHaveAllCorners /\ ~gWriteToFileFailed => file = gPtDataStc

(* No list is about to be set or applied, and a frame was processed since. *)
Quiet ==
  /\ \A h \in Handlers : handlerPc[h] # "flagged"
  /\ consPc = "loop"
  /\ ~shared.changed /\ ~optsRt.doReset
  /\ shared.done = gHaveAllCorners

(* The corners that clients see are as many as the filter uses and, but    *)
(* for the first one, the same, whatever the order of corners, resets,     *)
(* calibrations and restarts, unless a list was set after the consumer had *)
(* made the copy for which it cleared the flag.  (A list that differs from *)
(* the one in use by its first corner only may be taken to be the same.)   *)
CornersShownAreUsed ==
  Quiet /\ ~raced =>
    /\ Len(shared.corners) = Len(FirstCorners(gOptRectCorners))
    /\ \A i \in 2 .. Len(shared.corners) : shared.corners[i] = gOptRectCorners[i]

(* A reset stays: until a handler sets corners or the camera is (still)    *)
(* calibrated when the next frame comes, there is no transformation, for   *)
(* the next run neither.                                                   *)
ResetLasts ==
  ~touched => ~gHaveAllCorners /\ file = NoFile /\ shared.corners = <<>>
=============================================================================

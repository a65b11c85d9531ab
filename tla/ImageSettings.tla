----------------------------- MODULE ImageSettings -----------------------------
(***************************************************************************)
(* The settings that hold for the images of both cameras: brightness,      *)
(* contrast and gamma (FrameSubProcessorBrightnAndContrast), and the size  *)
(* of the region of interest (FrameSubProcessorRoi).  A request raises the *)
(* changed flag of its group of settings BEFORE it sets the value.  The    *)
(* consumer copies the options, applies the settings of a flagged group    *)
(* one after the other, each with a save of its own, and clears the flag.  *)
(*                                                                         *)
(* The two groups share nothing, so a behaviour is about one of them.  A   *)
(* value is an element of Values, and 0 is the initial one (brightness 0   *)
(* or 100 percent).  The filters are configured on.  The calibration output*)
(* path does not change: if it cannot be written to, it never can.         *)
(***************************************************************************)
EXTENDS OptionValues

CONSTANT Handlers  \* the handler threads

Groups == {"bnc", "roi"}

(* The settings of a group that the consumer applies, and that the data    *)
(* file holds.  With the second algorithm, which is the one compiled in,   *)
(* gamma is none (the file has a gamma, which is always 0).                *)
Saved(g) == IF g = "bnc" THEN {"brightness", "contrast"} ELSE {"roiSizePerc"}

(* The settings that clients can set.                                      *)
Settings(g) == IF g = "bnc" THEN {"brightness", "contrast", "gamma"} ELSE {"roiSizePerc"}

VARIABLES
  group,      \* the group of settings this behaviour is about
  canWrite,   \* can files be created in the calibration output path?
  shown,      \* Shared: the values of the settings
  changed,    \* Shared: procBncChanged or procRoiChanged
  handlerPc,  \* where each handler is
  request,    \* the setting each handler's request is about, with its value
  consPc,     \* where the consumer is
  optsRt,     \* the consumer's copy of the settings it applies
  toApply,    \* those of the copy that are still to be applied
  data,       \* gBncDataStc, gRoiDataStc: what frames are processed with
  gWriteToFileFailed,
  file,       \* the contents of the data file
  raced       \* history: was a value set that the consumer missed?

handlers == <<handlerPc, request>>
consumer == <<consPc, optsRt, toApply>>
filter == <<data, gWriteToFileFailed, file>>
vars == <<shown, changed, handlers, consumer, filter, group, canWrite, raced>>

Zeros(names) == [s \in names |-> 0]

NoRequest == [setting |-> "none", val |-> 0]

Init ==
  /\ group \in Groups
  /\ canWrite \in BOOLEAN
  /\ shown = Zeros(Settings(group))
  /\ changed = FALSE
  /\ handlerPc = [h \in Handlers |-> "idle"]
  /\ request = [h \in Handlers |-> NoRequest]
  /\ consPc = "load"
  /\ optsRt = Zeros(Saved(group))
  /\ toApply = {}
  /\ data = Zeros(Saved(group))
  /\ gWriteToFileFailed = FALSE
  /\ file \in IF canWrite THEN [Saved(group) -> Values] \cup {NoFile} ELSE {NoFile}
  /\ raced = FALSE
-----------------------------------------------------------------------------
(* A connection is accepted, and the options are copied; the request that  *)
(* follows is about one setting, the only one of the snapshot it looks at. *)
Connect(h) ==
  /\ handlerPc[h] = "idle"
  /\ handlerPc' = [handlerPc EXCEPT ![h] = "connected"]
  /\ \E s \in Settings(group) :
       request' = [request EXCEPT ![h] = [setting |-> s, val |-> shown[s]]]
  /\ UNCHANGED <<shown, changed, consumer, filter, group, canWrite, raced>>

(* The value asked for is out of range, or the one of the snapshot.        *)
NothingToSet(h) ==
  /\ handlerPc[h] = "connected"
  /\ handlerPc' = [handlerPc EXCEPT ![h] = "idle"]
  /\ request' = [request EXCEPT ![h] = NoRequest]
  /\ UNCHANGED <<shown, changed, consumer, filter, group, canWrite, raced>>

(* The flag is raised first, and the value is set after it (SetValue).     *)
RaiseChanged(h, val) ==
  /\ handlerPc[h] = "connected"
  /\ val # request[h].val
  /\ changed' = TRUE
  /\ handlerPc' = [handlerPc EXCEPT ![h] = "flagged"]
  /\ request' = [request EXCEPT ![h].val = val]
  /\ UNCHANGED <<shown, consumer, filter, group, canWrite, raced>>

(* A value is missed if the flag was cleared again before it was set, or   *)
(* will be after the consumer has made its copy.                           *)
SetValue(h) ==
  /\ handlerPc[h] = "flagged"
  /\ shown' = [shown EXCEPT ![request[h].setting] = request[h].val]
  /\ raced' = (raced \/ ~changed \/ consPc = "apply")
  /\ handlerPc' = [handlerPc EXCEPT ![h] = "idle"]
  /\ request' = [request EXCEPT ![h] = NoRequest]
  /\ UNCHANGED <<changed, consumer, filter, group, canWrite>>
-----------------------------------------------------------------------------
(* Mutant of ShownAfterLoad: the clients are not told what was loaded.     *)
ShownAfterLoadKept(loaded) == shown

ShownAfterLoad(loaded) ==
  [s \in Settings(group) |-> IF s \in Saved(group) THEN loaded[s] ELSE 0]

(* The constructor of the frame processor loads the file, if there is one, *)
(* and shows its values to the clients.  (The header of a file written by  *)
(* this configuration matches it.)                                         *)
InitSubProcs ==
  /\ consPc = "load"
  /\ data' = IF file = NoFile THEN data ELSE file
  /\ shown' = ShownAfterLoad(data')
  /\ consPc' = "start"
  /\ UNCHANGED <<changed, handlers, optsRt, toApply, gWriteToFileFailed, file,
                 group, canWrite, raced>>

(* The consumer copies the options, before its first round and every few   *)
(* rounds from then on.                                                    *)
UpdateOptions ==
  /\ consPc \in {"start", "loop"}
  /\ IF changed
       THEN /\ optsRt' = [s \in Saved(group) |-> shown[s]]
            /\ toApply' = Saved(group)
            /\ consPc' = "apply"
       ELSE /\ consPc' = "loop"
            /\ UNCHANGED <<optsRt, toApply>>
  /\ raced' = (raced /\ ~changed)
  /\ UNCHANGED <<shown, changed, handlers, filter, group, canWrite>>

(* Mutant of MustSave: the contrast is not looked at.                      *)
MustSaveFirst(s, val) == s # "contrast" /\ val # data[s] /\ ~gWriteToFileFailed

(* A value that differs from the one before is saved, until a save leaves  *)
(* no file behind; the setters of brightness and contrast and setData of   *)
(* the region of interest agree in that.  (gLastBncDataStc and gBncDataStc *)
(* agree between calls; setData compares with the percent it replaces.)    *)
MustSave(s, val) == val # data[s] /\ ~gWriteToFileFailed

(* What a save leaves in the file.                                         *)
FileAfterSave(saved) == IF canWrite THEN saved ELSE file

(* setBrightness and, after it, setContrast, or setData of the region of   *)
(* interest.                                                               *)
ApplySetting(s) ==
  /\ consPc = "apply"
  /\ s \in toApply
  /\ s = "contrast" => "brightness" \notin toApply
  /\ data' = [data EXCEPT ![s] = optsRt[s]]
  /\ IF MustSave(s, optsRt[s])
       THEN /\ file' = FileAfterSave(data')
            /\ gWriteToFileFailed' = (file' = NoFile)
       ELSE UNCHANGED <<file, gWriteToFileFailed>>
  /\ toApply' = toApply \ {s}
  /\ UNCHANGED <<shown, changed, handlers, consPc, optsRt, group,
                 canWrite, raced>>

(* Mutant of ChangedAfterApply: the flag stays up.                         *)
ChangedAfterApplyKept == changed

ChangedAfterApply == FALSE

(* The flag is cleared, whatever was set since the options were copied;    *)
(* the copy is not looked at again.                                        *)
ClearChanged ==
  /\ consPc = "apply"
  /\ toApply = {}
  /\ changed' = ChangedAfterApply
  /\ optsRt' = Zeros(Saved(group))
  /\ consPc' = "loop"
  /\ UNCHANGED <<shown, handlers, toApply, filter, group, canWrite, raced>>

(* The program stops, wherever its threads are, and is started again with  *)
(* the file that is left.                                                  *)
Restart ==
  /\ shown' = Zeros(Settings(group))
  /\ changed' = FALSE
  /\ handlerPc' = [h \in Handlers |-> "idle"]
  /\ request' = [h \in Handlers |-> NoRequest]
  /\ consPc' = "load"
  /\ optsRt' = Zeros(Saved(group))
  /\ toApply' = {}
  /\ data' = Zeros(Saved(group))
  /\ gWriteToFileFailed' = FALSE
  /\ raced' = FALSE
  /\ UNCHANGED <<group, canWrite, file>>
-----------------------------------------------------------------------------
Handler(h) ==
  \/ Connect(h) \/ NothingToSet(h) \/ SetValue(h)
  \/ \E val \in Values : RaiseChanged(h, val)

Consumer ==
  \/ InitSubProcs \/ UpdateOptions \/ ClearChanged
  \/ \E s \in Saved(group) : ApplySetting(s)

Next == Restart \/ Consumer \/ \E h \in Handlers : Handler(h)

Spec == Init /\ [][Next]_vars

(* The consumer's loop keeps running while there is a client.              *)
FairSpec == Spec /\ WF_vars(Consumer)
-----------------------------------------------------------------------------
(* Every variable has its type.                                            *)
TypeOK ==
  /\ group \in Groups
  /\ canWrite \in BOOLEAN
  /\ shown \in [Settings(group) -> Values]
  /\ changed \in BOOLEAN
  /\ handlerPc \in [Handlers -> {"idle", "connected", "flagged"}]
  /\ request \in [Handlers -> [setting : Settings(group) \cup {"none"}, val : Values]]
  /\ consPc \in {"load", "start", "loop", "apply"}
  /\ optsRt \in [Saved(group) -> Values]
  /\ toApply \subseteq Saved(group)
  /\ data \in [Saved(group) -> Values]
  /\ gWriteToFileFailed \in BOOLEAN
  /\ file \in [Saved(group) -> Values] \cup {NoFile}
  /\ raced \in BOOLEAN

(* The next run of the program starts with the settings that are applied   *)
(* now, also if this one stops between the saves of two settings, unless   *)
(* the file could not be written.                                          *)
FilesMatchFilters ==
  consPc # "load" /\ ~gWriteToFileFailed =>
    data = IF file = NoFile THEN Zeros(Saved(group)) ELSE file

(* No setting is about to be changed or applied.                           *)
Quiet ==
  /\ \A h \in Handlers : handlerPc[h] # "flagged"
  /\ consPc = "loop"
  /\ ~changed

(* The settings that clients see are the ones that are applied, whatever   *)
(* the order of requests and restarts, unless a value was set after the    *)
(* consumer had made the copy for which it cleared the flag.  (Gamma is    *)
(* shown and never applied.)                                               *)
SettingsShownAreApplied ==
  Quiet /\ ~raced => \A s \in Saved(group) : shown[s] = data[s]

(* A change that is flagged is taken up.                                   *)
ChangeServed == changed ~> ~changed
=============================================================================

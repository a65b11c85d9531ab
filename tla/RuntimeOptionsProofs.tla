------------------------- MODULE RuntimeOptionsProofs --------------------------
(***************************************************************************)
(* Theorems about the runtime options that share a module: the selection   *)
(* of cameras, the settings of the image, and how a parameter is read, for *)
(* any number of handlers, any values and any length of a query.  The      *)
(* perspective is in PerspectiveProofs.                                    *)
(***************************************************************************)
EXTENDS RuntimeOptions, TLAPS

-----------------------------------------------------------------------------
(* The selection of cameras.                                               *)

(* The configuration does not change.                                      *)
LEMMA AvailableFixed == [Next]_vars => available' = available
BY DEF Next, Producer, Handler, OpenStreamsBegins, OpenStreamsFails,
       OpenStreamsEnds, Connect, Enable, Disable, Swap, OtherRequest, Answer, vars

(* Every request writes a mode.                                            *)
LEMMA RequestsWriteModes ==
  ASSUME NEW cur \in Modes, NEW req \in Modes
  PROVE  /\ Both \in Modes
         /\ MayDisable(cur, req) => cur \ req \in Modes
         /\ MaySwap(cur) => Sides \ cur \in Modes
BY DEF Modes, Both, Sides, MayDisable, MaySwap

(* Type correctness: at least one camera is always shown.                  *)
THEOREM CamsTypeCorrect == Spec => []TypeOK
<1>1. Init => TypeOK
  BY DEF Init, TypeOK, Modes
<1>2. TypeOK /\ [Next]_vars => TypeOK'
  <2>. SUFFICES ASSUME TypeOK, [Next]_vars PROVE TypeOK'
    OBVIOUS
  <2>. USE DEF TypeOK
  <2>1. CASE OpenStreamsBegins
    BY <2>1 DEF OpenStreamsBegins, handlers
  <2>2. CASE OpenStreamsFails
    BY <2>2 DEF OpenStreamsFails, handlers
  <2>3. CASE OpenStreamsEnds
    BY <2>3 DEF OpenStreamsEnds, OutputCamsAfterOpen, handlers, Modes
  <2>4. ASSUME NEW h \in Handlers, Connect(h) PROVE TypeOK'
    BY <2>4 DEF Connect, producer
  <2>5. ASSUME NEW h \in Handlers, NEW req \in Modes, Enable(h, req) PROVE TypeOK'
    <3>1. outputCams' \in Modes
      BY <2>5, RequestsWriteModes DEF Enable
    <3>2. QED
      BY <2>5, <3>1 DEF Enable, Answer, producer
  <2>6. ASSUME NEW h \in Handlers, NEW req \in Modes, Disable(h, req) PROVE TypeOK'
    <3>1. rtOptsCur[h] \in Modes
      BY <2>6
    <3>2. outputCams' \in Modes
      BY <2>6, <3>1, RequestsWriteModes DEF Disable
    <3>3. QED
      BY <2>6, <3>2 DEF Disable, Answer, producer
  <2>7. ASSUME NEW h \in Handlers, Swap(h) PROVE TypeOK'
    <3>1. rtOptsCur[h] \in Modes
      BY <2>7
    <3>2. outputCams' \in Modes
      BY <2>7, <3>1, RequestsWriteModes DEF Swap
    <3>3. QED
      BY <2>7, <3>2 DEF Swap, Answer, producer
  <2>8. ASSUME NEW h \in Handlers, OtherRequest(h) PROVE TypeOK'
    BY <2>8 DEF OtherRequest, Answer, producer
  <2>9. CASE UNCHANGED vars
    BY <2>9 DEF vars, handlers, producer
  <2>10. QED
    BY <2>1, <2>2, <2>3, <2>4, <2>5, <2>6, <2>7, <2>8, <2>9 DEF Next, Producer, Handler
<1>3. QED
  BY <1>1, <1>2, PTL DEF Spec

(* A handler that decides with a sound snapshot writes a sound option:     *)
(* this is what makes a stale snapshot harmless as long as it is sound.    *)
LEMMA RequestsKeepAvailable ==
  ASSUME NEW cur \in Modes, NEW req \in Modes, cur \subseteq available,
         available \subseteq Sides
  PROVE  /\ MayEnable(cur, req) => Both \subseteq available
         /\ MayDisable(cur, req) => cur \ req \subseteq available
         /\ MaySwap(cur) => Sides \ cur \subseteq available
BY DEF Modes, Both, Sides, MayEnable, MayDisable, MaySwap

(* A step that selects a camera without a source is the request of a       *)
(* handler whose snapshot has one already, or the option had one before.   *)
LEMMA StepKeepsAvailable ==
  ASSUME TypeOK, [Next]_vars, outputCams \subseteq available,
         ~(outputCams' \subseteq available)
  PROVE  \E h \in Handlers :
           /\ handlerPc[h] = "connected" /\ handlerPc'[h] = "idle"
           /\ ~(rtOptsCur[h] \subseteq available)
<1>1. CASE OpenStreamsBegins \/ OpenStreamsFails \/ UNCHANGED vars
  BY <1>1 DEF OpenStreamsBegins, OpenStreamsFails, vars
<1>2. CASE OpenStreamsEnds
  BY <1>2 DEF OpenStreamsEnds, OutputCamsAfterOpen, Sides, TypeOK
<1>3. ASSUME NEW h \in Handlers, Connect(h) \/ OtherRequest(h) PROVE FALSE
  BY <1>3 DEF Connect, OtherRequest
<1>4. ASSUME NEW h \in Handlers, NEW req \in Modes, Enable(h, req) \/ Disable(h, req)
      PROVE  ~(rtOptsCur[h] \subseteq available)
  <2>1. rtOptsCur[h] \in Modes /\ available \subseteq Sides
    BY DEF TypeOK
  <2>2. QED
    BY <1>4, <2>1, RequestsKeepAvailable DEF Enable, Disable
<1>5. ASSUME NEW h \in Handlers, Swap(h) PROVE ~(rtOptsCur[h] \subseteq available)
  <2>1. rtOptsCur[h] \in Modes /\ Both \in Modes /\ available \subseteq Sides
    BY DEF TypeOK, Modes
  <2>2. QED
    BY <1>5, <2>1, RequestsKeepAvailable DEF Swap
<1>6. ASSUME NEW h \in Handlers, Answer(h)
      PROVE  handlerPc[h] = "connected" /\ handlerPc'[h] = "idle"
  BY <1>6 DEF Answer, TypeOK
<1>7. CASE \E h \in Handlers : Handler(h)
  <2>1. PICK h \in Handlers : Handler(h)
    BY <1>7
  <2>2. CASE \E req \in Modes : Enable(h, req) \/ Disable(h, req)
    <3>1. ~(rtOptsCur[h] \subseteq available)
      BY <2>2, <1>4
    <3>2. handlerPc[h] = "connected" /\ handlerPc'[h] = "idle"
      BY <2>2, <1>6 DEF Enable, Disable
    <3>3. QED
      BY <3>1, <3>2
  <2>3. CASE Swap(h)
    <3>1. ~(rtOptsCur[h] \subseteq available)
      BY <2>3, <1>5
    <3>2. handlerPc[h] = "connected" /\ handlerPc'[h] = "idle"
      BY <2>3, <1>6 DEF Swap
    <3>3. QED
      BY <3>1, <3>2
  <2>4. QED
    BY <2>1, <2>2, <2>3, <1>3 DEF Handler
<1>8. QED
  BY <1>1, <1>2, <1>7 DEF Next, Producer

(* Only a handler with an unsound snapshot selects a camera that has no    *)
(* source, in every behaviour and however old the snapshots are.           *)
LEMMA CamsSnapshotsSound == Spec => SoundSnapshotsStaySound
<1>1. TypeOK /\ [Next]_vars =>
        [ outputCams \subseteq available /\ ~(outputCams' \subseteq available)
            => \E h \in Handlers :
                 /\ handlerPc[h] = "connected" /\ handlerPc'[h] = "idle"
                 /\ ~(rtOptsCur[h] \subseteq available) ]_vars
  BY StepKeepsAvailable
<1>2. QED
  BY <1>1, CamsTypeCorrect, PTL DEF Spec, SoundSnapshotsStaySound

(* With a left camera, every snapshot is sound too.                        *)
AllSound ==
  "L" \in available =>
    outputCams \subseteq available /\ \A h \in Handlers : rtOptsCur[h] \subseteq available

(* With a left camera the system starts sound, every snapshot is taken of  *)
(* a sound option, and so no request can make the option unsound.          *)
LEMMA CamsLeftCameraSound == Spec => []LeftCameraSuffices
<1>1. Init => AllSound
  BY DEF Init, AllSound
<1>2. TypeOK /\ AllSound /\ [Next]_vars => AllSound'
  <2>. SUFFICES ASSUME TypeOK, AllSound, [Next]_vars, "L" \in available
                PROVE  /\ outputCams' \subseteq available
                       /\ \A h \in Handlers : rtOptsCur'[h] \subseteq available
    BY AvailableFixed DEF AllSound
  <2>1. /\ outputCams \subseteq available
        /\ \A h \in Handlers : rtOptsCur[h] \subseteq available
    BY DEF AllSound
  <2>2. outputCams' \subseteq available
    BY <2>1, StepKeepsAvailable
  <2>3. rtOptsCur' = rtOptsCur
          \/ \E h \in Handlers : rtOptsCur' = [rtOptsCur EXCEPT ![h] = outputCams]
    BY DEF Next, Producer, Handler, OpenStreamsBegins, OpenStreamsFails,
           OpenStreamsEnds, Connect, Enable, Disable, Swap, OtherRequest, Answer,
           handlers, vars
  <2>4. \A h \in Handlers : rtOptsCur'[h] \subseteq available
    BY <2>1, <2>3 DEF TypeOK
  <2>5. QED
    BY <2>2, <2>4
<1>3. AllSound => LeftCameraSuffices
  BY DEF AllSound, LeftCameraSuffices
<1>4. QED
  BY <1>1, <1>2, <1>3, CamsTypeCorrect, PTL DEF Spec

(* A behaviour whose requests are about the cameras is one of OutputCams.  *)
THEOREM CamsImplemented == OptionsSpec => (topic = "cams" => Spec)
<1>1. OptionsInit => Init
  BY DEF OptionsInit
<1>2. topic = "cams" /\ [OptionsNext]_optionsVars
        => [Next]_vars /\ (topic = "cams")'
  BY DEF OptionsNext, CamsNext, ImageNext, PtNext, QueryNext, optionsVars,
         camsVars, vars, handlers
<1>3. QED
  BY <1>1, <1>2, PTL DEF OptionsSpec, Spec

(* In the others the cameras stay as they are.                             *)
CamsIdle == topic # "cams" /\ outputCams = {"L"} /\ available = Both

LEMMA CamsStayIdle == OptionsSpec => (~(topic = "cams") => []CamsIdle)
<1>1. OptionsInit /\ ~(topic = "cams") => CamsIdle
  BY DEF OptionsInit, Init, CamsIdle
<1>2. CamsIdle /\ [OptionsNext]_optionsVars => CamsIdle'
  BY DEF CamsIdle, OptionsNext, CamsNext, ImageNext, PtNext, QueryNext,
         optionsVars, camsVars
<1>3. QED
  BY <1>1, <1>2, PTL DEF OptionsSpec

(* Only a handler with an unsound snapshot selects a camera that has no    *)
(* source, in every behaviour and however old the snapshots are.           *)
THEOREM SnapshotsSound == OptionsSpec => SoundSnapshotsStaySound
<1>1. CamsIdle /\ CamsIdle' =>
        [ outputCams \subseteq available /\ ~(outputCams' \subseteq available)
            => \E h \in Handlers :
                 /\ handlerPc[h] = "connected" /\ handlerPc'[h] = "idle"
                 /\ ~(rtOptsCur[h] \subseteq available) ]_vars
  BY DEF CamsIdle
<1>2. []CamsIdle => SoundSnapshotsStaySound
  BY <1>1, PTL DEF SoundSnapshotsStaySound
<1>3. QED
  BY <1>2, CamsImplemented, CamsStayIdle, CamsSnapshotsSound, PTL

(* With a left camera the system starts sound, every snapshot is taken of  *)
(* a sound option, and so no request can make the option unsound.          *)
THEOREM LeftCameraSound == OptionsSpec => []LeftCameraSuffices
<1>1. CamsIdle => LeftCameraSuffices
  BY DEF CamsIdle, LeftCameraSuffices, Both, Sides
<1>2. QED
  BY <1>1, CamsImplemented, CamsStayIdle, CamsLeftCameraSound, PTL
-----------------------------------------------------------------------------
(* The settings of the image.                                              *)

LEMMA SavedAreSettings == \A g : Image!Saved(g) \subseteq Image!Settings(g)
BY DEF Image!Saved, Image!Settings

LEMMA ZerosAreValues == \A names : Image!Zeros(names) \in [names -> Values]
BY OptionValuesAssumption DEF Image!Zeros

(* The configuration does not change.                                      *)
LEMMA ConfigurationFixed == [Image!Next]_Image!vars => UNCHANGED <<group, canWrite>>
BY DEF Image!Next, Image!Restart, Image!Consumer, Image!InitSubProcs,
       Image!UpdateOptions, Image!ApplySetting, Image!ClearChanged,
       Image!Handler, Image!Connect, Image!NothingToSet, Image!RaiseChanged,
       Image!SetValue, Image!vars

(* Type correctness.                                                       *)
THEOREM ImageTypeCorrect == Image!Spec => []Image!TypeOK
<1>. USE OptionValuesAssumption
<1>1. Image!Init => Image!TypeOK
  <2>. SUFFICES ASSUME Image!Init PROVE Image!TypeOK
    OBVIOUS
  <2>1. imageFile \in [Image!Saved(group) -> Values] \cup {NoFile}
    BY DEF Image!Init
  <2>2. imageRequest \in [Handlers -> [setting : Image!Settings(group) \cup {"none"},
                                       val : Values]]
    BY DEF Image!Init, Image!NoRequest
  <2>3. QED
    BY <2>1, <2>2, ZerosAreValues DEF Image!Init, Image!TypeOK
<1>2. Image!TypeOK /\ [Image!Next]_Image!vars => Image!TypeOK'
  <2>. SUFFICES ASSUME Image!TypeOK, [Image!Next]_Image!vars
                PROVE  Image!TypeOK'
    OBVIOUS
  <2>0. UNCHANGED <<group, canWrite>>
    BY ConfigurationFixed
  <2>. USE <2>0 DEF Image!TypeOK
  <2>1. CASE Image!Restart
    BY <2>1, ZerosAreValues DEF Image!Restart, Image!NoRequest
  <2>2. CASE Image!InitSubProcs
    <3>1. data' \in [Image!Saved(group) -> Values]
      BY <2>2 DEF Image!InitSubProcs
    <3>2. shown' \in [Image!Settings(group) -> Values]
      BY <2>2, <3>1 DEF Image!InitSubProcs, Image!ShownAfterLoad
    <3>3. QED
      BY <2>2, <3>1, <3>2 DEF Image!InitSubProcs, Image!handlers
  <2>3. CASE Image!UpdateOptions
    <3>1. imageOptsRt' \in [Image!Saved(group) -> Values]
      BY <2>3, SavedAreSettings DEF Image!UpdateOptions
    <3>2. QED
      BY <2>3, <3>1 DEF Image!UpdateOptions, Image!handlers, Image!filter
  <2>4. ASSUME NEW s \in Image!Saved(group), Image!ApplySetting(s)
        PROVE  Image!TypeOK'
    <3>1. data' \in [Image!Saved(group) -> Values]
      BY <2>4 DEF Image!ApplySetting
    <3>2. /\ imageFile' \in [Image!Saved(group) -> Values] \cup {NoFile}
          /\ imageWriteFailed' \in BOOLEAN
      BY <2>4, <3>1 DEF Image!ApplySetting, Image!FileAfterSave
    <3>3. QED
      BY <2>4, <3>1, <3>2 DEF Image!ApplySetting, Image!handlers
  <2>5. CASE Image!ClearChanged
    BY <2>5, ZerosAreValues
       DEF Image!ClearChanged, Image!ChangedAfterApply, Image!handlers,
           Image!filter
  <2>6. ASSUME NEW h \in Handlers, Image!Connect(h) PROVE Image!TypeOK'
    <3>1. PICK s \in Image!Settings(group) :
            imageRequest' = [imageRequest EXCEPT ![h] = [setting |-> s, val |-> shown[s]]]
      BY <2>6 DEF Image!Connect
    <3>2. QED
      BY <2>6, <3>1 DEF Image!Connect, Image!consumer, Image!filter
  <2>7. ASSUME NEW h \in Handlers, Image!NothingToSet(h) PROVE Image!TypeOK'
    BY <2>7
       DEF Image!NothingToSet, Image!NoRequest, Image!consumer, Image!filter
  <2>8. ASSUME NEW h \in Handlers, NEW val \in Values, Image!RaiseChanged(h, val)
        PROVE  Image!TypeOK'
    BY <2>8 DEF Image!RaiseChanged, Image!consumer, Image!filter
  <2>9. ASSUME NEW h \in Handlers, Image!SetValue(h) PROVE Image!TypeOK'
    <3>1. shown' \in [Image!Settings(group) -> Values]
      BY <2>9 DEF Image!SetValue
    <3>2. QED
      BY <2>9, <3>1
         DEF Image!SetValue, Image!NoRequest, Image!consumer, Image!filter
  <2>10. CASE UNCHANGED Image!vars
    BY <2>10 DEF Image!vars, Image!handlers, Image!consumer, Image!filter
  <2>11. QED
    BY <2>1, <2>2, <2>3, <2>4, <2>5, <2>6, <2>7, <2>8, <2>9, <2>10
       DEF Image!Next, Image!Consumer, Image!Handler
<1>3. QED
  BY <1>1, <1>2, PTL DEF Image!Spec

-----------------------------------------------------------------------------
(* Before the file is loaded the filter has its initial settings, and there*)
(* is no file where none can be written.                                   *)
FilesInv ==
  /\ Image!FilesMatchFilters
  /\ imageConsPc = "load" => data = Image!Zeros(Image!Saved(group))
  /\ ~canWrite => imageFile = NoFile

(* The next run of the program starts with the settings that are applied,  *)
(* at every moment, also between the saves of two settings.                *)
LEMMA ImageFilesCorrect == Image!Spec => []Image!FilesMatchFilters
<1>1. Image!Init => FilesInv
  BY DEF Image!Init, FilesInv, Image!FilesMatchFilters
<1>2. Image!TypeOK /\ FilesInv /\ [Image!Next]_Image!vars => FilesInv'
  <2>. SUFFICES ASSUME Image!TypeOK, FilesInv, [Image!Next]_Image!vars
                PROVE  FilesInv'
    OBVIOUS
  <2>0. UNCHANGED <<group, canWrite>>
    BY ConfigurationFixed
  <2>. USE <2>0 DEF FilesInv, Image!FilesMatchFilters
  <2>1. CASE Image!Restart
    BY <2>1 DEF Image!Restart
  <2>2. CASE Image!InitSubProcs
    BY <2>2 DEF Image!InitSubProcs
  <2>3. ASSUME NEW s \in Image!Saved(group), Image!ApplySetting(s)
        PROVE  FilesInv'
    <3>1. CASE Image!MustSave(s, imageOptsRt[s])
      <4>1. /\ imageFile' = Image!FileAfterSave(data')
            /\ imageWriteFailed' = (imageFile' = NoFile)
        BY <2>3, <3>1 DEF Image!ApplySetting
      <4>2. imageConsPc' = imageConsPc /\ imageConsPc = "apply"
        BY <2>3 DEF Image!ApplySetting
      <4>3. QED
        BY <4>1, <4>2 DEF Image!FileAfterSave
    <3>2. CASE imageWriteFailed
      BY <2>3, <3>2 DEF Image!ApplySetting, Image!MustSave
    <3>3. CASE imageOptsRt[s] = data[s]
      <4>1. data' = data
        BY <2>3, <3>3 DEF Image!ApplySetting, Image!TypeOK
      <4>2. UNCHANGED <<imageFile, imageWriteFailed, imageConsPc>>
        BY <2>3, <3>3 DEF Image!ApplySetting, Image!MustSave
      <4>3. QED
        BY <4>1, <4>2
    <3>4. QED
      BY <3>1, <3>2, <3>3 DEF Image!MustSave
  <2>4. CASE Image!UpdateOptions \/ Image!ClearChanged
    BY <2>4 DEF Image!UpdateOptions, Image!ClearChanged, Image!filter
  <2>5. ASSUME NEW h \in Handlers, Image!Handler(h) PROVE FilesInv'
    BY <2>5
       DEF Image!Handler, Image!Connect, Image!NothingToSet,
           Image!RaiseChanged, Image!SetValue, Image!consumer, Image!filter
  <2>6. CASE UNCHANGED Image!vars
    BY <2>6 DEF Image!vars, Image!consumer, Image!filter
  <2>7. QED
    BY <2>1, <2>2, <2>3, <2>4, <2>5, <2>6 DEF Image!Next, Image!Consumer
<1>3. FilesInv => Image!FilesMatchFilters
  BY DEF FilesInv
<1>4. QED
  BY <1>1, <1>2, <1>3, ImageTypeCorrect, PTL DEF Image!Spec

-----------------------------------------------------------------------------
(* A setting that no value raced with is the one that clients see when the *)
(* flag is down, the one in the copy while the copy is applied, and a copy *)
(* that is not to be applied any more is in the filter.                    *)
AppliedInv ==
  \A s \in Image!Saved(group) :
    /\ imageConsPc \in {"start", "loop"} /\ ~imageRaced /\ ~changed => shown[s] = data[s]
    /\ imageConsPc = "apply" /\ ~imageRaced => shown[s] = imageOptsRt[s]
    /\ imageConsPc = "apply" => s \in toApply \/ data[s] = imageOptsRt[s]

(* What clients see is what is applied, unless a value was set after the   *)
(* copy for which the flag was cleared.                                    *)
LEMMA ImageShownCorrect == Image!Spec => []Image!SettingsShownAreApplied
<1>1. Image!Init => AppliedInv
  BY DEF Image!Init, AppliedInv
<1>2. Image!TypeOK /\ AppliedInv /\ [Image!Next]_Image!vars => AppliedInv'
  <2>. SUFFICES ASSUME Image!TypeOK, AppliedInv, [Image!Next]_Image!vars
                PROVE  AppliedInv'
    OBVIOUS
  <2>0. UNCHANGED <<group, canWrite>>
    BY ConfigurationFixed
  <2>. USE <2>0 DEF AppliedInv
  <2>1. CASE Image!Restart
    BY <2>1 DEF Image!Restart
  <2>2. CASE Image!InitSubProcs
    BY <2>2, SavedAreSettings DEF Image!InitSubProcs, Image!ShownAfterLoad
  <2>3. CASE Image!UpdateOptions
    BY <2>3 DEF Image!UpdateOptions, Image!filter
  <2>4. ASSUME NEW s \in Image!Saved(group), Image!ApplySetting(s)
        PROVE  AppliedInv'
    BY <2>4 DEF Image!ApplySetting, Image!TypeOK
  <2>5. CASE Image!ClearChanged
    BY <2>5 DEF Image!ClearChanged, Image!filter
  <2>6. ASSUME NEW h \in Handlers, Image!Connect(h) \/ Image!NothingToSet(h)
        PROVE  AppliedInv'
    BY <2>6 DEF Image!Connect, Image!NothingToSet, Image!consumer, Image!filter
  <2>7. ASSUME NEW h \in Handlers, NEW val \in Values, Image!RaiseChanged(h, val)
        PROVE  AppliedInv'
    BY <2>7 DEF Image!RaiseChanged, Image!consumer, Image!filter
  <2>8. ASSUME NEW h \in Handlers, Image!SetValue(h) PROVE AppliedInv'
    BY <2>8 DEF Image!SetValue, Image!consumer, Image!filter
  <2>9. CASE UNCHANGED Image!vars
    BY <2>9 DEF Image!vars, Image!consumer, Image!filter
  <2>10. QED
    BY <2>1, <2>2, <2>3, <2>4, <2>5, <2>6, <2>7, <2>8, <2>9
       DEF Image!Next, Image!Consumer, Image!Handler
<1>3. AppliedInv => Image!SettingsShownAreApplied
  BY DEF AppliedInv, Image!SettingsShownAreApplied, Image!Quiet
<1>4. QED
  BY <1>1, <1>2, <1>3, ImageTypeCorrect, PTL DEF Image!Spec

(* A behaviour whose requests are about the image is one of ImageSettings. *)
THEOREM ImageImplemented == OptionsSpec => (topic = "image" => Image!Spec)
<1>1. OptionsInit => Image!Init
  BY DEF OptionsInit
<1>2. topic = "image" /\ [OptionsNext]_optionsVars
        => [Image!Next]_Image!vars /\ (topic = "image")'
  BY DEF OptionsNext, CamsNext, ImageNext, PtNext, QueryNext, optionsVars,
         imageVars, Image!vars, Image!handlers, Image!consumer, Image!filter
<1>3. QED
  BY <1>1, <1>2, PTL DEF OptionsSpec, Image!Spec

(* In the others the consumer is taken to be before its first round.       *)
ImageIdle == topic # "image" /\ imageConsPc = "load"

LEMMA ImageStaysIdle == OptionsSpec => (~(topic = "image") => []ImageIdle)
<1>1. OptionsInit /\ ~(topic = "image") => ImageIdle
  BY DEF OptionsInit, Image!Init, ImageIdle
<1>2. ImageIdle /\ [OptionsNext]_optionsVars => ImageIdle'
  BY DEF ImageIdle, OptionsNext, CamsNext, ImageNext, PtNext, QueryNext,
         optionsVars, imageVars
<1>3. QED
  BY <1>1, <1>2, PTL DEF OptionsSpec

(* The next run of the program starts with the settings that are applied,  *)
(* at every moment, also between the saves of two settings.                *)
THEOREM FilesCorrect == OptionsSpec => []FilesMatchFilters
<1>1. ImageIdle => FilesMatchFilters
  BY DEF ImageIdle, FilesMatchFilters, Image!FilesMatchFilters
<1>2. Image!FilesMatchFilters => FilesMatchFilters
  BY DEF FilesMatchFilters
<1>3. QED
  BY <1>1, <1>2, ImageImplemented, ImageStaysIdle, ImageFilesCorrect, PTL

(* What clients see is what is applied, unless a value was set after the   *)
(* copy for which the flag was cleared.                                    *)
THEOREM ShownCorrect == OptionsSpec => []SettingsShownAreApplied
<1>1. ImageIdle => SettingsShownAreApplied
  BY DEF ImageIdle, SettingsShownAreApplied, Image!SettingsShownAreApplied,
         Image!Quiet
<1>2. Image!SettingsShownAreApplied => SettingsShownAreApplied
  BY DEF SettingsShownAreApplied
<1>3. QED
  BY <1>1, <1>2, ImageImplemented, ImageStaysIdle, ImageShownCorrect, PTL
-----------------------------------------------------------------------------
(* The parameters of a request.                                            *)

(* What can be asked for is a sequence, and numbers are integers.          *)
LEMMA QueriesAreSequences ==
  /\ \A q \in Queries : Len(q) \in Nat
  /\ Numbers \subseteq Int
<1>1. ASSUME NEW n \in 0 .. MaxQuery,
             NEW q \in [1 .. n -> {Key, Equals, Ampersand, 7}]
      PROVE  Len(q) \in Nat
  BY OptionsAssumption
<1>2. \A n : Len(<<Key, Equals, n>>) \in Nat
  OBVIOUS
<1>3. QED
  BY <1>1, <1>2 DEF Queries, Numbers

(* The pairs that have been read are those that begin before the current   *)
(* one.                                                                    *)
Read == {b \in Query!Begins : b < posStart}

(* The current pair is one of the query's, its end has not come yet, and   *)
(* the last character ends the last pair.                                  *)
PlacesInv ==
  /\ Len(query) \in Nat /\ kind \in Query!Kinds
  /\ posCur \in 0 .. Len(query) /\ posStart \in 0 .. posCur
  /\ posStart < Len(query) => posStart \in Query!Begins
  /\ readPc = "pairs" => \A c \in Query!Cuts : c > posStart => c > posCur
  /\ readPc \in {"value", "accepted"} \/ (readPc = "pairs" /\ posCur = Len(query))
       => posStart = Len(query)
  /\ readPc = "refused" =>
       posCur = Len(query) \/ \E b \in Query!Begins : ~Query!IsPair(Query!PairAfter(b))

(* The parameters are the keys and values of the pairs that were read.     *)
ParamsInv ==
  /\ \A b \in Read : Query!IsPair(Query!PairAfter(b))
  /\ DOMAIN params = {Query!KeyOf(Query!PairAfter(b)) : b \in Read}
  /\ \A b \in Read :
       \/ params[Query!KeyOf(Query!PairAfter(b))] = Query!ValueOf(Query!PairAfter(b))
       \/ \E c \in Read :
            c > b /\ Query!KeyOf(Query!PairAfter(c)) = Query!KeyOf(Query!PairAfter(b))

(* A value is accepted if and only if a number was found that is allowed   *)
(* in the form in which it is stored.                                      *)
Allowed(n) == params[<<Key>>] = <<n>> /\ Query!IsAllowed(Query!Stored(n))

ValueInv ==
  /\ readPc = "accepted" => \E n \in Numbers : Allowed(n) /\ valOut = Query!Stored(n)
  /\ readPc = "refused" /\ (\A b \in Query!Begins : Query!IsPair(Query!PairAfter(b)))
        /\ <<Key>> \in DOMAIN params
       => ~\E n \in Numbers : Allowed(n)

QueryInv == PlacesInv /\ ParamsInv /\ ValueInv

(* The query decides where its pairs are.                                  *)
LEMMA PairsStay ==
  ASSUME query' = query
  PROVE  /\ Query!Cuts' = Query!Cuts /\ Query!Begins' = Query!Begins
         /\ \A b : Query!PairAfter(b)' = Query!PairAfter(b)
BY DEF Query!Cuts, Query!Begins, Query!PairAfter

(* When the loop comes to the end of a pair, it is the query's pair that   *)
(* begins where the loop says.                                             *)
LEMMA CurrentPair ==
  ASSUME PlacesInv, readPc = "pairs", posCur < Len(query), Query!PairEnds
  PROVE  /\ posStart \in Query!Begins
         /\ Query!Pair = Query!PairAfter(posStart)
<1>. DEFINE later == {c \in Query!Cuts : c > posStart}
<1>1. /\ Len(query) \in Nat /\ posCur \in Nat /\ posStart \in Nat
      /\ posStart <= posCur /\ posStart \in Query!Begins
      /\ \A c \in later : c > posCur
  BY DEF PlacesInv
<1>2. CASE posCur + 1 = Len(query)
  <2>1. later = {}
    BY <1>1, <1>2 DEF Query!Cuts
  <2>2. QED
    BY <1>1, <1>2, <2>1 DEF Query!Pair, Query!PairAfter
<1>3. CASE posCur + 1 # Len(query)
  <2>1. posCur + 1 \in later /\ \A c \in later : c \in Nat /\ posCur + 1 <= c
    BY <1>1, <1>3 DEF Query!PairEnds, Query!Cuts
  <2>2. (CHOOSE c \in later : \A d \in later : c <= d) = posCur + 1
    <3>. DEFINE m == CHOOSE c \in later : \A d \in later : c <= d
    <3>1. m \in later /\ \A d \in later : m <= d
      BY <2>1
    <3>2. m <= posCur + 1 /\ posCur + 1 <= m /\ m \in Nat
      BY <2>1, <3>1
    <3>3. QED
      BY <1>1, <3>2
  <2>3. (posCur + 1) - 1 = posCur /\ later # {}
    BY <1>1, <2>1
  <2>4. QED
    BY <1>1, <1>3, <2>2, <2>3 DEF Query!Pair, Query!PairAfter
<1>4. QED
  BY <1>2, <1>3

(* One round of the loop leaves what it says about the pairs true.         *)
LEMMA NextCharacterStep ==
  ASSUME QueryInv, Query!NextCharacter
  PROVE  QueryInv'
<1>. DEFINE key == Query!KeyOf(Query!Pair)
<1>1. /\ Len(query) \in Nat /\ posCur \in Nat /\ posStart \in Nat
      /\ posStart <= posCur /\ posCur < Len(query)
      /\ posStart < Len(query) /\ posStart \in Query!Begins
      /\ readPc = "pairs" /\ posCur' = posCur + 1
      /\ UNCHANGED <<query, kind, valOut>>
  BY DEF QueryInv, PlacesInv, Query!NextCharacter
<1>2. /\ Query!Cuts' = Query!Cuts /\ Query!Begins' = Query!Begins
      /\ \A b : Query!PairAfter(b)' = Query!PairAfter(b)
  BY <1>1, PairsStay
<1>3. Query!Begins \subseteq Nat /\ Query!Cuts \subseteq Nat
      /\ \A b \in Query!Begins : b = 0 \/ b \in Query!Cuts
  BY <1>1 DEF Query!Begins, Query!Cuts
<1>4. CASE ~Query!PairEnds
  <2>1. UNCHANGED <<readPc, posStart, params>>
    BY <1>4 DEF Query!NextCharacter
  <2>2. posCur + 1 # Len(query) /\ posCur + 1 \notin Query!Cuts
    BY <1>4 DEF Query!PairEnds, Query!Cuts
  <2>3. PlacesInv'
    BY <1>1, <1>2, <1>3, <2>1, <2>2 DEF QueryInv, PlacesInv
  <2>4. ParamsInv'
    BY <1>2, <2>1 DEF QueryInv, ParamsInv, Read
  <2>5. ValueInv'
    BY <1>1, <2>1 DEF ValueInv
  <2>6. QED
    BY <2>3, <2>4, <2>5 DEF QueryInv
<1>5. CASE Query!PairEnds /\ ~Query!IsPair(Query!Pair)
  <2>1. readPc' = "refused" /\ UNCHANGED <<posStart, params>>
    BY <1>5 DEF Query!NextCharacter
  <2>2. ~Query!IsPair(Query!PairAfter(posStart))
    BY <1>1, <1>5, CurrentPair DEF QueryInv
  <2>3. PlacesInv'
    BY <1>1, <1>2, <2>1, <2>2 DEF QueryInv, PlacesInv
  <2>4. ParamsInv'
    BY <1>2, <2>1 DEF QueryInv, ParamsInv, Read
  <2>5. ValueInv'
    BY <1>1, <1>2, <2>1, <2>2 DEF ValueInv
  <2>6. QED
    BY <2>3, <2>4, <2>5 DEF QueryInv
<1>6. CASE Query!PairEnds /\ Query!IsPair(Query!Pair)
  <2>1. /\ readPc' = "pairs" /\ posStart' = posCur + 1
        /\ params' = [k \in DOMAIN params \cup {key} |->
                        IF k = key THEN Query!ValueOf(Query!Pair) ELSE params[k]]
    BY <1>1, <1>6 DEF Query!NextCharacter
  <2>2. Query!Pair = Query!PairAfter(posStart)
    BY <1>1, <1>6, CurrentPair DEF QueryInv
  <2>3. posCur + 1 = Len(query) \/ posCur + 1 \in Query!Cuts
    BY <1>1, <1>6 DEF Query!PairEnds, Query!Cuts
  <2>4. PlacesInv'
    <3>1. posStart' < Len(query) => posStart' \in Query!Begins
      BY <1>1, <2>1, <2>3 DEF Query!Begins
    <3>2. QED
      BY <1>1, <1>2, <2>1, <3>1 DEF QueryInv, PlacesInv
  <2>5. Read' = Read \cup {posStart}
    <3>1. \A c \in Query!Cuts : c > posStart => c > posCur
      BY <1>1 DEF QueryInv, PlacesInv
    <3>2. ASSUME NEW b \in Query!Begins
          PROVE  b < posCur + 1 <=> b < posStart \/ b = posStart
      BY <1>1, <1>3, <3>1
    <3>3. Read' = {b \in Query!Begins : b < posCur + 1}
      BY <1>2, <2>1 DEF Read
    <3>4. QED
      BY <1>1, <3>2, <3>3 DEF Read
  <2>6. ParamsInv'
    <3>1. \A b \in Read' : Query!IsPair(Query!PairAfter(b))
      BY <1>6, <2>2, <2>5 DEF QueryInv, ParamsInv
    <3>2. DOMAIN params' = {Query!KeyOf(Query!PairAfter(b)) : b \in Read'}
      BY <2>1, <2>2, <2>5 DEF QueryInv, ParamsInv
    <3>3. ASSUME NEW b \in Read'
          PROVE  \/ params'[Query!KeyOf(Query!PairAfter(b))]
                      = Query!ValueOf(Query!PairAfter(b))
                 \/ \E c \in Read' :
                      /\ c > b
                      /\ Query!KeyOf(Query!PairAfter(c)) = Query!KeyOf(Query!PairAfter(b))
      <4>1. CASE b = posStart
        BY <2>1, <2>2, <4>1
      <4>2. CASE b \in Read /\ Query!KeyOf(Query!PairAfter(b)) = key
        BY <2>2, <2>5, <4>2 DEF Read
      <4>3. CASE b \in Read /\ Query!KeyOf(Query!PairAfter(b)) # key
        <5>1. params'[Query!KeyOf(Query!PairAfter(b))]
                = params[Query!KeyOf(Query!PairAfter(b))]
          BY <2>1, <4>3 DEF QueryInv, ParamsInv
        <5>2. QED
          BY <2>5, <4>3, <5>1 DEF QueryInv, ParamsInv
      <4>4. QED
        BY <2>5, <4>1, <4>2, <4>3
    <3>4. QED
      BY <1>2, <3>1, <3>2, <3>3 DEF ParamsInv
  <2>7. ValueInv'
    BY <2>1 DEF ValueInv
  <2>8. QED
    BY <2>4, <2>6, <2>7 DEF QueryInv
<1>7. QED
  BY <1>4, <1>5, <1>6

(* All steps of the handler keep the invariant.                            *)
LEMMA QueryStep ==
  ASSUME QueryInv, [Query!Next]_Query!vars
  PROVE  QueryInv'
<1>1. CASE Query!AllPairsRead \/ Query!ReadValue
  <2>1. /\ UNCHANGED <<query, kind, posStart, posCur, params>>
        /\ posStart = Len(query) \/ readPc = "value"
        /\ readPc' # "pairs"
    BY <1>1 DEF Query!AllPairsRead, Query!ReadValue, QueryInv, PlacesInv
  <2>2. /\ Query!Cuts' = Query!Cuts /\ Query!Begins' = Query!Begins
        /\ \A b : Query!PairAfter(b)' = Query!PairAfter(b)
    BY <2>1, PairsStay
  <2>3. PlacesInv'
    BY <2>1, <2>2 DEF QueryInv, PlacesInv
  <2>4. ParamsInv'
    BY <2>1, <2>2 DEF QueryInv, ParamsInv, Read
  <2>5. ValueInv'
    <3>1. CASE Query!AllPairsRead
      BY <3>1 DEF Query!AllPairsRead, ValueInv
    <3>2. CASE Query!ReadValue
      BY <2>1, <3>2 DEF Query!ReadValue, Query!IsAllowed, Query!Stored, ValueInv, Allowed
    <3>3. QED
      BY <1>1, <3>1, <3>2
  <2>6. QED
    BY <2>3, <2>4, <2>5 DEF QueryInv
<1>2. CASE UNCHANGED Query!vars
  <2>1. UNCHANGED <<query, kind, readPc, posStart, posCur, params, valOut>>
    BY <1>2 DEF Query!vars
  <2>2. /\ Query!Cuts' = Query!Cuts /\ Query!Begins' = Query!Begins
        /\ \A b : Query!PairAfter(b)' = Query!PairAfter(b)
    BY <2>1, PairsStay
  <2>3. PlacesInv' /\ ParamsInv'
    BY <2>1, <2>2 DEF QueryInv, PlacesInv, ParamsInv, Read
  <2>4. ValueInv'
    BY <2>1, <2>2 DEF QueryInv, ValueInv, Allowed, Query!IsAllowed, Query!Stored
  <2>5. QED
    BY <2>3, <2>4 DEF QueryInv
<1>3. QED
  BY <1>1, <1>2, NextCharacterStep DEF Query!Next, Query!Answered

LEMMA QueryCorrect == Query!Spec => []QueryInv
<1>1. Query!Init => QueryInv
  <2>. SUFFICES ASSUME Query!Init PROVE QueryInv
    OBVIOUS
  <2>1. /\ Len(query) \in Nat /\ kind \in Query!Kinds /\ readPc = "pairs"
        /\ posStart = 0 /\ posCur = 0 /\ params = <<>>
    BY QueriesAreSequences DEF Query!Init
  <2>2. \A b \in Query!Begins : b >= 0
    BY <2>1 DEF Query!Begins, Query!Cuts
  <2>3. Len(query) # 0 => 0 \in Query!Begins
    BY DEF Query!Begins
  <2>4. PlacesInv
    BY <2>1, <2>3 DEF PlacesInv
  <2>5. Read = {}
    BY <2>1, <2>2 DEF Read, Query!Begins, Query!Cuts
  <2>6. ParamsInv
    BY <2>1, <2>5 DEF ParamsInv
  <2>7. QED
    BY <2>1, <2>4, <2>6 DEF QueryInv, ValueInv
<1>2. QueryInv /\ [Query!Next]_Query!vars => QueryInv'
  BY QueryStep
<1>3. QED
  BY <1>1, <1>2, PTL DEF Query!Spec

(* A behaviour whose topic is a query is one of HttpQuery.                 *)
THEOREM QueryImplemented == OptionsSpec => (topic = "query" => Query!Spec)
<1>1. OptionsInit => Query!Init
  BY DEF OptionsInit
<1>2. topic = "query" /\ [OptionsNext]_optionsVars
        => [Query!Next]_Query!vars /\ (topic = "query")'
  BY DEF OptionsNext, CamsNext, ImageNext, PtNext, QueryNext, optionsVars,
         queryVars, Query!vars
<1>3. QED
  BY <1>1, <1>2, PTL DEF OptionsSpec, Query!Spec

(* In the others none is read.                                             *)
QueryIdle == topic # "query" /\ readPc = "pairs"

LEMMA QueryStaysIdle == OptionsSpec => (~(topic = "query") => []QueryIdle)
<1>1. OptionsInit /\ ~(topic = "query") => QueryIdle
  BY DEF OptionsInit, Query!Init, QueryIdle
<1>2. QueryIdle /\ [OptionsNext]_optionsVars => QueryIdle'
  BY DEF QueryIdle, OptionsNext, CamsNext, ImageNext, PtNext, QueryNext,
         optionsVars, queryVars
<1>3. QED
  BY <1>1, <1>2, PTL DEF OptionsSpec

(* The parameters that are found are those of the pairs of the query,      *)
(* however long it is and wherever its separators are.                     *)
THEOREM ParamsCorrect == OptionsSpec => []QueryParamsFound
<1>1. QueryInv => QueryParamsFound
  <2>. SUFFICES ASSUME QueryInv PROVE Query!QueryParamsFound
    BY DEF QueryParamsFound
  <2>1. ASSUME readPc \in {"value", "accepted"} PROVE Read = Query!Begins
    <3>1. posStart = Len(query) /\ Len(query) \in Nat
      BY <2>1 DEF QueryInv, PlacesInv
    <3>2. \A b \in Query!Begins : b < Len(query)
      <4>1. Query!Begins # {} => query # <<>>
        BY DEF Query!Begins
      <4>2. CASE Len(query) = 0
        BY <3>1, <4>2 DEF Query!Begins, Query!Cuts
      <4>3. CASE Len(query) # 0
        BY <3>1, <4>3 DEF Query!Begins, Query!Cuts
      <4>4. QED
        BY <4>2, <4>3
    <3>3. QED
      BY <3>1, <3>2 DEF Read
  <2>2. QED
    BY <2>1 DEF QueryInv, ParamsInv, PlacesInv, Query!QueryParamsFound
<1>2. QueryIdle => QueryParamsFound
  BY DEF QueryIdle, QueryParamsFound, Query!QueryParamsFound
<1>3. QED
  BY <1>1, <1>2, QueryImplemented, QueryStaysIdle, QueryCorrect, PTL

(* A number that is stored in 16 bits is the one that was sent, if it fits.*)
LEMMA RemainderBelow ==
  ASSUME NEW n \in Nat, NEW k \in Nat, n < k
  PROVE  n % k = n
BY SMTT(30)

LEMMA StoredNumbers ==
  ASSUME NEW n \in Int, kind \in Query!Kinds,
         kind = "setting" => n \in Query!Short
  PROVE  Query!Stored(n) = n
<1>. DEFINE h == Query!Half
<1>1. h \in Nat
  BY DEF Query!Half
<1>2. CASE kind = "setting"
  <2>1. n \in -h .. h - 1
    BY <1>2 DEF Query!Short
  <2>. HIDE DEF h
  <2>2. n + h \in Nat /\ n + h < 2 * h /\ 2 * h \in Nat
    BY <1>1, <2>1
  <2>3. (n + h) % (2 * h) = n + h
    BY <2>2, RemainderBelow
  <2>4. ((n + h) % (2 * h)) - h = n
    BY <1>1, <2>3
  <2>5. Query!Stored(n) = ((n + h) % (2 * h)) - h
    BY <1>2 DEF Query!Stored, h
  <2>6. QED
    BY <2>4, <2>5
<1>3. CASE kind # "setting"
  BY <1>3 DEF Query!Stored
<1>4. QED
  BY <1>2, <1>3

LEMMA RangeFits ==
  ASSUME NEW n \in Int, kind = "setting", Query!InRange(kind, n)
  PROVE  n \in Query!Short
<1>. DEFINE h == Query!Half
<1>1. h \in Nat /\ 100 < h
  BY DEF Query!Half
<1>2. n \in -100 .. 100
  BY DEF Query!InRange, Query!Bound
<1>3. n \in -h .. h - 1
  <2>. HIDE DEF h
  <2>1. QED
    BY <1>1, <1>2
<1>4. QED
  BY <1>3 DEF Query!Short

(* What is accepted is within its range, and what is refused was not.      *)
THEOREM AcceptedCorrect == OptionsSpec => []AcceptedInRange
<1>1. QueryInv => AcceptedInRange
  <2>. SUFFICES ASSUME QueryInv PROVE Query!AcceptedInRange
    BY DEF AcceptedInRange
  <2>1. kind \in Query!Kinds /\ \A n \in Numbers : n \in Int
    BY QueriesAreSequences DEF QueryInv, PlacesInv
  <2>2. ASSUME readPc = "accepted"
        PROVE  /\ Query!InRange(kind, valOut)
               /\ \/ valOut = Query!Sent
                  \/ kind = "setting" /\ Query!Sent \notin Query!Short
    <3>1. PICK n \in Numbers : Allowed(n) /\ valOut = Query!Stored(n)
      BY <2>2 DEF QueryInv, ValueInv
    <3>2. Query!Sent = n
      BY <3>1 DEF Allowed, Query!Sent
    <3>3. Query!InRange(kind, valOut)
      BY <3>1 DEF Allowed, Query!IsAllowed
    <3>4. Query!Stored(n) = n \/ (kind = "setting" /\ n \notin Query!Short)
      <4>1. n \in Int
        BY <2>1
      <4>2. QED
        BY <2>1, <4>1, StoredNumbers
    <3>5. QED
      BY <3>1, <3>2, <3>3, <3>4
  <2>3. ASSUME readPc = "refused",
               \A b \in Query!Begins : Query!IsPair(Query!PairAfter(b)),
               <<Key>> \in DOMAIN params,
               NEW n \in Numbers, params[<<Key>>] = <<n>>,
               Query!InRange(kind, n)
        PROVE  FALSE
    <3>1. Query!Stored(n) = n
      <4>1. n \in Int
        BY <2>1
      <4>2. kind = "setting" => n \in Query!Short
        BY <2>3, <4>1, RangeFits
      <4>3. QED
        BY <2>1, <4>1, <4>2, StoredNumbers
    <3>2. Allowed(n)
      BY <2>3, <3>1 DEF Allowed, Query!IsAllowed
    <3>3. QED
      BY <2>3, <3>2 DEF QueryInv, ValueInv
  <2>4. QED
    BY <2>2, <2>3 DEF Query!AcceptedInRange
<1>2. QueryIdle => AcceptedInRange
  BY DEF QueryIdle, AcceptedInRange, Query!AcceptedInRange
<1>3. QED
  BY <1>1, <1>2, QueryImplemented, QueryStaysIdle, QueryCorrect, PTL
=============================================================================

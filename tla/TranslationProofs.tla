--------------------------- MODULE TranslationProofs ---------------------------
(***************************************************************************)
(* Theorems about the translation of a camera's image, for any deltas, any *)
(* number of handlers and any number of restarts.                          *)
(***************************************************************************)
EXTENDS Translation, TLAPS

LEMMA InitialOptionsAreOptions == InitialOptions \in Options
BY TranslationAssumption DEF InitialOptions, Options

(* Type correctness.                                                       *)
THEOREM TypeCorrect == Spec => []TypeOK
<1>. USE TranslationAssumption
<1>1. Init => TypeOK
  <2>. SUFFICES ASSUME Init PROVE TypeOK
    OBVIOUS
  <2>1. shared \in Options /\ optsRt \in Options
    BY InitialOptionsAreOptions DEF Init
  <2>2. file \in Deltas \cup {NoFile}
    BY DEF Init
  <2>3. restarts \in 0 .. MaxRestarts
    BY DEF Init
  <2>4. rtOptsCur \in [Handlers -> Deltas]
    BY DEF Init
  <2>5. QED
    BY <2>1, <2>2, <2>3, <2>4 DEF Init, TypeOK
<1>2. TypeOK /\ [Next]_vars => TypeOK'
  <2>. SUFFICES ASSUME TypeOK, [Next]_vars PROVE TypeOK'
    OBVIOUS
  <2>1. CASE Restart
    <3>1. shared' \in Options /\ optsRt' \in Options
      BY <2>1, InitialOptionsAreOptions DEF Restart
    <3>2. restarts' \in 0 .. MaxRestarts
      BY <2>1 DEF Restart, TypeOK
    <3>3. QED
      BY <2>1, <3>1, <3>2 DEF Restart, TypeOK
  <2>. USE DEF TypeOK, Options
  <2>2. CASE InitSubProcs
    BY <2>2 DEF InitSubProcs, loadTrDataFromFile, FileThere, handlers, world, history
  <2>3. CASE UpdateOptions
    BY <2>3 DEF UpdateOptions, handlers, filter, world
  <2>4. CASE UpdateSubProcsSettings
    BY <2>4 DEF UpdateSubProcsSettings, setFixDelta, FileAfterSave, SharedAfterApply,
                handlers, world, history
  <2>5. ASSUME NEW skipTr \in BOOLEAN, ProcessFrame(skipTr) PROVE TypeOK'
    BY <2>5 DEF ProcessFrame, loadTrDataFromFile, FileThere, handlers, consumer,
                world, history
  <2>6. ASSUME NEW skipTr \in BOOLEAN, ResetData(skipTr) PROVE TypeOK'
    BY <2>6 DEF ResetData, SharedAfterReset, FileAfterReset, handlers, world
  <2>7. CASE EarlierStageReset
    BY <2>7 DEF EarlierStageReset, handlers, filter, world, history
  <2>8. CASE ShowFixDelta
    BY <2>8 DEF ShowFixDelta, SharedAfterShow, handlers, filter, world, history
  <2>9. ASSUME NEW h \in Handlers, Handler(h) PROVE TypeOK'
    <3>1. raced' \in BOOLEAN /\ touched' \in BOOLEAN
      BY <2>9 DEF Handler, Connect, NothingToSet, SetFixDelta, SetDynDelta, SetTrChanged,
                  SetTrDoReset, Applying, history
    <3>2. CASE Connect(h)
      BY <3>1, <3>2 DEF Connect, consumer, filter, world
    <3>3. CASE NothingToSet(h)
      BY <3>1, <3>3 DEF NothingToSet, HandlerGoes, consumer, filter, world
    <3>4. CASE SetTrDoReset(h)
      BY <3>1, <3>4 DEF SetTrDoReset, HandlerGoes, consumer, filter, world
    <3>5. CASE SetTrChanged(h)
      BY <3>1, <3>5 DEF SetTrChanged, HandlerGoes, consumer, filter, world
    <3>6. ASSUME NEW delta \in Deltas, SetFixDelta(h, delta) \/ SetDynDelta(h, delta)
          PROVE  TypeOK'
      BY <3>1, <3>6 DEF SetFixDelta, SetDynDelta, HandlerGoes, consumer, filter, world
    <3>7. QED
      BY <2>9, <3>2, <3>3, <3>4, <3>5, <3>6 DEF Handler
  <2>10. CASE UNCHANGED vars
    BY <2>10 DEF vars, handlers, consumer, filter, world, history
  <2>11. QED
    BY <2>1, <2>2, <2>3, <2>4, <2>5, <2>6, <2>7, <2>8, <2>9, <2>10 DEF Next, Consumer
<1>3. QED
  BY <1>1, <1>2, PTL DEF Spec

-----------------------------------------------------------------------------
(* The delta that was saved last is the one that is applied; before the    *)
(* file is loaded both are 0; and there is no file where none can be       *)
(* written.                                                                *)
FileInv ==
  /\ FileMatchesFilter
  /\ gLastTrDataFix = gTrDataFix
  /\ consPc = "load" => gTrDataFix = 0
  /\ ~canWrite => file = NoFile

(* A file that is read again while frames are processed brings nothing new.*)
LEMMA LoadChangesNothing ==
  ASSUME FileInv, consPc # "load", ~gWriteToFileFailed, loadTrDataFromFile
  PROVE  gTrDataFix' = gTrDataFix /\ gLastTrDataFix' = gLastTrDataFix
BY DEF FileInv, FileMatchesFilter, loadTrDataFromFile, FileThere

LEMMA FileInvInductive ==
  ASSUME TypeOK, FileInv, [Next]_vars
  PROVE  FileInv'
<1>. USE TranslationAssumption
<1>1. CASE Restart
  BY <1>1 DEF FileInv, FileMatchesFilter, Restart
<1>2. CASE InitSubProcs
  BY <1>2 DEF FileInv, FileMatchesFilter, InitSubProcs, loadTrDataFromFile, FileThere, world
<1>3. CASE UpdateSubProcsSettings
  <2>1. CASE optsRt.fix # gLastTrDataFix /\ ~gWriteToFileFailed
    BY <1>3, <2>1 DEF UpdateSubProcsSettings, setFixDelta, FileAfterSave, world,
                      FileInv, FileMatchesFilter, TypeOK, Options
  <2>2. CASE optsRt.fix = gLastTrDataFix \/ gWriteToFileFailed
    BY <1>3, <2>2 DEF UpdateSubProcsSettings, setFixDelta, world,
                      FileInv, FileMatchesFilter, TypeOK, Options
  <2>3. QED
    BY <2>1, <2>2
<1>4. ASSUME NEW skipTr \in BOOLEAN, ProcessFrame(skipTr) PROVE FileInv'
  <2>1. gTrDataFix' = gTrDataFix /\ gLastTrDataFix' = gLastTrDataFix
    BY <1>4, LoadChangesNothing DEF ProcessFrame
  <2>2. QED
    BY <1>4, <2>1 DEF ProcessFrame, consumer, world, FileInv, FileMatchesFilter
<1>5. ASSUME NEW skipTr \in BOOLEAN, ResetData(skipTr) PROVE FileInv'
  BY <1>5 DEF ResetData, FileAfterReset, world, FileInv, FileMatchesFilter
<1>6. CASE UpdateOptions \/ EarlierStageReset \/ ShowFixDelta
  BY <1>6 DEF UpdateOptions, EarlierStageReset, ShowFixDelta, filter, world,
              FileInv, FileMatchesFilter
<1>7. ASSUME NEW h \in Handlers, Handler(h) PROVE FileInv'
  BY <1>7 DEF Handler, Connect, NothingToSet, SetFixDelta, SetDynDelta, SetTrChanged,
              SetTrDoReset, consumer, filter, world, FileInv, FileMatchesFilter
<1>8. CASE UNCHANGED vars
  BY <1>8 DEF vars, consumer, filter, world, FileInv, FileMatchesFilter
<1>9. QED
  BY <1>1, <1>2, <1>3, <1>4, <1>5, <1>6, <1>7, <1>8 DEF Next, Consumer

LEMMA FileInvAlways == Spec => [](TypeOK /\ FileInv)
<1>1. Init => FileInv
  BY DEF Init, FileInv, FileMatchesFilter
<1>2. QED
  BY <1>1, FileInvInductive, TypeCorrect, PTL DEF Spec

(* The next run of the program starts with the fixed delta that is applied *)
(* now, whenever this one stops, unless the file could not be written.     *)
THEOREM FileCorrect == Spec => []FileMatchesFilter
<1>1. FileInv => FileMatchesFilter
  BY DEF FileInv
<1>2. QED
  BY <1>1, FileInvAlways, PTL

-----------------------------------------------------------------------------
(* A change is on its way to the consumer, which will copy and apply it.   *)
Pending ==
  \/ \E h \in Handlers : handlerPc[h] = "deltaSet"
  \/ shared.changed /\ consPc # "apply"

(* Unless a change raced with the clearing of the flag or is on its way,   *)
(* the delta that clients see is in the copy and in the filter; while the  *)
(* copy is applied it is at least in the copy.                             *)
ShownInv ==
  /\ consPc = "apply" => optsRt.changed
  /\ ~raced =>
       /\ consPc = "apply" => optsRt.fix = shared.fix
       /\ consPc \in {"start", "loop", "reset"} /\ ~Pending => shared.fix = gTrDataFix
       /\ consPc \in {"loop", "reset"} /\ ~Pending => shared.fix = optsRt.fix

LEMMA ShownInvInductive ==
  ASSUME TypeOK, FileInv, ShownInv, [Next]_vars
  PROVE  ShownInv'
<1>. USE DEF ShownInv, Pending, TypeOK, Options
<1>1. CASE Restart
  BY <1>1 DEF Restart
<1>2. CASE InitSubProcs
  BY <1>2 DEF InitSubProcs
<1>3. CASE UpdateOptions
  BY <1>3 DEF UpdateOptions, MustApply, handlers, filter
<1>4. CASE UpdateSubProcsSettings
  BY <1>4 DEF UpdateSubProcsSettings, setFixDelta, SharedAfterApply, handlers, history
<1>5. ASSUME NEW skipTr \in BOOLEAN, ProcessFrame(skipTr) PROVE ShownInv'
  <2>1. gTrDataFix' = gTrDataFix
    BY <1>5, LoadChangesNothing DEF ProcessFrame
  <2>2. QED
    BY <1>5, <2>1 DEF ProcessFrame, handlers, consumer, history
<1>6. ASSUME NEW skipTr \in BOOLEAN, ResetData(skipTr) PROVE ShownInv'
  BY <1>6 DEF ResetData, SharedAfterReset, handlers
<1>7. CASE EarlierStageReset
  BY <1>7 DEF EarlierStageReset, handlers, filter, history
<1>8. CASE ShowFixDelta
  BY <1>8 DEF ShowFixDelta, SharedAfterShow, handlers, filter, history
<1>9. ASSUME NEW h \in Handlers, Connect(h) \/ NothingToSet(h) \/ SetTrDoReset(h)
      PROVE  ShownInv'
  BY <1>9 DEF Connect, NothingToSet, SetTrDoReset, HandlerGoes, consumer, filter, history
<1>10. ASSUME NEW h \in Handlers, NEW delta \in Deltas,
              SetFixDelta(h, delta) \/ SetDynDelta(h, delta)
       PROVE  ShownInv'
  <2>1. handlerPc'[h] = "deltaSet"
    BY <1>10 DEF SetFixDelta, SetDynDelta, HandlerGoes
  <2>2. QED
    BY <1>10, <2>1 DEF SetFixDelta, SetDynDelta, Applying, consumer, filter
<1>11. ASSUME NEW h \in Handlers, SetTrChanged(h) PROVE ShownInv'
  BY <1>11 DEF SetTrChanged, Applying, consumer, filter
<1>12. CASE UNCHANGED vars
  BY <1>12 DEF vars, handlers, consumer, filter, history
<1>13. QED
  BY <1>1, <1>2, <1>3, <1>4, <1>5, <1>6, <1>7, <1>8, <1>9, <1>10, <1>11, <1>12
     DEF Next, Consumer, Handler

(* The fixed delta that clients see is the one that is applied, whatever   *)
(* the order of requests, resets and restarts, unless a request raced with *)
(* the clearing of the flag.                                               *)
THEOREM ShownCorrect == Spec => []ShownIsApplied
<1>1. Init => ShownInv
  BY DEF Init, ShownInv
<1>2. ShownInv => ShownIsApplied
  BY DEF ShownInv, Pending, ShownIsApplied, Quiet
<1>3. QED
  BY <1>1, <1>2, ShownInvInductive, FileInvAlways, PTL DEF Spec

-----------------------------------------------------------------------------
(* Without a touch since the last reset no change is on its way either.    *)
ResetInv ==
  ~touched =>
    /\ gTrDataDyn = 0
    /\ ~shared.changed
    /\ consPc # "apply"
    /\ \A h \in Handlers : handlerPc[h] # "deltaSet"

(* A dynamic delta that was reset stays 0 until a client changes a delta.  *)
THEOREM DynDeltaCorrect == Spec => []DynDeltaStaysReset
<1>1. Init => ResetInv
  BY DEF Init, ResetInv, InitialOptions
<1>2. TypeOK /\ ResetInv /\ [Next]_vars => ResetInv'
  <2>. SUFFICES ASSUME TypeOK, ResetInv, [Next]_vars PROVE ResetInv'
    OBVIOUS
  <2>. USE DEF ResetInv, TypeOK, Options
  <2>1. CASE Restart
    BY <2>1 DEF Restart, InitialOptions
  <2>2. CASE InitSubProcs \/ ShowFixDelta \/ EarlierStageReset
    BY <2>2 DEF InitSubProcs, ShowFixDelta, SharedAfterShow, EarlierStageReset,
                handlers, filter, history
  <2>3. CASE UpdateOptions
    BY <2>3 DEF UpdateOptions, MustApply, handlers, filter
  <2>4. CASE UpdateSubProcsSettings
    BY <2>4 DEF UpdateSubProcsSettings, history
  <2>5. ASSUME NEW skipTr \in BOOLEAN, ProcessFrame(skipTr) PROVE ResetInv'
    BY <2>5 DEF ProcessFrame, handlers, consumer, history
  <2>6. ASSUME NEW skipTr \in BOOLEAN, ResetData(skipTr) PROVE ResetInv'
    BY <2>6 DEF ResetData, SharedAfterReset, handlers
  <2>7. ASSUME NEW h \in Handlers, Handler(h) PROVE ResetInv'
    BY <2>7 DEF Handler, Connect, NothingToSet, SetFixDelta, SetDynDelta, SetTrChanged,
                SetTrDoReset, HandlerGoes, consumer, filter, history
  <2>8. CASE UNCHANGED vars
    BY <2>8 DEF vars, handlers, consumer, filter, history
  <2>9. QED
    BY <2>1, <2>2, <2>3, <2>4, <2>5, <2>6, <2>7, <2>8 DEF Next, Consumer
<1>3. ResetInv => DynDeltaStaysReset
  BY DEF ResetInv, DynDeltaStaysReset
<1>4. QED
  BY <1>1, <1>2, <1>3, TypeCorrect, PTL DEF Spec
=============================================================================

--------------------------- MODULE PerspectiveProofs ---------------------------
(***************************************************************************)
(* Theorems about the perspective of a camera, for any number of handlers, *)
(* any corners and any length of a complete list.                          *)
(***************************************************************************)
EXTENDS RuntimeOptionsProofs, SequenceTheorems

(* The list of a filter that has all corners is as long as a complete one. *)
LEMMA InventedLists ==
  /\ \A list \in {Pt!Placeholders, Pt!CalPlaceholders, Pt!DerivedCorners} :
       list \in Seq(Pt!Cells) /\ Len(list) = MAX
<1>. USE OptionValuesAssumption
<1>1. ASSUME NEW k \in {"loaded", "calibrated", "derived"}
      PROVE  /\ [i \in 1 .. MAX |-> <<k, i>>] \in Seq(Pt!Cells)
             /\ Len([i \in 1 .. MAX |-> <<k, i>>]) = MAX
  BY DEF Pt!Cells
<1>2. QED
  BY <1>1 DEF Pt!Placeholders, Pt!CalPlaceholders, Pt!DerivedCorners

(* What clients see of a list is at most MAX corners of it.                *)
LEMMA FirstCornersOf ==
  ASSUME NEW list \in Seq(Pt!Cells)
  PROVE  /\ Pt!FirstCorners(list) \in Seq(Pt!Cells)
         /\ Len(Pt!FirstCorners(list)) = IF Len(list) < MAX THEN Len(list) ELSE MAX
         /\ \A i \in 1 .. Len(Pt!FirstCorners(list)) : Pt!FirstCorners(list)[i] = list[i]
<1>. USE OptionValuesAssumption
<1>. DEFINE n == IF Len(list) < MAX THEN Len(list) ELSE MAX
<1>1. n \in Nat /\ n <= Len(list) /\ n <= MAX
  OBVIOUS
<1>2. \A i \in 1 .. n : list[i] \in Pt!Cells
  BY <1>1, ElementOfSeq
<1>3. /\ SubSeq(list, 1, n) \in Seq(Pt!Cells)
      /\ Len(SubSeq(list, 1, n)) = IF 1 <= n THEN n - 1 + 1 ELSE 0
      /\ \A i \in 1 .. n - 1 + 1 : SubSeq(list, 1, n)[i] = list[1 + i - 1]
  <2>. HIDE DEF n
  <2>. QED
    BY <1>1, <1>2, SubSeqProperties
<1>4. QED
  BY <1>1, <1>3 DEF Pt!FirstCorners

LEMMA NoCorners == <<>> \in Seq(Pt!Cells) /\ Len(<<>>) <= MAX
BY OptionValuesAssumption

(* Every step leaves options of their type for the clients.                *)
LEMMA SharedStep ==
  ASSUME Pt!SharedOK, Pt!HandlersOK, Pt!FilterOK, [Pt!Next]_Pt!vars
  PROVE  Pt!SharedOK'
<1>. USE OptionValuesAssumption DEF Pt!SharedOK
<1>1. CASE shared' = shared
  BY <1>1
<1>2. CASE Pt!Restart
  BY <1>2 DEF Pt!Restart, Pt!InitialOptions
<1>3. CASE Pt!UpdateSubProcsSettings
  BY <1>3 DEF Pt!UpdateSubProcsSettings, Pt!SharedAfterApply
<1>4. CASE Pt!CalibrationReset
  BY <1>4 DEF Pt!CalibrationReset
<1>5. CASE Pt!ResetData
  BY <1>5, NoCorners DEF Pt!ResetData
<1>6. CASE Pt!ProcessFrame
  <2>1. ASSUME NEW list \in Seq(Pt!Cells), NEW done \in BOOLEAN,
               shared' = Pt!Announced(done, list)
        PROVE  Pt!SharedOK'
    <3>1. Pt!FirstCorners(list) \in Seq(Pt!Cells) /\ Len(Pt!FirstCorners(list)) <= MAX
      BY FirstCornersOf
    <3>2. QED
      BY <2>1, <3>1 DEF Pt!Announced
  <2>2. QED
    BY <1>1, <1>6, <2>1, InventedLists DEF Pt!ProcessFrame, Pt!FilterOK
<1>7. ASSUME NEW h \in Handlers, NEW corner \in Corners, Pt!PostCorner(h, corner)
      PROVE  Pt!SharedOK'
  BY <1>7 DEF Pt!PostCorner
<1>8. ASSUME NEW h \in Handlers, Pt!SetRectCorners(h) PROVE Pt!SharedOK'
  <2>1. /\ Pt!FirstCorners(cornersNew[h]) \in Seq(Pt!Cells)
        /\ Len(Pt!FirstCorners(cornersNew[h])) <= MAX
    BY <1>8, FirstCornersOf DEF Pt!HandlersOK
  <2>2. QED
    BY <1>8, <2>1 DEF Pt!SetRectCorners
<1>9. ASSUME NEW h \in Handlers, Pt!SetPtDoReset(h) PROVE Pt!SharedOK'
  BY <1>9 DEF Pt!SetPtDoReset
<1>10. QED
  BY <1>1, <1>2, <1>3, <1>4, <1>5, <1>6, <1>7, <1>8, <1>9
     DEF Pt!Next, Pt!Consumer, Pt!Handler, Pt!InitSubProcs, Pt!UpdateOptions,
         Pt!CalibrationCompletes, Pt!Connect, Pt!CornerRefused, Pt!vars

(* Every step leaves the handlers with lists of corners.                   *)
LEMMA HandlersStep ==
  ASSUME Pt!SharedOK, Pt!HandlersOK, [Pt!Next]_Pt!vars
  PROVE  Pt!HandlersOK'
<1>. USE OptionValuesAssumption DEF Pt!HandlersOK
<1>1. CASE UNCHANGED Pt!handlers
  BY <1>1 DEF Pt!handlers
<1>2. CASE Pt!Restart
  BY <1>2 DEF Pt!Restart
<1>3. ASSUME NEW h \in Handlers, Pt!Connect(h) PROVE Pt!HandlersOK'
  BY <1>3 DEF Pt!Connect, Pt!SharedOK
<1>4. ASSUME NEW h \in Handlers, Pt!Answered(h), posts' = posts
      PROVE  Pt!HandlersOK'
  BY <1>4 DEF Pt!Answered
<1>5. ASSUME NEW h \in Handlers, NEW corner \in Corners, Pt!PostCorner(h, corner)
      PROVE  Pt!HandlersOK'
  <2>1. Append(cornersNew[h], corner) \in Seq(Pt!Cells)
    BY <1>5 DEF Pt!Cells
  <2>2. QED
    BY <1>5, <2>1 DEF Pt!PostCorner
<1>6. QED
  BY <1>1, <1>2, <1>3, <1>4, <1>5
     DEF Pt!Next, Pt!Consumer, Pt!Handler, Pt!InitSubProcs, Pt!UpdateOptions,
         Pt!UpdateSubProcsSettings, Pt!CalibrationCompletes,
         Pt!CalibrationReset, Pt!ResetData, Pt!ProcessFrame, Pt!CornerRefused,
         Pt!SetRectCorners, Pt!SetPtDoReset, Pt!vars

(* Every step leaves the consumer with a copy of options of their type.    *)
LEMMA ConsumerStep ==
  ASSUME Pt!SharedOK, Pt!ConsumerOK, [Pt!Next]_Pt!vars
  PROVE  Pt!ConsumerOK'
<1>. USE OptionValuesAssumption DEF Pt!ConsumerOK
<1>1. CASE UNCHANGED Pt!consumer
  BY <1>1 DEF Pt!consumer
<1>2. CASE Pt!Restart
  BY <1>2 DEF Pt!Restart, Pt!InitialCopy
<1>3. CASE Pt!InitSubProcs
  BY <1>3 DEF Pt!InitSubProcs
<1>4. CASE Pt!UpdateOptions
  BY <1>4 DEF Pt!UpdateOptions, Pt!SharedOK
<1>5. CASE Pt!UpdateSubProcsSettings
  BY <1>5, NoCorners DEF Pt!UpdateSubProcsSettings
<1>6. CASE Pt!CalibrationReset
  BY <1>6 DEF Pt!CalibrationReset
<1>7. CASE Pt!ResetData
  BY <1>7 DEF Pt!ResetData
<1>8. QED
  BY <1>1, <1>2, <1>3, <1>4, <1>5, <1>6, <1>7
     DEF Pt!Next, Pt!Consumer, Pt!Handler, Pt!CalibrationCompletes,
         Pt!ProcessFrame, Pt!Connect, Pt!CornerRefused, Pt!PostCorner,
         Pt!SetRectCorners, Pt!SetPtDoReset, Pt!vars

(* Every step leaves the filter with a list of corners.                    *)
LEMMA FilterStep ==
  ASSUME Pt!ConsumerOK, Pt!FilterOK, [Pt!Next]_Pt!vars
  PROVE  Pt!FilterOK'
<1>. USE OptionValuesAssumption DEF Pt!FilterOK
<1>1. CASE UNCHANGED Pt!filter
  BY <1>1 DEF Pt!filter
<1>2. CASE Pt!Restart
  BY <1>2, NoCorners DEF Pt!Restart
<1>3. CASE Pt!InitSubProcs
  BY <1>3, InventedLists DEF Pt!InitSubProcs
<1>4. ASSUME NEW corners, Pt!SetTransform(corners), gOptRectCorners' \in Seq(Pt!Cells)
      PROVE  Pt!FilterOK'
  BY <1>4 DEF Pt!SetTransform
<1>5. CASE Pt!UpdateSubProcsSettings
  <2>1. /\ ptOptsRt.corners \in Seq(Pt!Cells)
        /\ ptOptsRt.corners \o Pt!DerivedCorners \in Seq(Pt!Cells)
    BY InventedLists DEF Pt!ConsumerOK
  <2>2. QED
    BY <1>1, <1>4, <1>5, <2>1
       DEF Pt!UpdateSubProcsSettings, Pt!setManualRectCorners
<1>6. CASE Pt!ResetData
  BY <1>6, NoCorners DEF Pt!ResetData
<1>7. CASE Pt!ProcessFrame
  BY <1>1, <1>4, <1>7, InventedLists DEF Pt!ProcessFrame
<1>8. QED
  BY <1>1, <1>2, <1>3, <1>5, <1>6, <1>7
     DEF Pt!Next, Pt!Consumer, Pt!Handler, Pt!UpdateOptions,
         Pt!CalibrationCompletes, Pt!CalibrationReset, Pt!Connect,
         Pt!CornerRefused, Pt!PostCorner, Pt!SetRectCorners, Pt!SetPtDoReset,
         Pt!vars

(* Type correctness: clients never see, and no copy holds, more corners    *)
(* than a complete list has.                                               *)
THEOREM PtTypeCorrect == Pt!Spec => []Pt!TypeOK
<1>1. Pt!Init => Pt!TypeOK
  <2>. SUFFICES ASSUME Pt!Init PROVE Pt!TypeOK
    OBVIOUS
  <2>1. Pt!SharedOK /\ Pt!ConsumerOK
    BY NoCorners
       DEF Pt!Init, Pt!SharedOK, Pt!ConsumerOK, Pt!InitialOptions,
           Pt!InitialCopy
  <2>2. Pt!HandlersOK
    BY OptionValuesAssumption, NoCorners DEF Pt!Init, Pt!HandlersOK
  <2>3. Pt!FilterOK
    BY NoCorners DEF Pt!Init, Pt!FilterOK
  <2>4. QED
    BY <2>1, <2>2, <2>3 DEF Pt!Init, Pt!TypeOK
<1>2. Pt!TypeOK /\ [Pt!Next]_Pt!vars => Pt!TypeOK'
  <2>. SUFFICES ASSUME Pt!TypeOK, [Pt!Next]_Pt!vars PROVE Pt!TypeOK'
    OBVIOUS
  <2>1. canWrite' \in BOOLEAN /\ calibrated' \in BOOLEAN
    BY DEF Pt!TypeOK, Pt!Next, Pt!Consumer, Pt!Handler, Pt!Restart,
           Pt!InitSubProcs, Pt!UpdateOptions, Pt!UpdateSubProcsSettings,
           Pt!CalibrationCompletes, Pt!CalibrationReset, Pt!ResetData,
           Pt!ProcessFrame, Pt!Connect, Pt!CornerRefused, Pt!PostCorner,
           Pt!SetRectCorners, Pt!SetPtDoReset, Pt!vars
  <2>2. raced' \in BOOLEAN /\ touched' \in BOOLEAN
    BY DEF Pt!TypeOK, Pt!Next, Pt!Consumer, Pt!Handler, Pt!Restart,
           Pt!InitSubProcs, Pt!UpdateOptions, Pt!UpdateSubProcsSettings,
           Pt!CalibrationCompletes, Pt!CalibrationReset, Pt!ResetData,
           Pt!ProcessFrame, Pt!Connect, Pt!CornerRefused, Pt!PostCorner,
           Pt!SetRectCorners, Pt!SetPtDoReset, Pt!history, Pt!vars
  <2>3. QED
    BY <2>1, <2>2, SharedStep, HandlersStep, ConsumerStep, FilterStep
       DEF Pt!TypeOK
<1>3. QED
  BY <1>1, <1>2, PTL DEF Pt!Spec

-----------------------------------------------------------------------------
(* There is no file where none can be written.                             *)
FileInv ==
  /\ Pt!FileMatchesTransform
  /\ ~canWrite => file = NoFile

LEMMA SetTransformKeepsFile ==
  ASSUME FileInv, NEW corners, Pt!SetTransform(corners), canWrite' = canWrite
  PROVE  FileInv'
BY DEF FileInv, Pt!FileMatchesTransform, Pt!SetTransform, Pt!FileAfterSave

(* The next run of the program starts with the transformation that is      *)
(* applied, unless it could not be written.                                *)
LEMMA PtFileCorrect == Pt!Spec => []Pt!FileMatchesTransform
<1>1. Pt!Init => FileInv
  BY DEF Pt!Init, FileInv, Pt!FileMatchesTransform
<1>2. FileInv /\ [Pt!Next]_Pt!vars => FileInv'
  <2>. SUFFICES ASSUME FileInv, [Pt!Next]_Pt!vars PROVE FileInv'
    OBVIOUS
  <2>1. CASE Pt!Restart
    BY <2>1 DEF Pt!Restart, FileInv, Pt!FileMatchesTransform
  <2>2. CASE Pt!InitSubProcs
    BY <2>2 DEF Pt!InitSubProcs, FileInv, Pt!FileMatchesTransform
  <2>3. CASE Pt!UpdateSubProcsSettings
    <3>1. CASE UNCHANGED Pt!filter
      BY <2>3, <3>1
         DEF Pt!UpdateSubProcsSettings, Pt!filter, FileInv,
             Pt!FileMatchesTransform
    <3>2. CASE Pt!SetTransform(ptOptsRt.corners)
      BY <2>3, <3>2, SetTransformKeepsFile DEF Pt!UpdateSubProcsSettings
    <3>3. CASE ~gHaveAllCorners' /\ file' \in {file, NoFile}
      BY <2>3, <3>3
         DEF Pt!UpdateSubProcsSettings, FileInv, Pt!FileMatchesTransform
    <3>4. QED
      BY <2>3, <3>1, <3>2, <3>3
         DEF Pt!UpdateSubProcsSettings, Pt!setManualRectCorners
  <2>4. CASE Pt!ProcessFrame
    <3>1. CASE UNCHANGED Pt!filter
      BY <2>4, <3>1
         DEF Pt!ProcessFrame, Pt!filter, FileInv, Pt!FileMatchesTransform
    <3>2. CASE Pt!SetTransform(Pt!CalRectCorners)
      BY <2>4, <3>2, SetTransformKeepsFile DEF Pt!ProcessFrame
    <3>3. QED
      BY <2>4, <3>1, <3>2 DEF Pt!ProcessFrame
  <2>5. CASE Pt!ResetData
    BY <2>5
       DEF Pt!ResetData, Pt!FileAfterReset, FileInv, Pt!FileMatchesTransform
  <2>6. CASE Pt!UpdateOptions \/ Pt!CalibrationCompletes \/ Pt!CalibrationReset
    BY <2>6
       DEF Pt!UpdateOptions, Pt!CalibrationCompletes, Pt!CalibrationReset,
           Pt!filter, FileInv, Pt!FileMatchesTransform
  <2>7. ASSUME NEW h \in Handlers, Pt!Handler(h) PROVE FileInv'
    BY <2>7
       DEF Pt!Handler, Pt!Connect, Pt!CornerRefused, Pt!PostCorner,
           Pt!SetRectCorners, Pt!SetPtDoReset, Pt!filter, FileInv,
           Pt!FileMatchesTransform
  <2>8. CASE UNCHANGED Pt!vars
    BY <2>8 DEF Pt!vars, Pt!filter, FileInv, Pt!FileMatchesTransform
  <2>9. QED
    BY <2>1, <2>2, <2>3, <2>4, <2>5, <2>6, <2>7, <2>8 DEF Pt!Next, Pt!Consumer
<1>3. FileInv => Pt!FileMatchesTransform
  BY DEF FileInv
<1>4. QED
  BY <1>1, <1>2, <1>3, PTL DEF Pt!Spec

-----------------------------------------------------------------------------
(* After a reset nothing is announced, and a copy that is applied was made *)
(* before any corner was set.                                              *)
ResetInv ==
  /\ Pt!ResetLasts
  /\ ~touched => ~shared.done
  /\ ~touched /\ ptConsPc = "apply" => ptOptsRt.corners = <<>>

(* A reset lasts, over restarts too, until corners are set or the camera   *)
(* is calibrated when the next frame comes.                                *)
LEMMA PtResetCorrect == Pt!Spec => []Pt!ResetLasts
<1>1. Pt!Init => ResetInv
  BY DEF Pt!Init, ResetInv, Pt!ResetLasts
<1>2. Pt!TypeOK /\ ResetInv /\ [Pt!Next]_Pt!vars => ResetInv'
  <2>. SUFFICES ASSUME Pt!TypeOK, ResetInv, [Pt!Next]_Pt!vars PROVE ResetInv'
    OBVIOUS
  <2>0. Pt!SharedOK /\ Pt!ConsumerOK
    BY DEF Pt!TypeOK
  <2>. USE <2>0 DEF ResetInv, Pt!ResetLasts
  <2>1. CASE Pt!Restart
    BY <2>1 DEF Pt!Restart
  <2>2. CASE Pt!InitSubProcs
    BY <2>2 DEF Pt!InitSubProcs, Pt!history
  <2>3. CASE Pt!UpdateOptions
    BY <2>3 DEF Pt!UpdateOptions, Pt!filter
  <2>4. CASE Pt!UpdateSubProcsSettings
    <3>1. SUFFICES ASSUME ~touched PROVE ResetInv'
      BY <2>4 DEF Pt!UpdateSubProcsSettings, Pt!history
    <3>2. Len(ptOptsRt.corners) # MAX
      BY <2>4, <3>1, OptionValuesAssumption DEF Pt!UpdateSubProcsSettings
    <3>3. ~gHaveAllCorners' /\ file' = NoFile
      BY <2>4, <3>1, <3>2
         DEF Pt!UpdateSubProcsSettings, Pt!setManualRectCorners, Pt!filter
    <3>4. shared'.corners = <<>> /\ ~shared'.done /\ ptConsPc' = "loop"
      BY <2>4, <3>1
         DEF Pt!UpdateSubProcsSettings, Pt!SharedAfterApply, Pt!SharedOK
    <3>5. QED
      BY <3>3, <3>4
  <2>5. CASE Pt!CalibrationReset
    BY <2>5 DEF Pt!CalibrationReset, Pt!filter, Pt!history, Pt!SharedOK
  <2>6. CASE Pt!ResetData
    BY <2>6 DEF Pt!ResetData, Pt!FileAfterReset, Pt!SharedOK
  <2>7. CASE Pt!ProcessFrame
    <3>1. SUFFICES ASSUME ~touched, ~touched' PROVE ResetInv'
      BY <2>7 DEF Pt!ProcessFrame
    <3>2. UNCHANGED <<Pt!filter, touched>> /\ ptConsPc' = "loop"
      BY <2>7, <3>1 DEF Pt!ProcessFrame, Pt!consumer
    <3>3. gHaveAllCorners = shared.done
      BY <3>1, <2>0 DEF Pt!TypeOK, Pt!FilterOK, Pt!SharedOK
    <3>4. shared' = shared
      BY <2>7, <3>1, <3>2, <3>3 DEF Pt!ProcessFrame
    <3>5. QED
      BY <3>1, <3>2, <3>4 DEF Pt!filter
  <2>8. ASSUME NEW h \in Handlers, NEW corner \in Corners, Pt!PostCorner(h, corner)
        PROVE  ResetInv'
    BY <2>8 DEF Pt!PostCorner, Pt!consumer, Pt!filter, Pt!history, Pt!SharedOK
  <2>9. ASSUME NEW h \in Handlers, Pt!SetPtDoReset(h) PROVE ResetInv'
    BY <2>9
       DEF Pt!SetPtDoReset, Pt!consumer, Pt!filter, Pt!history, Pt!SharedOK
  <2>10. ASSUME NEW h \in Handlers, Pt!SetRectCorners(h) PROVE ResetInv'
    BY <2>10 DEF Pt!SetRectCorners
  <2>11. CASE UNCHANGED <<shared, Pt!consumer, Pt!filter, Pt!history>>
    BY <2>11 DEF Pt!consumer, Pt!filter, Pt!history
  <2>12. QED
    BY <2>1, <2>2, <2>3, <2>4, <2>5, <2>6, <2>7, <2>8, <2>9, <2>10, <2>11
       DEF Pt!Next, Pt!Consumer, Pt!Handler, Pt!CalibrationCompletes,
           Pt!Connect, Pt!CornerRefused, Pt!vars
<1>3. ResetInv => Pt!ResetLasts
  BY DEF ResetInv
<1>4. QED
  BY <1>1, <1>2, <1>3, PtTypeCorrect, PTL DEF Pt!Spec

-----------------------------------------------------------------------------
(* What clients see is what the filter uses, but for the first corner.     *)
Agree ==
  /\ Len(shared.corners) = Len(Pt!FirstCorners(gOptRectCorners))
  /\ \A i \in 2 .. Len(shared.corners) : shared.corners[i] = gOptRectCorners[i]

(* Unless the consumer missed a list, the lists agree when no new one is   *)
(* flagged, and the list that is applied is the one that clients see.      *)
CornersInv ==
  /\ ptConsPc # "apply" /\ ~raced /\ ~shared.changed /\ shared.done = gHaveAllCorners
       => Agree
  /\ ptConsPc = "apply" /\ ~raced => shared.corners = ptOptsRt.corners
  /\ ptConsPc = "load" => ~shared.done

(* Applying a list makes the filter use it, or finds that it does.         *)
LEMMA AppliedListAgrees ==
  ASSUME Pt!ConsumerOK, Pt!FilterOK, Pt!setManualRectCorners(ptOptsRt.corners)
  PROVE  /\ Len(ptOptsRt.corners) = Len(Pt!FirstCorners(gOptRectCorners'))
         /\ \A i \in 2 .. Len(ptOptsRt.corners) : ptOptsRt.corners[i] = gOptRectCorners'[i]
<1>. USE OptionValuesAssumption
<1>. DEFINE val == ptOptsRt.corners
<1>0. /\ val \in Seq(Pt!Cells) /\ Len(val) \in Nat /\ Len(val) <= MAX
      /\ gOptRectCorners \in Seq(Pt!Cells)
  BY DEF Pt!ConsumerOK, Pt!FilterOK
<1>1. CASE Pt!MayEqual(val) /\ UNCHANGED Pt!filter
  BY <1>0, <1>1, FirstCornersOf DEF Pt!MayEqual, Pt!filter
<1>2. CASE Len(val) = MAX /\ gOptRectCorners' = val \o Pt!DerivedCorners
  <2>. DEFINE new == val \o Pt!DerivedCorners
  <2>1. /\ new \in Seq(Pt!Cells)
        /\ Len(new) = MAX + MAX
        /\ \A i \in 1 .. MAX : new[i] = val[i]
    <3>1. Pt!DerivedCorners \in Seq(Pt!Cells) /\ Len(Pt!DerivedCorners) = MAX
      BY InventedLists
    <3>2. /\ new \in Seq(Pt!Cells)
          /\ Len(new) = Len(val) + Len(Pt!DerivedCorners)
          /\ \A i \in 1 .. Len(val) + Len(Pt!DerivedCorners) :
               new[i] = IF i <= Len(val) THEN val[i] ELSE Pt!DerivedCorners[i - Len(val)]
      <4>. HIDE DEF val
      <4>. QED
        BY <1>0, <3>1, ConcatProperties
    <3>. HIDE DEF val, new
    <3>3. QED
      BY <1>2, <3>1, <3>2
  <2>2. Len(Pt!FirstCorners(new)) = MAX
    <3>. HIDE DEF new
    <3>. QED
      BY <2>1, FirstCornersOf
  <2>3. \A i \in 2 .. Len(val) : val[i] = new[i]
    <3>. HIDE DEF new, val
    <3>. QED
      BY <1>2, <2>1
  <2>4. QED
    BY <1>2, <2>2, <2>3
<1>3. CASE gOptRectCorners' = val
  BY <1>0, <1>3, FirstCornersOf
<1>4. QED
  BY <1>1, <1>2, <1>3 DEF Pt!setManualRectCorners

(* What the filter announces is what it uses.                              *)
LEMMA AnnouncedListAgrees ==
  ASSUME Pt!SharedOK, Pt!FilterOK', NEW done, shared' = Pt!Announced(done, gOptRectCorners')
  PROVE  Agree'
<1>1. shared'.corners = Pt!FirstCorners(gOptRectCorners')
  BY DEF Pt!Announced, Pt!SharedOK
<1>2. gOptRectCorners' \in Seq(Pt!Cells)
  BY DEF Pt!FilterOK
<1>3. Len(Pt!FirstCorners(gOptRectCorners')) \in Nat
  BY <1>2, FirstCornersOf
<1>4. QED
  BY <1>1, <1>2, <1>3, FirstCornersOf DEF Agree

LEMMA EmptyListsAgree ==
  /\ shared.corners = <<>> /\ gOptRectCorners = <<>> => Agree
  /\ shared'.corners = <<>> /\ gOptRectCorners' = <<>> => Agree'
<1>1. Len(<<>>) = 0
  OBVIOUS
<1>2. Len(Pt!FirstCorners(<<>>)) = 0
  <2>1. \A list \in Seq(Pt!Cells) :
          Len(Pt!FirstCorners(list)) = IF Len(list) < MAX THEN Len(list) ELSE MAX
    BY FirstCornersOf
  <2>2. Len(Pt!FirstCorners(<<>>)) = IF Len(<<>>) < MAX THEN Len(<<>>) ELSE MAX
    BY <2>1, NoCorners
  <2>3. QED
    BY <1>1, <2>2, OptionValuesAssumption
<1>3. QED
  BY <1>1, <1>2 DEF Agree

(* Clients see the corners that are used, unless a list was set after the  *)
(* copy for which the flag was cleared.                                    *)
LEMMA PtCornersCorrect == Pt!Spec => []Pt!CornersShownAreUsed
<1>1. Pt!Init => CornersInv
  <2>. SUFFICES ASSUME Pt!Init PROVE CornersInv
    OBVIOUS
  <2>1. Agree
    BY EmptyListsAgree DEF Pt!Init, Pt!InitialOptions
  <2>2. QED
    BY <2>1 DEF Pt!Init, CornersInv, Pt!InitialOptions
<1>2. Pt!TypeOK /\ Pt!TypeOK' /\ CornersInv /\ [Pt!Next]_Pt!vars => CornersInv'
  <2>. SUFFICES ASSUME Pt!TypeOK, Pt!TypeOK', CornersInv, [Pt!Next]_Pt!vars
                PROVE  CornersInv'
    OBVIOUS
  <2>0. Pt!SharedOK /\ Pt!ConsumerOK /\ Pt!FilterOK /\ Pt!FilterOK'
    BY DEF Pt!TypeOK
  <2>. USE <2>0
  <2>1. CASE Pt!Restart
    <3>1. Agree'
      BY <2>1, EmptyListsAgree DEF Pt!Restart, Pt!InitialOptions
    <3>2. QED
      BY <2>1, <3>1 DEF Pt!Restart, Pt!InitialOptions, CornersInv
  <2>2. CASE Pt!InitSubProcs
    BY <2>2 DEF Pt!InitSubProcs, CornersInv, Agree, Pt!history
  <2>3. CASE Pt!UpdateOptions
    BY <2>3 DEF Pt!UpdateOptions, CornersInv, Agree, Pt!filter
  <2>4. CASE Pt!UpdateSubProcsSettings
    <3>1. shared'.corners = shared.corners /\ ptConsPc' = "loop" /\ raced' = raced
      BY <2>4
         DEF Pt!UpdateSubProcsSettings, Pt!SharedAfterApply, Pt!history,
             Pt!SharedOK
    <3>2. ~raced => shared.corners = ptOptsRt.corners
      BY <2>4 DEF Pt!UpdateSubProcsSettings, CornersInv
    <3>3. ~raced => Agree'
      BY <2>4, <3>1, <3>2, AppliedListAgrees
         DEF Pt!UpdateSubProcsSettings, Agree
    <3>4. QED
      BY <3>1, <3>3 DEF CornersInv
  <2>5. CASE Pt!CalibrationReset
    BY <2>5
       DEF Pt!CalibrationReset, Pt!filter, Pt!history, CornersInv, Agree,
           Pt!SharedOK
  <2>6. CASE Pt!ResetData
    <3>1. Agree'
      BY <2>6, EmptyListsAgree DEF Pt!ResetData, Pt!SharedOK
    <3>2. QED
      BY <2>6, <3>1 DEF Pt!ResetData, CornersInv
  <2>7. CASE Pt!ProcessFrame
    <3>1. ptConsPc' = "loop" /\ raced' = raced /\ ptConsPc = "loop"
      BY <2>7 DEF Pt!ProcessFrame, Pt!consumer
    <3>2. CASE \E done : shared' = Pt!Announced(done, gOptRectCorners')
      BY <3>1, <3>2, AnnouncedListAgrees DEF CornersInv
    <3>3. CASE UNCHANGED <<shared, Pt!filter>>
      BY <3>1, <3>3 DEF CornersInv, Agree, Pt!filter
    <3>4. QED
      BY <2>7, <3>2, <3>3 DEF Pt!ProcessFrame, Pt!filter
  <2>8. ASSUME NEW h \in Handlers, NEW corner \in Corners, Pt!PostCorner(h, corner)
        PROVE  CornersInv'
    BY <2>8
       DEF Pt!PostCorner, Pt!consumer, Pt!filter, Pt!history, Pt!SharedOK,
           CornersInv
  <2>9. ASSUME NEW h \in Handlers, Pt!SetPtDoReset(h) PROVE CornersInv'
    BY <2>9
       DEF Pt!SetPtDoReset, Pt!consumer, Pt!filter, Pt!history, Pt!SharedOK,
           CornersInv, Agree
  <2>10. ASSUME NEW h \in Handlers, Pt!SetRectCorners(h) PROVE CornersInv'
    BY <2>10
       DEF Pt!SetRectCorners, Pt!consumer, Pt!filter, Pt!SharedOK, CornersInv
  <2>11. CASE UNCHANGED <<shared, Pt!consumer, Pt!filter, Pt!history>>
    BY <2>11 DEF Pt!consumer, Pt!filter, Pt!history, CornersInv, Agree
  <2>12. QED
    BY <2>1, <2>2, <2>3, <2>4, <2>5, <2>6, <2>7, <2>8, <2>9, <2>10, <2>11
       DEF Pt!Next, Pt!Consumer, Pt!Handler, Pt!CalibrationCompletes,
           Pt!Connect, Pt!CornerRefused, Pt!vars
<1>3. CornersInv => Pt!CornersShownAreUsed
  BY DEF CornersInv, Pt!CornersShownAreUsed, Pt!Quiet, Agree
<1>4. QED
  BY <1>1, <1>2, <1>3, PtTypeCorrect, PTL DEF Pt!Spec
-----------------------------------------------------------------------------
(* A behaviour whose requests are about the perspective is one of          *)
(* Perspective.                                                            *)
THEOREM PtImplemented == OptionsSpec => (topic = "perspective" => Pt!Spec)
<1>1. OptionsInit => Pt!Init
  BY DEF OptionsInit
<1>2. topic = "perspective" /\ [OptionsNext]_optionsVars
        => [Pt!Next]_Pt!vars /\ (topic = "perspective")'
  BY DEF OptionsNext, CamsNext, ImageNext, PtNext, QueryNext, optionsVars,
         ptVars, Pt!vars, Pt!handlers, Pt!consumer, Pt!filter, Pt!history
<1>3. QED
  BY <1>1, <1>2, PTL DEF OptionsSpec, Pt!Spec

(* In the others there is no transformation yet.                           *)
PtIdle ==
  /\ topic # "perspective" /\ ptConsPc = "load"
  /\ gHaveAllCorners = FALSE /\ touched = TRUE

LEMMA PtStaysIdle == OptionsSpec => (~(topic = "perspective") => []PtIdle)
<1>1. OptionsInit /\ ~(topic = "perspective") => PtIdle
  BY DEF OptionsInit, Pt!Init, PtIdle
<1>2. PtIdle /\ [OptionsNext]_optionsVars => PtIdle'
  BY DEF PtIdle, OptionsNext, CamsNext, ImageNext, PtNext, QueryNext,
         optionsVars, ptVars
<1>3. QED
  BY <1>1, <1>2, PTL DEF OptionsSpec

(* The next run of the program starts with the transformation that is      *)
(* applied, unless it could not be written.                                *)
THEOREM FileCorrect == OptionsSpec => []FileMatchesTransform
<1>1. PtIdle => FileMatchesTransform
  BY DEF PtIdle, FileMatchesTransform, Pt!FileMatchesTransform
<1>2. Pt!FileMatchesTransform => FileMatchesTransform
  BY DEF FileMatchesTransform
<1>3. QED
  BY <1>1, <1>2, PtImplemented, PtStaysIdle, PtFileCorrect, PTL

(* Clients see the corners that are used, unless a list was set after the  *)
(* copy for which the flag was cleared.                                    *)
THEOREM CornersCorrect == OptionsSpec => []CornersShownAreUsed
<1>1. PtIdle => CornersShownAreUsed
  BY DEF PtIdle, CornersShownAreUsed, Pt!CornersShownAreUsed, Pt!Quiet
<1>2. Pt!CornersShownAreUsed => CornersShownAreUsed
  BY DEF CornersShownAreUsed
<1>3. QED
  BY <1>1, <1>2, PtImplemented, PtStaysIdle, PtCornersCorrect, PTL

(* A reset lasts, over restarts too, until corners are set or the camera   *)
(* is calibrated when the next frame comes.                                *)
THEOREM ResetCorrect == OptionsSpec => []ResetLasts
<1>1. PtIdle => ResetLasts
  BY DEF PtIdle, ResetLasts, Pt!ResetLasts
<1>2. Pt!ResetLasts => ResetLasts
  BY DEF ResetLasts
<1>3. QED
  BY <1>1, <1>2, PtImplemented, PtStaysIdle, PtResetCorrect, PTL
=============================================================================

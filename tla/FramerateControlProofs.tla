----------------------- MODULE FramerateControlProofs -------------------------
(***************************************************************************)
(* Theorems about the adaptive frame rate, for every initial rate and      *)
(* every set of drop counts.                                               *)
(***************************************************************************)
EXTENDS FramerateControl, TLAPS

(* A reduction is at least 1 and leaves a rate of at least 1.              *)
LEMMA ReductionLeavesOne ==
  ASSUME NEW dropped \in Nat, NEW fps \in Nat, fps > 1
  PROVE  /\ Reduction(dropped, fps) \in 1 .. 10
         /\ fps - Reduction(dropped, fps) \in 1 .. fps - 1
BY DEF Reduction

(* The consumer is between its test of the rate and the reduction only     *)
(* while the rate is still above 1: nobody else lowers it.                 *)
ReducesAboveOne == consPc = "reduce" => cameraFps > 1

(* One empty frame too many ends the producer.                             *)
EndsAfterEmptyFrames == prodPc # "ended" => emptyFrameCnt <= MaxEmptyFrames

Inv == TypeOK /\ ReducesAboveOne /\ EndsAfterEmptyFrames /\ ReductionPending

LEMMA InvInit == Init => Inv
<1>1. InitialFps \in 1 .. InitialFps /\ 0 \in DropCounts /\ ~(InitialFps > InitialFps)
  BY FramerateAssumption
<1>2. Init => TypeOK
  <2>1. 0 \in 0 .. MaxEmptyFrames + 1
    BY FramerateAssumption
  <2>2. QED
    BY <1>1, <2>1, Zenon DEF Init, TypeOK
<1>3. Init => ReducesAboveOne /\ EndsAfterEmptyFrames /\ ReductionPending
  BY <1>1, FramerateAssumption
     DEF Init, ReducesAboveOne, EndsAfterEmptyFrames, ReductionPending
<1>4. QED
  BY <1>2, <1>3 DEF Inv

LEMMA InvInductive == Inv /\ [Next]_vars => Inv'
<1>. SUFFICES ASSUME Inv, [Next]_vars PROVE Inv'
  OBVIOUS
<1>. USE FramerateAssumption
     DEF Inv, TypeOK, ReducesAboveOne, EndsAfterEmptyFrames, ReductionPending, Closed
<1>1. CASE \E n \in DropCounts : GrabFrames(n)
  BY <1>1 DEF GrabFrames, Working, consumer
<1>2. CASE FlushQueue
  BY <1>2 DEF FlushQueue, consumer, producer
<1>3. CASE CamerasSwitched
  BY <1>3 DEF CamerasSwitched, producer
<1>4. CASE CheckDrops
  BY <1>4 DEF CheckDrops, producer
<1>5. CASE ReduceFps
  <2>1. cameraFps \in Nat /\ cameraFps > 1 /\ gDroppedFrames \in Nat
    BY <1>5 DEF ReduceFps
  <2>2. cameraFps' \in 1 .. cameraFps - 1
    BY <1>5, <2>1, ReductionLeavesOne DEF ReduceFps
  <2>3. cameraFps' \in 1 .. InitialFps
    BY <2>1, <2>2
  <2>4. QED
    BY <1>5, <2>3 DEF ReduceFps, producer
<1>6. CASE SetFlagRestartCamStreams
  BY <1>6 DEF SetFlagRestartCamStreams, producer
<1>7. CASE ResetDroppedFramesCount
  BY <1>7 DEF ResetDroppedFramesCount, producer
<1>8. CASE GetFlagRestartCamStreams
  <2>1. /\ gThrVarRestartCamStreams' = FALSE /\ prodPc' = "reopen" /\ emptyFrameCnt' = 0
        /\ UNCHANGED <<cameraFps, gDroppedFrames, isFirstFrameDropTest, consPc,
                       haveClients, streamFps>>
    BY <1>8 DEF GetFlagRestartCamStreams, consumer
  <2>2. emptyFrameCnt' \in 0 .. MaxEmptyFrames + 1 /\ emptyFrameCnt' <= MaxEmptyFrames
    BY <2>1
  <2>3. TypeOK'
    BY <2>1, <2>2
  <2>4. QED
    BY <2>1, <2>2, <2>3
<1>9. CASE OpenStreams
  BY <1>9 DEF OpenStreams, openStreams, FpsToOpen, consumer
<1>10. CASE GrabFails
  <2>1. emptyFrameCnt' \in 0 .. MaxEmptyFrames + 1 /\ prodPc = "loop"
    <3>1. emptyFrameCnt \in 0 .. MaxEmptyFrames
      BY <1>10 DEF GrabFails, Working, EndsAfterEmptyFrames
    <3>2. QED
      BY <1>10, <3>1 DEF GrabFails, Working
  <2>2. CASE emptyFrameCnt' > MaxEmptyFrames
    BY <1>10, <2>1, <2>2 DEF GrabFails, consumer
  <2>3. CASE ~(emptyFrameCnt' > MaxEmptyFrames)
    BY <1>10, <2>1, <2>3 DEF GrabFails, openStreams, FpsToOpen, consumer
  <2>4. QED
    BY <2>2, <2>3
<1>11. CASE CheckClients
  BY <1>11 DEF CheckClients, consumer
<1>12. CASE ProducerEnds
  BY <1>12 DEF ProducerEnds, consumer
<1>13. CASE UNCHANGED vars
  BY <1>13 DEF vars, consumer, producer
<1>14. QED
  BY <1>1, <1>2, <1>3, <1>4, <1>5, <1>6, <1>7, <1>8, <1>9, <1>10, <1>11, <1>12, <1>13
  DEF Next, ConsumerFinishesTest

(* The inductive invariant holds in every reachable state.                 *)
LEMMA InvAlways == Spec => []Inv
BY InvInit, InvInductive, PTL DEF Spec

(* Type correctness: whatever the drop counter does between its readings,  *)
(* the frame rate stays between 1 and the configured rate.                 *)
THEOREM TypeCorrect == Spec => []TypeOK
<1>1. Inv => TypeOK
  BY DEF Inv
<1>2. QED
  BY <1>1, InvAlways, PTL

(* No reduction is forgotten: streams that run faster than they should are *)
(* about to be opened again, by the consumer's request or the producer.    *)
THEOREM ReductionsKept == Spec => []ReductionPending
<1>1. Inv => ReductionPending
  BY DEF Inv
<1>2. QED
  BY <1>1, InvAlways, PTL
=============================================================================

-------------------------- MODULE TcpServerProofs ---------------------------
(***************************************************************************)
(* Proofs about the registry of handlers and streams, for every number of  *)
(* connections, clients, streams and frames.                               *)
(***************************************************************************)
EXTENDS TcpServer, Integers, FiniteSetTheorems, TLAPS

(* A queue of frames stays one when a frame is put into it or taken out.   *)
LEMMA QueueOps ==
  ASSUME NEW q \in Seq(Nat), NEW n \in Nat
  PROVE  /\ JpegQueue!Enqueue(q, n) \in Seq(Nat)
         /\ q # <<>> => Head(q) \in Nat /\ Tail(q) \in Seq(Nat)
BY ServerAssumption DEF JpegQueue!Enqueue, JpegQueue!IsFull

(* First picks the element of a set that has one element: a thread owns at *)
(* most one slot, so that the search loops have nothing to choose from.    *)
LEMMA FirstOfOne ==
  ASSUME NEW x \in Nat
  PROVE  First({x}) = x
<1>1. \E y \in {x} : \A z \in {x} : y <= z
  OBVIOUS
<1>2. First({x}) \in {x}
  BY <1>1 DEF First
<1>3. QED
  BY <1>2

(* A thread that owns a slot, and no other, is found in that slot.         *)
LEMMA SlotFound ==
  ASSUME TypeOK, SlotsOwnedByStreamers, NEW t \in Threads, SlotsOf(t) # {}
  PROVE  /\ First(SlotsOf(t)) \in SlotsOf(t)
         /\ SlotsOf(t) = {First(SlotsOf(t))}
         /\ First(SlotsOf(t)) \in SlotIx
<1>1. PICK x \in SlotIx : frameQueues[x].isActive /\ frameQueues[x].cltThrIx = t
  BY DEF SlotsOf
<1>2. \A y \in SlotsOf(t) : y = x
  BY <1>1 DEF SlotsOf, SlotsOwnedByStreamers
<1>3. SlotsOf(t) = {x}
  BY <1>1, <1>2 DEF SlotsOf
<1>4. x \in Nat
  BY <1>1, ServerAssumption DEF SlotIx
<1>5. QED
  BY <1>1, <1>3, <1>4, FirstOfOne

(* Moving one thread changes Streaming and Registered by that thread only. *)
LEMMA MovedSets ==
  ASSUME TypeOK, NEW t \in Threads, NEW pc \in HandlerPcs, Goto(t, pc)
  PROVE  /\ Streaming' = IF pc \in StreamPcs THEN Streaming \cup {t}
                                             ELSE Streaming \ {t}
         /\ Registered' = IF pc \in StreamPcs \cup {"request", "remove"}
                            THEN Registered \cup {t} ELSE Registered \ {t}
<1>1. handler \in [Threads -> HandlerPcs]
  BY DEF TypeOK
<1>2. handler' = [handler EXCEPT ![t] = pc]
  BY DEF Goto
<1>3. QED
  BY <1>1, <1>2 DEF Streaming, Registered, Serving

(* Both sets are finite.                                                   *)
LEMMA FiniteSets == IsFiniteSet(Streaming) /\ IsFiniteSet(Registered)
<1>1. IsFiniteSet(Threads)
  BY FS_Interval, ServerAssumption DEF Threads
<1>2. Streaming \subseteq Threads /\ Registered \subseteq Threads
  BY DEF Streaming, Registered, Serving
<1>3. QED
  BY <1>1, <1>2, FS_Subset
-----------------------------------------------------------------------------
(* What the operations on a slot do to its fields.                         *)
LEMMA OccupiedSlotFields ==
  ASSUME NEW thrIx \in Nat
  PROVE  /\ OccupiedSlot(thrIx) \in Slot
         /\ OccupiedSlot(thrIx).isActive
         /\ OccupiedSlot(thrIx).cltThrIx = thrIx
         /\ OccupiedSlot(thrIx).pFrameQueue = <<>>
<1>1. <<>> \in Seq(Nat)
  OBVIOUS
<1>2. QED
  BY <1>1 DEF Slot, OccupiedSlot

(* A free slot has no owner.                                               *)
LEMMA FreeSlotFields == FreeSlot \in Slot /\ ~ FreeSlot.isActive
<1>1. <<>> \in Seq(Nat)
  OBVIOUS
<1>2. QED
  BY <1>1 DEF Slot, FreeSlot

(* Replacing the contents of a slot's queue changes nothing else.          *)
LEMMA SlotWithQueueFields ==
  ASSUME NEW slot \in Slot, NEW q \in Seq(Nat)
  PROVE  /\ SlotWithQueue(slot, q) \in Slot
         /\ SlotWithQueue(slot, q).isActive = slot.isActive
         /\ SlotWithQueue(slot, q).cltThrIx = slot.cltThrIx
         /\ SlotWithQueue(slot, q).pFrameQueue = q
BY DEF Slot, SlotWithQueue

(* What the registry operations do to the types of the registry.           *)
LEMMA RegistryTypes ==
  ASSUME TypeOK, NEW thrIx \in Threads
  PROVE  /\ CountAfterAdd \in 0 .. MaxClients
         /\ CountAfterRemove(thrIx) \in 0 .. MaxClients
         /\ StreamsAfterDec(thrIx) \in 0 .. MaxStreaming
         /\ SlotsAfterDec(thrIx) \in [SlotIx -> Slot]
<1>1. thrIx \in Nat
  BY ServerAssumption DEF Threads
<1>2. /\ runningHandlersCount \in 0 .. MaxClients
      /\ runningStreamsCount \in 0 .. MaxStreaming
      /\ frameQueues \in [SlotIx -> Slot]
      /\ MaxClients \in Nat /\ MaxStreaming \in Nat
  BY ServerAssumption DEF TypeOK
<1>3. SlotsAfterDec(thrIx) \in [SlotIx -> Slot]
  <2>1. FreeSlot \in Slot
    BY FreeSlotFields
  <2>2. QED
    BY <1>2, <2>1 DEF SlotsAfterDec
<1>4. QED
  BY <1>2, <1>3 DEF CountAfterAdd, MayAddHandler, CountAfterRemove,
                    StreamsAfterDec

(* A stream that finds a frame takes a number from a queue that is a       *)
(* sequence, because its slot is its own.                                  *)
LEMMA TakeTypes ==
  ASSUME TypeOK, SlotsOwnedByStreamers, NEW t \in Threads, QueueOf(t) # <<>>
  PROVE  /\ SlotsOf(t) # {}
         /\ QueueOf(t) = frameQueues[First(SlotsOf(t))].pFrameQueue
         /\ QueueOf(t) \in Seq(Nat)
         /\ FrameTaken(t) \in Nat
         /\ SlotsAfterTake(t) \in [SlotIx -> Slot]
<1>1. SlotsOf(t) # {} /\ QueueOf(t) = frameQueues[First(SlotsOf(t))].pFrameQueue
  BY DEF QueueOf
<1>2. First(SlotsOf(t)) \in SlotIx
  BY <1>1, SlotFound
<1>3. frameQueues \in [SlotIx -> Slot]
  BY DEF TypeOK
<1>4. QueueOf(t) \in Seq(Nat)
  BY <1>1, <1>2, <1>3 DEF Slot
<1>5. Head(QueueOf(t)) \in Nat /\ Tail(QueueOf(t)) \in Seq(Nat)
  BY <1>4, QueueOps
<1>6. SlotWithQueue(frameQueues[First(SlotsOf(t))], Tail(QueueOf(t))) \in Slot
  BY <1>1, <1>2, <1>3, <1>5, SlotWithQueueFields
<1>7. SlotsAfterTake(t) \in [SlotIx -> Slot]
  BY <1>2, <1>3, <1>6 DEF SlotsAfterTake
<1>8. QED
  BY <1>1, <1>4, <1>5, <1>7 DEF FrameTaken

(* Every step keeps the types.                                             *)
LEMMA TypeInductive ==
  TypeOK /\ SlotsOwnedByStreamers /\ [Next]_vars => TypeOK'
<1> SUFFICES ASSUME TypeOK, SlotsOwnedByStreamers, [Next]_vars
             PROVE  TypeOK'
  OBVIOUS
<1>1. /\ MaxClients \in Nat /\ MaxStreaming \in Nat /\ StopPoll \in Nat \ {0}
      /\ MaxThreads \in Nat /\ MaxFrames \in Nat
      /\ Threads \subseteq Nat
  BY ServerAssumption DEF Threads
<1>2. /\ runningHandlersCount \in 0 .. MaxClients
      /\ runningStreamsCount \in 0 .. MaxStreaming
      /\ frameQueues \in [SlotIx -> Slot]
      /\ gThreadCount \in 0 .. MaxThreads
      /\ handler \in [Threads -> HandlerPcs]
      /\ toNeedToStop \in [Threads -> 1 .. StopPoll]
      /\ noFrameCnt \in [Threads -> Nat]
      /\ sending \in [Threads -> Nat]
      /\ frameNr \in Nat
  BY DEF TypeOK
<1> DEFINE Moves(t, pc) == t \in Threads /\ pc \in HandlerPcs /\ Goto(t, pc)
<1>3. \A t, pc : Moves(t, pc) => handler' \in [Threads -> HandlerPcs]
  BY <1>2 DEF Goto
<1>4. CASE Main
  <2>1. CASE AcceptConnection
    <3>1. gThreadCount + 1 \in Threads
      BY <2>1, <1>1, <1>2 DEF AcceptConnection, Threads
    <3>2. handler' \in [Threads -> HandlerPcs]
      BY <2>1, <3>1, <1>3 DEF AcceptConnection, HandlerPcs
    <3>3. gThreadCount' \in 0 .. MaxThreads
      BY <2>1, <1>1, <1>2 DEF AcceptConnection
    <3>4. QED
      BY <2>1, <3>2, <3>3
         DEF TypeOK, AcceptConnection, MainAfterAccept, registry, streams, workers
  <2>2. CASE AcceptNothing \/ JoinWorkers \/ Exit
    BY <2>2 DEF TypeOK, MainAfterAccept, AcceptNothing, JoinWorkers, Exit, registry,
                streams, workers
  <2>3. QED
    BY <1>4, <2>1, <2>2 DEF Main
<1>5. CASE SetFlagNeedToStop \/ ProducerEnds
  BY <1>5 DEF TypeOK, SetFlagNeedToStop, ProducerEnds, registry, streams, workers
<1>6. CASE Consumer
  <2>1. CASE EncodeFrame \/ ConsumerEnds
    BY <2>1 DEF TypeOK, EncodeFrame, ConsumerEnds, registry, streams
  <2>2. CASE broadcastFrameToStreamingClients
    <3>1. frameNr' \in Nat /\ frameNr + 1 \in Nat
      BY <2>2, <1>1, <1>2 DEF broadcastFrameToStreamingClients
    <3>2. ASSUME NEW x \in SlotIx
          PROVE  frameQueues'[x] \in Slot
      <4>1. frameQueues[x].pFrameQueue \in Seq(Nat)
        BY <1>2 DEF Slot
      <4>2. JpegQueue!Enqueue(frameQueues[x].pFrameQueue, frameNr + 1) \in Seq(Nat)
        BY <4>1, <3>1, QueueOps
      <4>3. SlotWithQueue(frameQueues[x],
              JpegQueue!Enqueue(frameQueues[x].pFrameQueue, frameNr + 1)) \in Slot
        BY <4>2, <1>2, SlotWithQueueFields
      <4>4. QED
        BY <2>2, <4>3, <1>2 DEF broadcastFrameToStreamingClients
    <3>3. frameQueues' \in [SlotIx -> Slot]
      BY <2>2, <3>2 DEF broadcastFrameToStreamingClients
    <3>4. QED
      BY <2>2, <3>1, <3>3 DEF TypeOK, broadcastFrameToStreamingClients, streams
  <2>3. QED
    BY <1>6, <2>1, <2>2 DEF Consumer
<1>7. ASSUME NEW t \in Threads, Handler(t)
      PROVE  TypeOK'
  <2>1. CASE Register(t)
    <3>1. runningHandlersCount' \in 0 .. MaxClients
      BY <2>1, RegistryTypes DEF Register, addRunningHandler
    <3>2. DOMAIN httpClients' = ClientIx
      BY <2>1 DEF Register, addRunningHandler, TypeOK
    <3>3. handler' \in [Threads -> HandlerPcs]
      BY <2>1, <1>3 DEF Register, HandlerPcs
    <3>4. QED
      BY <2>1, <3>1, <3>2, <3>3
         DEF TypeOK, Register, addRunningHandler, streams, workers
  <2>2. CASE OtherRequest(t) \/ StreamRequestRejected(t) \/ StreamSeesStop(t)
             \/ SendFrame(t) \/ SendFails(t)
    <3>1. handler' \in [Threads -> HandlerPcs]
      BY <2>2, <1>3 DEF OtherRequest, StreamRequestRejected, StreamSeesStop, SendFrame,
                        SendFails, HandlerPcs
    <3>2. QED
      BY <2>2, <3>1 DEF TypeOK, OtherRequest, StreamRequestRejected, StreamSeesStop,
                        SendFrame, SendFails, registry, streams, workers
  <2>3. CASE StreamRequest(t)
    <3>1. handler' \in [Threads -> HandlerPcs]
      BY <2>3, <1>3 DEF StreamRequest, HandlerPcs
    <3>2. runningStreamsCount' \in 0 .. MaxStreaming
      BY <2>3, <1>1, <1>2 DEF StreamRequest, incStreamingClientCount, MayAddStream
    <3>3. frameQueues' \in [SlotIx -> Slot]
      <4>1. OccupiedSlot(t) \in Slot
        BY <1>1, <1>2, <2>3, OccupiedSlotFields
      <4>2. QED
        BY <2>3, <4>1, <1>2 DEF StreamRequest, incStreamingClientCount
    <3>4. QED
      BY <2>3, <3>1, <3>2, <3>3
         DEF TypeOK, StreamRequest, incStreamingClientCount, streams, workers
  <2>4. CASE PollFrame(t) \/ PollNothing(t) \/ FrameLost(t)
    <3>1. handler' \in [Threads -> HandlerPcs]
      BY <2>4, <1>3 DEF PollFrame, PollNothing, FrameLost, CountMiss, HandlerPcs
    <3>2. CountdownAfterPoll(t) \in 1 .. StopPoll /\ MissesAfterPoll(t) \in Nat
      BY <1>1, <1>2 DEF CountdownAfterPoll, MissesAfterPoll
    <3>3. /\ toNeedToStop' \in [Threads -> 1 .. StopPoll]
          /\ noFrameCnt' \in [Threads -> Nat]
      <4>1. toNeedToStop' = [toNeedToStop EXCEPT ![t] = CountdownAfterPoll(t)]
        BY <2>4 DEF PollFrame, PollNothing, FrameLost, CountMiss
      <4>2. \E n \in Nat : noFrameCnt' = [noFrameCnt EXCEPT ![t] = n]
        BY <2>4, <3>2 DEF PollFrame, PollNothing, FrameLost, CountMiss
      <4>3. QED
        BY <4>1, <4>2, <1>2, <3>2
    <3>4. CASE PollFrame(t)
      <4>1. FrameTaken(t) \in Nat /\ SlotsAfterTake(t) \in [SlotIx -> Slot]
        BY <3>4, TakeTypes DEF PollFrame
      <4>11. sending' \in [Threads -> Nat] /\ frameQueues' \in [SlotIx -> Slot]
        BY <3>4, <1>2, <4>1 DEF PollFrame
      <4>2. QED
        BY <3>4, <3>1, <3>3, <4>11 DEF TypeOK, PollFrame, workers
    <3>5. CASE PollNothing(t)
      BY <3>5, <3>1, <3>3 DEF TypeOK, PollNothing, registry, workers
    <3>6. CASE FrameLost(t)
      <4>1. frameQueues' \in [SlotIx -> Slot]
        BY <3>6, TakeTypes DEF FrameLost
      <4>2. QED
        BY <3>6, <3>1, <3>3, <4>1 DEF TypeOK, FrameLost, workers
    <3>7. QED
      BY <2>4, <3>4, <3>5, <3>6
  <2>5. CASE StreamEnds(t)
    <3>1. handler' \in [Threads -> HandlerPcs]
      BY <2>5, <1>3 DEF StreamEnds, HandlerPcs
    <3>2. /\ runningStreamsCount' \in 0 .. MaxStreaming
          /\ frameQueues' \in [SlotIx -> Slot]
      BY <2>5, RegistryTypes DEF StreamEnds, decStreamingClientCount
    <3>3. /\ toNeedToStop' \in [Threads -> 1 .. StopPoll]
          /\ noFrameCnt' \in [Threads -> Nat]
          /\ sending' \in [Threads -> Nat]
      BY <2>5, <1>1, <1>2 DEF StreamEnds
    <3>4. QED
      BY <2>5, <3>1, <3>2, <3>3
         DEF TypeOK, StreamEnds, decStreamingClientCount, workers
  <2>6. CASE Unregister(t)
    <3>1. handler' \in [Threads -> HandlerPcs]
      BY <2>6, <1>3 DEF Unregister, HandlerPcs
    <3>2. runningHandlersCount' \in 0 .. MaxClients
      BY <2>6, RegistryTypes DEF Unregister, removeRunningHandler
    <3>3. DOMAIN httpClients' = ClientIx
      BY <2>6 DEF Unregister, removeRunningHandler, TypeOK
    <3>4. QED
      BY <2>6, <3>1, <3>2, <3>3
         DEF TypeOK, Unregister, removeRunningHandler, streams, workers
  <2>7. QED
    BY <1>7, <2>1, <2>2, <2>3, <2>4, <2>5, <2>6 DEF Handler, Stream
<1>8. CASE UNCHANGED vars
  BY <1>8 DEF TypeOK, vars, registry, streams, workers
<1>9. QED
  BY <1>4, <1>5, <1>6, <1>7, <1>8 DEF Next
-----------------------------------------------------------------------------
(* A step that changes neither the counters nor the owners of the slots,   *)
(* and moves no thread into or out of the two sets, keeps the invariants.  *)
LEMMA QuietStep ==
  ASSUME SlotsOwnedByStreamers, StreamCountExact, HandlersNeverOvercounted,
         UNCHANGED <<runningHandlersCount, runningStreamsCount>>,
         \A x \in SlotIx : /\ frameQueues'[x].isActive <=> frameQueues[x].isActive
                           /\ frameQueues'[x].cltThrIx = frameQueues[x].cltThrIx,
         Streaming' = Streaming, Registered' = Registered
  PROVE  (SlotsOwnedByStreamers /\ StreamCountExact /\ HandlersNeverOvercounted)'
BY DEF SlotsOwnedByStreamers, StreamCountExact, HandlersNeverOvercounted

(* Such a step, when one thread moves within the two sets.                 *)
LEMMA QuietMove ==
  ASSUME TypeOK, SlotsOwnedByStreamers, StreamCountExact,
         HandlersNeverOvercounted,
         UNCHANGED <<runningHandlersCount, runningStreamsCount>>,
         \A x \in SlotIx : /\ frameQueues'[x].isActive <=> frameQueues[x].isActive
                           /\ frameQueues'[x].cltThrIx = frameQueues[x].cltThrIx,
         NEW t \in Threads, NEW pc \in HandlerPcs, Goto(t, pc),
         handler[t] \in StreamPcs <=> pc \in StreamPcs,
         handler[t] \in StreamPcs \cup {"request", "remove"}
           <=> pc \in StreamPcs \cup {"request", "remove"}
  PROVE  (SlotsOwnedByStreamers /\ StreamCountExact /\ HandlersNeverOvercounted)'
<1>1. /\ t \in Streaming <=> handler[t] \in StreamPcs
      /\ t \in Registered <=> handler[t] \in StreamPcs \cup {"request", "remove"}
  BY DEF Streaming, Registered, Serving
<1>2. Streaming' = Streaming /\ Registered' = Registered
  BY <1>1, MovedSets
<1>3. QED
  BY <1>2, QuietStep

(* A step of a thread that registers or unregisters: the count of handlers *)
(* and the set of registered threads change by at most one, together.      *)
LEMMA RegisterStep ==
  ASSUME TypeOK, HandlersNeverOvercounted, NEW t \in Threads,
         Register(t) \/ Unregister(t)
  PROVE  HandlersNeverOvercounted'
<1>1. runningHandlersCount \in Nat /\ runningHandlersCount <= Cardinality(Registered)
  BY ServerAssumption DEF TypeOK, HandlersNeverOvercounted
<1>2. /\ Cardinality(Registered) \in Nat
      /\ Cardinality(Registered \cup {t}) =
           IF t \in Registered THEN Cardinality(Registered)
                               ELSE Cardinality(Registered) + 1
      /\ Cardinality(Registered \ {t}) =
           IF t \in Registered THEN Cardinality(Registered) - 1
                               ELSE Cardinality(Registered)
  BY FiniteSets, FS_CardinalityType, FS_AddElement, FS_RemoveElement
<1>3. CASE Register(t)
  <2>1. t \notin Registered
    BY <1>3 DEF Register, At, Registered, Serving, StreamPcs
  <2>2. Registered' = Registered \cup {t}
    BY <1>3, MovedSets DEF Register, HandlerPcs, StreamPcs
  <2>3. runningHandlersCount' <= runningHandlersCount + 1
    BY <1>1, <1>3 DEF Register, addRunningHandler, CountAfterAdd
  <2>4. runningHandlersCount' \in Nat
    BY <1>1, <1>3 DEF Register, addRunningHandler, CountAfterAdd
  <2>5. QED
    BY <1>1, <1>2, <2>1, <2>2, <2>3, <2>4 DEF HandlersNeverOvercounted
<1>4. CASE Unregister(t)
  <2>1. t \in Registered
    BY <1>4 DEF Unregister, At, Registered
  <2>2. Registered' = Registered \ {t}
    BY <1>4, MovedSets DEF Unregister, HandlerPcs, StreamPcs
  <2>3. runningHandlersCount' =
          IF runningHandlersCount # 0 THEN runningHandlersCount - 1 ELSE 0
    BY <1>4 DEF Unregister, removeRunningHandler, CountAfterRemove
  <2>4. Cardinality(Registered) # 0
    BY <2>1, FiniteSets, FS_EmptySet
  <2>5. QED
    BY <1>1, <1>2, <2>1, <2>2, <2>3, <2>4 DEF HandlersNeverOvercounted
<1>5. QED
  BY <1>3, <1>4

(* A stream request that is granted occupies one slot for one new stream.  *)
(* The slot may have been another stream's, which then owns none.          *)
LEMMA StreamRequestStep ==
  ASSUME TypeOK, SlotsOwnedByStreamers, StreamCountExact,
         HandlersNeverOvercounted,
         NEW t \in Threads, StreamRequest(t)
  PROVE  (SlotsOwnedByStreamers /\ StreamCountExact /\ HandlersNeverOvercounted)'
<1>1. t \in Nat /\ MaxStreaming \in Nat
  BY ServerAssumption DEF Threads
<1>2. /\ frameQueues \in [SlotIx -> Slot]
      /\ runningStreamsCount \in 0 .. MaxStreaming
  BY DEF TypeOK
<1>3. t \notin Streaming /\ t \in Registered
  BY DEF StreamRequest, At, Streaming, Registered, Serving, StreamPcs
<1>4. Streaming' = Streaming \cup {t} /\ Registered' = Registered
  <2>1. \E pc \in HandlerPcs \cap StreamPcs : Goto(t, pc)
    BY DEF StreamRequest, HandlerPcs, StreamPcs
  <2>2. QED
    BY <2>1, <1>3, MovedSets
<1>5. runningStreamsCount' = runningStreamsCount + 1
      /\ runningHandlersCount' = runningHandlersCount
  BY DEF StreamRequest, incStreamingClientCount
<1>6. StreamCountExact'
  <2>1. Cardinality(Streaming \cup {t}) = Cardinality(Streaming) + 1
    BY <1>3, FiniteSets, FS_AddElement
  <2>2. QED
    BY <2>1, <1>4, <1>5 DEF StreamCountExact
<1>7. HandlersNeverOvercounted'
  BY <1>4, <1>5 DEF HandlersNeverOvercounted
<1>8. runningStreamsCount \in SlotIx
  BY <1>1, <1>2 DEF StreamRequest, MayAddStream, SlotIx
<1>9. frameQueues' = [frameQueues EXCEPT ![runningStreamsCount] =
                        OccupiedSlot(t)]
  BY DEF StreamRequest, incStreamingClientCount
<1>10. /\ frameQueues'[runningStreamsCount].isActive
       /\ frameQueues'[runningStreamsCount].cltThrIx = t
  BY <1>1, <1>2, <1>8, <1>9, OccupiedSlotFields
<1>11. \A x \in SlotIx : x # runningStreamsCount => frameQueues'[x] = frameQueues[x]
  BY <1>2, <1>9
<1>12. \A x \in SlotIx : frameQueues[x].isActive => frameQueues[x].cltThrIx # t
  BY <1>3 DEF SlotsOwnedByStreamers
<1>13. SlotsOwnedByStreamers'
  <2>1. ASSUME NEW x \in SlotIx, frameQueues'[x].isActive
        PROVE  frameQueues'[x].cltThrIx \in Streaming'
    <3>1. CASE x = runningStreamsCount
      BY <3>1, <1>4, <1>10
    <3>2. CASE x # runningStreamsCount
      BY <3>2, <2>1, <1>4, <1>11 DEF SlotsOwnedByStreamers
    <3>3. QED
      BY <3>1, <3>2
  <2>2. ASSUME NEW x \in SlotIx, NEW y \in SlotIx,
               frameQueues'[x].isActive, frameQueues'[y].isActive,
               frameQueues'[x].cltThrIx = frameQueues'[y].cltThrIx
        PROVE  x = y
    <3>1. CASE x = runningStreamsCount \/ y = runningStreamsCount
      BY <3>1, <2>2, <1>10, <1>11, <1>12
    <3>2. CASE x # runningStreamsCount /\ y # runningStreamsCount
      BY <3>2, <2>2, <1>11 DEF SlotsOwnedByStreamers
    <3>3. QED
      BY <3>1, <3>2
  <2>3. QED
    BY <2>1, <2>2 DEF SlotsOwnedByStreamers
<1>14. QED
  BY <1>6, <1>7, <1>13

(* A stream that ends is one of those counted, and frees its slot if it    *)
(* still owns one: the loop of decStreamingClientCount finds that slot and *)
(* no other.                                                               *)
LEMMA StreamEndsStep ==
  ASSUME TypeOK, SlotsOwnedByStreamers, StreamCountExact,
         HandlersNeverOvercounted, NEW t \in Threads, StreamEnds(t)
  PROVE  (SlotsOwnedByStreamers /\ StreamCountExact /\ HandlersNeverOvercounted)'
<1>1. frameQueues \in [SlotIx -> Slot]
  BY DEF TypeOK
<1>2. t \in Streaming /\ t \in Registered
  BY DEF StreamEnds, At, Streaming, Registered, Serving, StreamPcs
<1>3. Streaming' = Streaming \ {t} /\ Registered' = Registered
  <2>1. /\ Goto(t, "remove") /\ "remove" \in HandlerPcs
        /\ "remove" \notin StreamPcs
    BY DEF StreamEnds, HandlerPcs, StreamPcs
  <2>2. QED
    BY <2>1, <1>2, MovedSets
<1>4. /\ Cardinality(Streaming) \in Nat
      /\ Cardinality(Streaming) # 0
      /\ Cardinality(Streaming \ {t}) = Cardinality(Streaming) - 1
  BY <1>2, FiniteSets, FS_CardinalityType, FS_EmptySet, FS_RemoveElement
<1>5. runningStreamsCount # 0
  BY <1>4 DEF StreamCountExact
<1>6. StreamCountExact' /\ HandlersNeverOvercounted'
  BY <1>3, <1>4, <1>5
     DEF StreamCountExact, HandlersNeverOvercounted, StreamEnds,
         decStreamingClientCount, StreamsAfterDec
<1>7. SlotsOwnedByStreamers'
  <2>1. CASE SlotsOf(t) = {}
    <3>1. frameQueues' = frameQueues
      BY <2>1 DEF StreamEnds, decStreamingClientCount, SlotsAfterDec
    <3>2. \A x \in SlotIx : frameQueues[x].isActive => frameQueues[x].cltThrIx # t
      BY <2>1 DEF SlotsOf
    <3>3. QED
      BY <3>1, <3>2, <1>3 DEF SlotsOwnedByStreamers
  <2>2. CASE SlotsOf(t) # {}
    <3> DEFINE mine == First(SlotsOf(t))
    <3>1. mine \in SlotIx /\ SlotsOf(t) = {mine}
      BY <2>2, SlotFound
    <3>2. frameQueues' = [frameQueues EXCEPT ![mine] = FreeSlot]
      BY <2>2, <1>5 DEF StreamEnds, decStreamingClientCount, SlotsAfterDec
    <3>3. ~ frameQueues'[mine].isActive
      BY <3>1, <3>2, <1>1, FreeSlotFields
    <3>4. \A x \in SlotIx : x # mine => frameQueues'[x] = frameQueues[x]
      BY <3>2, <1>1
    <3>5. \A x \in SlotIx : x # mine /\ frameQueues[x].isActive
                              => frameQueues[x].cltThrIx # t
      <4>1. \A x \in SlotIx : x # mine => x \notin SlotsOf(t)
        BY <3>1
      <4>2. QED
        BY <4>1 DEF SlotsOf
    <3> HIDE DEF mine
    <3>6. \A x \in SlotIx : frameQueues'[x].isActive =>
                                x # mine /\ frameQueues'[x] = frameQueues[x]
      BY <3>3, <3>4
    <3>7. QED
      BY <3>5, <3>6, <1>3 DEF SlotsOwnedByStreamers
  <2>3. QED
    BY <2>1, <2>2
<1>8. QED
  BY <1>6, <1>7

(* The threads that were not started yet are nowhere: an accepted          *)
(* connection gets a thread that no counter and no slot knows of.          *)
FreshThreads == \A t \in Threads : t > gThreadCount => handler[t] = "none"

(* The registry's inductive invariant.                                     *)
RegistryInv ==
  /\ TypeOK
  /\ SlotsOwnedByStreamers
  /\ StreamCountExact
  /\ HandlersNeverOvercounted
  /\ FreshThreads

(* The empty registry satisfies the invariant.                             *)
LEMMA RegistryInvInit == Init => RegistryInv
<1> SUFFICES ASSUME Init PROVE RegistryInv
  OBVIOUS
<1>1. /\ MaxClients \in Nat /\ MaxStreaming \in Nat /\ StopPoll \in Nat \ {0}
      /\ MaxThreads \in Nat /\ MaxStreaming >= 1
  BY ServerAssumption
<1>2. FreeSlot \in Slot /\ ~ FreeSlot.isActive
  <2>1. <<>> \in Seq(Nat)
    OBVIOUS
  <2>2. QED
    BY <2>1 DEF FreeSlot, Slot
<1>3. TypeOK
  <2>1. frameQueues \in [SlotIx -> Slot]
    BY <1>2 DEF Init
  <2>2. /\ DOMAIN httpClients = ClientIx
        /\ handler \in [Threads -> HandlerPcs]
    BY DEF Init, HandlerPcs
  <2>3. /\ toNeedToStop \in [Threads -> 1 .. StopPoll]
        /\ noFrameCnt \in [Threads -> Nat]
        /\ sending \in [Threads -> Nat]
    BY <1>1 DEF Init
  <2>4. /\ runningHandlersCount \in 0 .. MaxClients
        /\ runningStreamsCount \in 0 .. MaxStreaming
        /\ gThreadCount \in 0 .. MaxThreads
        /\ frameNr \in Nat
    BY <1>1 DEF Init
  <2>5. QED
    BY <2>1, <2>2, <2>3, <2>4 DEF TypeOK, Init
<1>4. Streaming = {} /\ Registered = {}
  BY DEF Init, Streaming, Registered, Serving, StreamPcs
<1>5. Cardinality({}) = 0
  BY FS_EmptySet
<1>6. StreamCountExact /\ HandlersNeverOvercounted
  BY <1>4, <1>5 DEF StreamCountExact, HandlersNeverOvercounted, Init
<1>7. SlotsOwnedByStreamers
  BY <1>2 DEF SlotsOwnedByStreamers, Init
<1>8. FreshThreads
  BY DEF FreshThreads, Init
<1>9. QED
  BY <1>3, <1>6, <1>7, <1>8 DEF RegistryInv

(* No step breaks the registry's invariant.                                *)
LEMMA RegistryInvInductive == RegistryInv /\ [Next]_vars => RegistryInv'
<1> SUFFICES ASSUME RegistryInv, [Next]_vars PROVE RegistryInv'
  OBVIOUS
<1>1. /\ TypeOK /\ SlotsOwnedByStreamers /\ StreamCountExact
      /\ HandlersNeverOvercounted /\ FreshThreads
  BY DEF RegistryInv
<1>2. TypeOK'
  BY <1>1, TypeInductive
<1>3. /\ handler \in [Threads -> HandlerPcs]
      /\ gThreadCount \in 0 .. MaxThreads
      /\ frameQueues \in [SlotIx -> Slot]
      /\ MaxThreads \in Nat
      /\ frameNr \in Nat
  BY <1>1, ServerAssumption DEF TypeOK
<1> DEFINE Good == SlotsOwnedByStreamers /\ StreamCountExact
                     /\ HandlersNeverOvercounted
           SameOwners ==
             \A x \in SlotIx :
               /\ frameQueues'[x].isActive <=> frameQueues[x].isActive
               /\ frameQueues'[x].cltThrIx = frameQueues[x].cltThrIx
<1> SUFFICES Good' /\ FreshThreads'
  BY <1>2 DEF RegistryInv
<1>4. ASSUME UNCHANGED handler, UNCHANGED gThreadCount
      PROVE  /\ Streaming' = Streaming
             /\ Registered' = Registered
             /\ FreshThreads'
  BY <1>1, <1>4 DEF Streaming, Registered, Serving, FreshThreads
<1>5. ASSUME UNCHANGED <<registry, handler, gThreadCount>>
      PROVE  Good' /\ FreshThreads'
  BY <1>1, <1>4, <1>5, QuietStep DEF registry
<1>6. CASE AcceptNothing \/ JoinWorkers \/ Exit \/ SetFlagNeedToStop
           \/ ProducerEnds \/ EncodeFrame \/ ConsumerEnds \/ UNCHANGED vars
  <2>1. UNCHANGED <<registry, handler, gThreadCount>>
    BY <1>6 DEF AcceptNothing, JoinWorkers, Exit, SetFlagNeedToStop,
                ProducerEnds, EncodeFrame, ConsumerEnds, vars
  <2>2. QED
    BY <2>1, <1>5
<1>7. CASE AcceptConnection
  <2> DEFINE new == gThreadCount + 1
  <2>1. new \in Threads /\ new > gThreadCount
    BY <1>3, <1>7 DEF AcceptConnection, Threads
  <2>2. handler[new] = "none"
    BY <1>1, <2>1 DEF FreshThreads
  <2>3. /\ Goto(new, "started") /\ gThreadCount' = new
        /\ UNCHANGED <<runningHandlersCount, runningStreamsCount, frameQueues>>
    BY <1>7 DEF AcceptConnection, registry
  <2>4. "started" \in HandlerPcs
    BY DEF HandlerPcs
  <2>5. /\ handler[new] \notin StreamPcs /\ "started" \notin StreamPcs
        /\ handler[new] \notin StreamPcs \cup {"request", "remove"}
        /\ "started" \notin StreamPcs \cup {"request", "remove"}
    BY <2>2 DEF StreamPcs
  <2> HIDE DEF new
  <2>6. Good'
    BY <1>1, <2>1, <2>3, <2>4, <2>5, QuietMove
  <2>7. FreshThreads'
    <3>1. \A u \in Threads : u > new => u # new /\ u > gThreadCount
      BY <1>3, <2>1 DEF Threads
    <3>2. \A u \in Threads : u # new => handler'[u] = handler[u]
      BY <2>3, <1>3 DEF Goto
    <3>3. QED
      BY <1>1, <2>3, <3>1, <3>2 DEF FreshThreads
  <2>8. QED
    BY <2>6, <2>7
<1>8. CASE broadcastFrameToStreamingClients
  <2>1. ASSUME NEW x \in SlotIx
        PROVE  /\ frameQueues'[x].isActive <=> frameQueues[x].isActive
               /\ frameQueues'[x].cltThrIx = frameQueues[x].cltThrIx
    <3>1. frameQueues[x].pFrameQueue \in Seq(Nat) /\ frameNr + 1 \in Nat
      BY <1>3 DEF Slot
    <3>2. JpegQueue!Enqueue(frameQueues[x].pFrameQueue, frameNr + 1) \in Seq(Nat)
      BY <3>1, QueueOps
    <3>3. frameQueues'[x] =
            IF frameQueues[x].isActive
              THEN SlotWithQueue(frameQueues[x],
                     JpegQueue!Enqueue(frameQueues[x].pFrameQueue, frameNr + 1))
              ELSE frameQueues[x]
      BY <1>8 DEF broadcastFrameToStreamingClients
    <3>4. QED
      BY <1>3, <3>2, <3>3, SlotWithQueueFields
  <2>2. /\ UNCHANGED <<runningHandlersCount, runningStreamsCount>>
        /\ UNCHANGED handler /\ UNCHANGED gThreadCount
    BY <1>8 DEF broadcastFrameToStreamingClients
  <2>3. QED
    BY <1>1, <1>4, <2>1, <2>2, QuietStep
<1>9. ASSUME NEW t \in Threads, Handler(t)
      PROVE  Good' /\ FreshThreads'
  <2>1. \A pc : At(t, pc) => handler[t] = pc
    BY DEF At
  <2>2. ASSUME NEW pc, Goto(t, pc), UNCHANGED gThreadCount, handler[t] # "none"
        PROVE  FreshThreads'
    <3>1. \A u \in Threads : u # t => handler'[u] = handler[u]
      BY <2>2, <1>3 DEF Goto
    <3>2. ~ (t > gThreadCount)
      BY <1>1, <2>2 DEF FreshThreads
    <3>3. QED
      BY <1>1, <2>2, <3>1, <3>2 DEF FreshThreads
  <2>3. CASE Register(t)
    <3>1. Good'
      <4>1. t \notin Streaming
        BY <2>1, <2>3 DEF Register, Streaming, StreamPcs
      <4>2. Streaming' = Streaming
        BY <1>1, <2>3, <4>1, MovedSets DEF Register, HandlerPcs, StreamPcs
      <4>3. UNCHANGED <<runningStreamsCount, frameQueues>>
        BY <2>3 DEF Register, addRunningHandler
      <4>4. HandlersNeverOvercounted'
        BY <1>1, <2>3, RegisterStep
      <4>5. QED
        BY <1>1, <4>2, <4>3, <4>4 DEF SlotsOwnedByStreamers, StreamCountExact
    <3>2. FreshThreads'
      BY <2>1, <2>2, <2>3 DEF Register
    <3>3. QED
      BY <3>1, <3>2
  <2>4. CASE Unregister(t)
    <3>1. Good'
      <4>1. t \notin Streaming
        BY <2>1, <2>4 DEF Unregister, Streaming, StreamPcs
      <4>2. Streaming' = Streaming
        BY <1>1, <2>4, <4>1, MovedSets DEF Unregister, HandlerPcs, StreamPcs
      <4>3. UNCHANGED <<runningStreamsCount, frameQueues>>
        BY <2>4 DEF Unregister, removeRunningHandler
      <4>4. HandlersNeverOvercounted'
        BY <1>1, <2>4, RegisterStep
      <4>5. QED
        BY <1>1, <4>2, <4>3, <4>4 DEF SlotsOwnedByStreamers, StreamCountExact
    <3>2. FreshThreads'
      BY <2>1, <2>2, <2>4 DEF Unregister
    <3>3. QED
      BY <3>1, <3>2
  <2>5. CASE StreamRequest(t)
    <3>1. Good'
      BY <1>1, <2>5, StreamRequestStep
    <3>2. FreshThreads'
      BY <2>1, <2>2, <2>5 DEF StreamRequest
    <3>3. QED
      BY <3>1, <3>2
  <2>6. CASE StreamEnds(t)
    <3>1. Good'
      BY <1>1, <2>6, StreamEndsStep
    <3>2. FreshThreads'
      BY <2>1, <2>2, <2>6 DEF StreamEnds
    <3>3. QED
      BY <3>1, <3>2
  <2>7. ASSUME NEW from \in HandlerPcs, NEW to \in HandlerPcs,
               At(t, from), Goto(t, to), from # "none",
               from \in StreamPcs <=> to \in StreamPcs,
               from \in StreamPcs \cup {"request", "remove"}
                 <=> to \in StreamPcs \cup {"request", "remove"},
               UNCHANGED <<runningHandlersCount, runningStreamsCount, gThreadCount>>,
               SameOwners
        PROVE  Good' /\ FreshThreads'
    <3>1. handler[t] = from
      BY <2>1, <2>7
    <3>2. Good'
      BY <1>1, <2>7, <3>1, QuietMove
    <3>3. FreshThreads'
      BY <2>2, <2>7, <3>1
    <3>4. QED
      BY <3>2, <3>3
  <2> HIDE DEF Good
  <2>8. CASE OtherRequest(t) \/ StreamRequestRejected(t)
    <3>1. /\ At(t, "request") /\ Goto(t, "remove")
          /\ UNCHANGED registry /\ UNCHANGED gThreadCount
      BY <2>8 DEF OtherRequest, StreamRequestRejected
    <3>2. SameOwners
      BY <3>1 DEF registry
    <3>3. QED
      BY <2>7, <3>1, <3>2 DEF HandlerPcs, StreamPcs, registry
  <2>9. CASE StreamSeesStop(t) \/ PollNothing(t) \/ SendFrame(t)
             \/ SendFails(t)
    <3>1. \E from \in StreamPcs, to \in StreamPcs : At(t, from) /\ Goto(t, to)
      BY <2>9 DEF StreamSeesStop, PollNothing, CountMiss, SendFrame, SendFails,
                  StreamPcs
    <3>2. UNCHANGED registry /\ UNCHANGED gThreadCount
      BY <2>9 DEF StreamSeesStop, PollNothing, SendFrame, SendFails
    <3>3. SameOwners
      BY <3>2 DEF registry
    <3>4. StreamPcs \subseteq HandlerPcs /\ "none" \notin StreamPcs
      BY DEF StreamPcs, HandlerPcs
    <3>5. UNCHANGED <<runningHandlersCount, runningStreamsCount, gThreadCount>>
      BY <3>2 DEF registry
    <3> HIDE DEF SameOwners
    <3>6. QED
      BY <2>7, <3>1, <3>3, <3>4, <3>5
  <2>10. CASE PollFrame(t) \/ FrameLost(t)
    <3> DEFINE mine == First(SlotsOf(t))
    <3>1. /\ QueueOf(t) # <<>>
          /\ frameQueues' = [frameQueues EXCEPT ![mine] =
                               SlotWithQueue(@, Tail(QueueOf(t)))]
      BY <2>10 DEF PollFrame, FrameLost, SlotsAfterTake
    <3>2. SlotsOf(t) # {} /\ QueueOf(t) \in Seq(Nat)
      BY <1>1, <3>1, TakeTypes
    <3>3. Tail(QueueOf(t)) \in Seq(Nat)
      BY <3>1, <3>2, QueueOps
    <3>4. SameOwners
      <4> HIDE DEF mine
      <4>1. ASSUME NEW x \in SlotIx
            PROVE  /\ frameQueues'[x].isActive <=> frameQueues[x].isActive
                   /\ frameQueues'[x].cltThrIx = frameQueues[x].cltThrIx
        <5>1. \/ frameQueues'[x] = frameQueues[x]
              \/ frameQueues'[x] = SlotWithQueue(frameQueues[x], Tail(QueueOf(t)))
          BY <1>3, <3>1
        <5>2. frameQueues[x] \in Slot
          BY <1>3
        <5>3. /\ SlotWithQueue(frameQueues[x], Tail(QueueOf(t))).isActive
                   = frameQueues[x].isActive
              /\ SlotWithQueue(frameQueues[x], Tail(QueueOf(t))).cltThrIx
                   = frameQueues[x].cltThrIx
          BY <3>3, <5>2, SlotWithQueueFields
        <5>4. QED
          BY <5>1, <5>3
      <4>2. QED
        BY <4>1
    <3>5. /\ \E to \in StreamPcs : At(t, "poll") /\ Goto(t, to)
          /\ UNCHANGED <<runningHandlersCount, runningStreamsCount, gThreadCount>>
      BY <2>10 DEF PollFrame, FrameLost, CountMiss, StreamPcs
    <3>6. "poll" \in StreamPcs /\ StreamPcs \subseteq HandlerPcs /\ "none" \notin StreamPcs
      BY DEF StreamPcs, HandlerPcs
    <3> HIDE DEF SameOwners
    <3>7. QED
      BY <2>7, <3>4, <3>5, <3>6
  <2>11. QED
    BY <1>9, <2>3, <2>4, <2>5, <2>6, <2>8, <2>9, <2>10
       DEF Handler, Stream
<1>10. QED
  BY <1>6, <1>7, <1>8, <1>9 DEF Next, Main, Consumer

(* The invariant holds of every reachable state.                           *)
LEMMA RegistryInvAlways == Spec => []RegistryInv
BY RegistryInvInit, RegistryInvInductive, PTL DEF Spec

(* The variables of the server keep their types: the counters stay within  *)
(* their limits, and no operation indexes outside the slots.               *)
THEOREM TypeCorrect == Spec => []TypeOK
BY RegistryInvAlways, PTL DEF RegistryInv

(* The number of streams is exactly the number of threads that stream, and *)
(* every active slot has one owner, which is streaming.                    *)
THEOREM StreamsCorrect == Spec => [](StreamCountExact /\ SlotsOwnedByStreamers)
BY RegistryInvAlways, PTL DEF RegistryInv

(* No slot stays active without a stream, and no two threads own one slot. *)
THEOREM SlotsCorrect == Spec => []SlotsOwnedByStreamers
BY StreamsCorrect, PTL

(* The count of handlers never exceeds the threads that are registered.    *)
THEOREM HandlersCorrect == Spec => []HandlersNeverOvercounted
BY RegistryInvAlways, PTL DEF RegistryInv
-----------------------------------------------------------------------------
(* The frames of a queue are in the order of their broadcasts, newer than  *)
(* frame lo and not newer than frame hi.                                   *)
Between(q, lo, hi) ==
  \A i \in 1 .. Len(q) :
    lo < q[i] /\ q[i] <= hi /\ \A j \in 1 .. i - 1 : q[j] < q[i]

(* The newest frame is put behind the others.                              *)
LEMMA AppendKeepsOrder ==
  ASSUME NEW q \in Seq(Nat), NEW lo \in Nat, NEW hi \in Nat,
         lo <= hi, Between(q, lo, hi)
  PROVE  Between(Append(q, hi + 1), lo, hi + 1)
<1>1. \A i \in 1 .. Len(q) : q[i] \in Nat
  OBVIOUS
<1>2. QED
  BY <1>1 DEF Between

(* A broadcast appends the newest frame, whether or not the queue is full. *)
LEMMA BroadcastKeepsOrder ==
  ASSUME NEW q \in Seq(Nat), NEW lo \in Nat, NEW hi \in Nat,
         lo <= hi, Between(q, lo, hi)
  PROVE  Between(JpegQueue!Enqueue(q, hi + 1), lo, hi + 1)
<1>1. \A i \in 1 .. Len(q) : q[i] \in Nat
  OBVIOUS
<1>2. Between(Append(q, hi + 1), lo, hi + 1)
  BY AppendKeepsOrder
<1>3. ASSUME JpegQueue!IsFull(q)
      PROVE  Between(Append(Tail(q), hi + 1), lo, hi + 1)
  <2>1. q # <<>>
    BY <1>3, ServerAssumption DEF JpegQueue!IsFull
  <2>2. /\ Tail(q) \in Seq(Nat) /\ Len(Tail(q)) = Len(q) - 1
        /\ \A i \in 1 .. Len(q) - 1 : Tail(q)[i] = q[i + 1]
    BY <2>1
  <2>3. Between(Tail(q), lo, hi)
    BY <1>1, <2>2 DEF Between
  <2>4. QED
    BY <2>2, <2>3, AppendKeepsOrder
<1>4. QED
  BY <1>2, <1>3 DEF JpegQueue!Enqueue

(* What is left behind a frame that was taken is newer than it.            *)
LEMMA TakeKeepsOrder ==
  ASSUME NEW q \in Seq(Nat), NEW lo \in Nat, NEW hi \in Nat,
         q # <<>>, Between(q, lo, hi)
  PROVE  lo < Head(q) /\ Head(q) <= hi /\ Between(Tail(q), Head(q), hi)
<1>1. Head(q) = q[1] /\ 1 \in 1 .. Len(q) /\ \A i \in 1 .. Len(q) : q[i] \in Nat
  OBVIOUS
<1>2. /\ Len(Tail(q)) = Len(q) - 1
      /\ \A i \in 1 .. Len(q) - 1 : Tail(q)[i] = q[i + 1]
  OBVIOUS
<1>3. lo < Head(q) /\ Head(q) <= hi
  BY <1>1 DEF Between
<1>4. ASSUME NEW i \in 1 .. Len(Tail(q))
      PROVE  /\ Head(q) < Tail(q)[i] /\ Tail(q)[i] <= hi
             /\ \A j \in 1 .. i - 1 : Tail(q)[j] < Tail(q)[i]
  <2>1. i + 1 \in 1 .. Len(q) /\ Tail(q)[i] = q[i + 1]
    BY <1>2
  <2>2. \A j \in 1 .. (i + 1) - 1 : q[j] < q[i + 1]
    BY <2>1 DEF Between
  <2>3. \A j \in 1 .. i - 1 : Tail(q)[j] = q[j + 1] /\ j + 1 \in 1 .. (i + 1) - 1
    BY <1>2
  <2>4. 1 \in 1 .. (i + 1) - 1
    OBVIOUS
  <2>5. QED
    BY <1>1, <2>1, <2>2, <2>3, <2>4 DEF Between
<1>5. QED
  BY <1>3, <1>4 DEF Between

(* Frames not yet broadcast are nowhere, and a queue holds frames that are *)
(* newer than the one its stream has sent last.  A thread without a stream *)
(* has sent none, so that a new stream may take any slot.                  *)
DeliveryInv ==
  /\ \A t \in Threads : sending[t] <= frameNr
  /\ \A x \in SlotIx : frameQueues[x].isActive =>
       Between(frameQueues[x].pFrameQueue, sending[frameQueues[x].cltThrIx], frameNr)

(* A stream that takes a frame, to send it or to lose it: its slot is its  *)
(* own, and the others have other streams.                                 *)
LEMMA TakenFrameDelivers ==
  ASSUME RegistryInv, DeliveryInv, NEW t \in Threads, PollFrame(t) \/ FrameLost(t)
  PROVE  (PollFrame(t) => sending'[t] > sending[t]) /\ DeliveryInv'
<1>. DEFINE mine == First(SlotsOf(t))
            q == frameQueues[mine].pFrameQueue
<1>1. TypeOK /\ SlotsOwnedByStreamers /\ QueueOf(t) # <<>>
  BY DEF RegistryInv, PollFrame, FrameLost
<1>2. /\ SlotsOf(t) # {} /\ QueueOf(t) = q /\ q \in Seq(Nat)
  BY <1>1, TakeTypes
<1>3. mine \in SlotIx /\ mine \in SlotsOf(t) /\ SlotsOf(t) = {mine}
  BY <1>1, <1>2, SlotFound
<1>4. /\ frameQueues \in [SlotIx -> Slot] /\ sending \in [Threads -> Nat]
      /\ frameNr \in Nat
  BY <1>1 DEF TypeOK
<1>5. frameQueues[mine].isActive /\ frameQueues[mine].cltThrIx = t
  BY <1>3 DEF SlotsOf
<1>6. \A x \in SlotIx : x # mine /\ frameQueues[x].isActive
                          => frameQueues[x].cltThrIx # t
  BY <1>3, <1>5 DEF SlotsOf
<1>. HIDE DEF mine
<1>7. /\ sending[t] < Head(q) /\ Head(q) <= frameNr /\ Between(Tail(q), Head(q), frameNr)
      /\ Head(q) \in Nat /\ Tail(q) \in Seq(Nat)
  <2>1. Between(q, sending[t], frameNr)
    BY <1>3, <1>5 DEF DeliveryInv
  <2>2. sending[t] \in Nat /\ q # <<>>
    BY <1>1, <1>2, <1>4
  <2>3. QED
    BY <1>2, <1>4, <2>1, <2>2, TakeKeepsOrder, QueueOps
<1>8. /\ frameNr' = frameNr
      /\ \/ sending' = [sending EXCEPT ![t] = Head(q)]
         \/ ~PollFrame(t) /\ sending' = sending
  BY <1>2 DEF PollFrame, FrameLost, FrameTaken, workers
<1>9. frameQueues' = [frameQueues EXCEPT ![mine] = SlotWithQueue(@, Tail(q))]
  BY <1>2 DEF PollFrame, FrameLost, SlotsAfterTake, mine
<1>10. /\ frameQueues'[mine].cltThrIx = t
       /\ frameQueues'[mine].pFrameQueue = Tail(q)
  <2>1. frameQueues'[mine] = SlotWithQueue(frameQueues[mine], Tail(q))
    BY <1>3, <1>4, <1>9
  <2>2. frameQueues[mine] \in Slot
    BY <1>3, <1>4
  <2>. HIDE DEF q
  <2>3. Tail(q) \in Seq(Nat)
    BY <1>7
  <2>4. /\ SlotWithQueue(frameQueues[mine], Tail(q)).cltThrIx
             = frameQueues[mine].cltThrIx
        /\ SlotWithQueue(frameQueues[mine], Tail(q)).pFrameQueue = Tail(q)
    BY <2>2, <2>3, SlotWithQueueFields
  <2>5. QED
    BY <1>5, <2>1, <2>4
<1>11. /\ sending'[t] \in {sending[t], Head(q)} /\ (PollFrame(t) => sending'[t] = Head(q))
       /\ \A u \in Threads \ {t} : sending'[u] = sending[u]
  BY <1>4, <1>8
<1>12. \A u \in Threads : sending'[u] <= frameNr'
  BY <1>7, <1>8, <1>11 DEF DeliveryInv
<1>13. ASSUME NEW x \in SlotIx, frameQueues'[x].isActive
       PROVE  Between(frameQueues'[x].pFrameQueue,
                      sending'[frameQueues'[x].cltThrIx], frameNr')
  <2>1. CASE x = mine
    <3>1. Between(Tail(q), sending'[t], frameNr)
      <4>1. sending'[t] \in Nat /\ sending'[t] <= Head(q)
        BY <1>4, <1>7, <1>11
      <4>2. \A i \in 1 .. Len(Tail(q)) : Tail(q)[i] \in Nat
        BY <1>7
      <4>3. QED
        BY <1>7, <4>1, <4>2 DEF Between
    <3>2. QED
      BY <1>8, <1>10, <2>1, <3>1
  <2>2. CASE x # mine
    <3>1. frameQueues'[x] = frameQueues[x]
      BY <1>4, <1>9, <2>2
    <3>2. frameQueues[x].cltThrIx \in Threads \ {t}
      BY <1>1, <1>6, <1>13, <2>2, <3>1 DEF SlotsOwnedByStreamers, Streaming
    <3>3. QED
      BY <1>8, <1>11, <1>13, <3>1, <3>2 DEF DeliveryInv
  <2>3. QED
    BY <2>1, <2>2
<1>14. QED
  BY <1>4, <1>7, <1>11, <1>12, <1>13 DEF DeliveryInv

(* Every step keeps the order; the other ones take nothing from a queue.   *)
LEMMA DeliveryStep ==
  ASSUME RegistryInv, DeliveryInv, [Next]_vars
  PROVE  DeliveryInv'
<1>1. /\ frameQueues \in [SlotIx -> Slot] /\ sending \in [Threads -> Nat]
      /\ frameNr \in Nat /\ Threads \subseteq Nat
      /\ TypeOK /\ SlotsOwnedByStreamers
  BY ServerAssumption DEF RegistryInv, TypeOK, Threads
<1>2. ASSUME UNCHANGED <<frameQueues, sending, frameNr>>
      PROVE  DeliveryInv'
  BY <1>2 DEF DeliveryInv
<1>3. CASE broadcastFrameToStreamingClients
  <2>1. frameNr' = frameNr + 1 /\ sending' = sending
    BY <1>3 DEF broadcastFrameToStreamingClients, streams
  <2>2. ASSUME NEW x \in SlotIx, frameQueues'[x].isActive
        PROVE  Between(frameQueues'[x].pFrameQueue,
                       sending'[frameQueues'[x].cltThrIx], frameNr')
    <3>. DEFINE q == frameQueues[x].pFrameQueue
                lo == sending[frameQueues[x].cltThrIx]
    <3>1. frameQueues'[x] =
            IF frameQueues[x].isActive
              THEN SlotWithQueue(frameQueues[x], JpegQueue!Enqueue(q, frameNr + 1))
              ELSE frameQueues[x]
      BY <1>3 DEF broadcastFrameToStreamingClients
    <3>2. frameQueues[x].isActive
      BY <2>2, <3>1
    <3>3. frameQueues[x] \in Slot /\ q \in Seq(Nat)
      BY <1>1 DEF Slot
    <3>4. frameQueues[x].cltThrIx \in Threads
      BY <1>1, <3>2 DEF SlotsOwnedByStreamers, Streaming
    <3>5. lo \in Nat /\ lo <= frameNr /\ Between(q, lo, frameNr)
      BY <1>1, <3>2, <3>4 DEF DeliveryInv
    <3>6. Between(JpegQueue!Enqueue(q, frameNr + 1), lo, frameNr + 1)
      BY <1>1, <3>3, <3>5, BroadcastKeepsOrder
    <3>7. JpegQueue!Enqueue(q, frameNr + 1) \in Seq(Nat)
      BY <1>1, <3>3, QueueOps
    <3>8. /\ frameQueues'[x].cltThrIx = frameQueues[x].cltThrIx
          /\ frameQueues'[x].pFrameQueue = JpegQueue!Enqueue(q, frameNr + 1)
      BY <3>1, <3>2, <3>3, <3>7, SlotWithQueueFields
    <3>9. QED
      BY <2>1, <3>6, <3>8
  <2>3. \A t \in Threads : sending'[t] <= frameNr'
    BY <1>1, <2>1 DEF DeliveryInv
  <2>4. QED
    BY <2>2, <2>3 DEF DeliveryInv
<1>4. ASSUME NEW t \in Threads, StreamRequest(t)
      PROVE  DeliveryInv'
  <2>1. frameQueues' = [frameQueues EXCEPT ![runningStreamsCount] = OccupiedSlot(t)]
    BY <1>4 DEF StreamRequest, incStreamingClientCount
  <2>2. sending' = sending /\ frameNr' = frameNr
    BY <1>4 DEF StreamRequest, streams, workers
  <2>3. ASSUME NEW x \in SlotIx, frameQueues'[x].isActive
        PROVE  Between(frameQueues'[x].pFrameQueue,
                       sending'[frameQueues'[x].cltThrIx], frameNr')
    <3>1. CASE frameQueues'[x] = OccupiedSlot(t)
      BY <1>1, <3>1, OccupiedSlotFields DEF Between
    <3>2. CASE frameQueues'[x] = frameQueues[x]
      BY <2>2, <2>3, <3>2 DEF DeliveryInv
    <3>3. QED
      BY <1>1, <2>1, <3>1, <3>2
  <2>4. QED
    BY <2>2, <2>3 DEF DeliveryInv
<1>5. ASSUME NEW t \in Threads, StreamEnds(t)
      PROVE  DeliveryInv'
  <2>1. /\ frameQueues' = SlotsAfterDec(t) /\ frameNr' = frameNr
        /\ sending' = [sending EXCEPT ![t] = 0]
    BY <1>5 DEF StreamEnds, decStreamingClientCount, workers
  <2>2. \A u \in Threads : sending'[u] <= sending[u] /\ sending'[u] \in Nat
    BY <1>1, <2>1
  <2>3. ASSUME NEW x \in SlotIx, frameQueues'[x].isActive
        PROVE  frameQueues'[x] = frameQueues[x]
    <3>1. \/ frameQueues'[x] = frameQueues[x]
          \/ frameQueues'[x] = FreeSlot
      BY <1>1, <2>1 DEF SlotsAfterDec
    <3>2. QED
      BY <2>3, <3>1, FreeSlotFields
  <2>4. ASSUME NEW x \in SlotIx, frameQueues'[x].isActive
        PROVE  Between(frameQueues'[x].pFrameQueue,
                       sending'[frameQueues'[x].cltThrIx], frameNr')
    <3>. DEFINE u == frameQueues[x].cltThrIx
                q == frameQueues[x].pFrameQueue
    <3>1. frameQueues'[x] = frameQueues[x]
      BY <2>3, <2>4
    <3>2. u \in Threads /\ Between(q, sending[u], frameNr)
      BY <1>1, <2>4, <3>1 DEF SlotsOwnedByStreamers, Streaming, DeliveryInv
    <3>3. q \in Seq(Nat) /\ \A i \in 1 .. Len(q) : q[i] \in Nat
      BY <1>1 DEF Slot
    <3>4. sending'[u] <= sending[u] /\ sending'[u] \in Nat /\ sending[u] \in Nat
      BY <1>1, <2>2, <3>2
    <3>. HIDE DEF u, q
    <3>5. Between(q, sending'[u], frameNr)
      BY <3>2, <3>3, <3>4 DEF Between
    <3>6. QED
      BY <2>1, <3>1, <3>5 DEF u, q
  <2>5. \A u \in Threads : sending'[u] <= frameNr'
    BY <1>1, <2>1, <2>2 DEF DeliveryInv
  <2>6. QED
    BY <2>4, <2>5 DEF DeliveryInv
<1>6. CASE Main \/ SetFlagNeedToStop \/ ProducerEnds \/ EncodeFrame \/ ConsumerEnds
           \/ UNCHANGED vars
  <2>1. UNCHANGED <<frameQueues, sending, frameNr>>
    BY <1>6 DEF Main, AcceptConnection, AcceptNothing, JoinWorkers, Exit,
                SetFlagNeedToStop, ProducerEnds, EncodeFrame, ConsumerEnds, vars,
                registry, streams, workers
  <2>2. QED
    BY <1>2, <2>1
<1>7. ASSUME NEW t \in Threads,
             Register(t) \/ OtherRequest(t) \/ StreamRequestRejected(t)
               \/ StreamSeesStop(t) \/ PollNothing(t) \/ SendFrame(t)
               \/ SendFails(t) \/ Unregister(t)
      PROVE  DeliveryInv'
  <2>1. UNCHANGED <<frameQueues, sending, frameNr>>
    BY <1>7 DEF Register, addRunningHandler, OtherRequest, StreamRequestRejected,
                StreamSeesStop, PollNothing, SendFrame, SendFails, Unregister,
                removeRunningHandler, registry, streams, workers
  <2>2. QED
    BY <1>2, <2>1
<1>8. QED
  BY <1>3, <1>4, <1>5, <1>6, <1>7, TakenFrameDelivers
     DEF Next, Consumer, Handler, Stream

(* A client's stream never shows a frame twice or goes back, not even when *)
(* its slot is taken over, or when it takes over one in which frames wait  *)
(* for another client.                                                     *)
THEOREM StreamOrderCorrect == Spec => FramesInOrder
<1>1. Init => DeliveryInv
  <2>. SUFFICES ASSUME Init PROVE DeliveryInv
    OBVIOUS
  <2>1. \A t \in Threads : sending[t] <= frameNr
    BY DEF Init
  <2>2. \A x \in SlotIx : ~ frameQueues[x].isActive
    BY FreeSlotFields DEF Init
  <2>3. QED
    BY <2>1, <2>2 DEF DeliveryInv
<1>2. RegistryInv /\ DeliveryInv /\ [Next]_vars => DeliveryInv'
  BY DeliveryStep
<1>3. RegistryInv /\ DeliveryInv /\ [Next]_vars
        => [\A t \in Threads : handler'[t] = "send" /\ handler[t] = "poll"
                                 => sending'[t] > sending[t]]_vars
  <2>. SUFFICES ASSUME RegistryInv, DeliveryInv, Next, NEW t \in Threads,
                       handler'[t] = "send", handler[t] = "poll"
                PROVE  sending'[t] > sending[t]
    OBVIOUS
  <2>1. handler \in [Threads -> HandlerPcs] /\ FreshThreads
    BY DEF RegistryInv, TypeOK
  <2>2. ASSUME NEW u \in Threads, Handler(u)
        PROVE  u = t /\ PollFrame(t)
    <3>1. \E pc \in HandlerPcs : Goto(u, pc)
      BY <2>2 DEF Handler, Stream, Register, OtherRequest, StreamRequest,
           StreamRequestRejected, StreamSeesStop, PollFrame, PollNothing, FrameLost,
           CountMiss, SendFrame, SendFails, StreamEnds, Unregister, HandlerPcs
    <3>2. u = t
      BY <2>1, <3>1 DEF Goto
    <3>3. \A pc \in HandlerPcs : Goto(u, pc) => pc = "send"
      BY <2>1, <3>2 DEF Goto
    <3>4. QED
      BY <2>2, <3>2, <3>3 DEF Handler, Stream, Register, OtherRequest, StreamRequest,
           StreamRequestRejected, StreamSeesStop, PollNothing, FrameLost,
           CountMiss, SendFrame, SendFails, StreamEnds, Unregister, HandlerPcs
  <2>3. ASSUME AcceptConnection
        PROVE  FALSE
    BY <2>1, <2>3 DEF AcceptConnection, Goto
  <2>4. ~ UNCHANGED handler
    OBVIOUS
  <2>5. PICK u \in Threads : Handler(u)
    BY <2>3, <2>4 DEF Next, Main, Consumer, AcceptNothing, JoinWorkers, Exit,
         SetFlagNeedToStop, EncodeFrame, broadcastFrameToStreamingClients,
         ConsumerEnds, ProducerEnds
  <2>6. QED
    BY <2>2, <2>5, TakenFrameDelivers
<1>4. QED
  BY <1>1, <1>2, <1>3, RegistryInvAlways, PTL DEF Spec, FramesInOrder
=============================================================================

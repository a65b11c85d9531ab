----------------------------- MODULE TcpServer ------------------------------
(***************************************************************************)
(* The HTTP server: the listening main thread (TcpServer::startListen and  *)
(* the shutdown of main), one detached handler thread per connection       *)
(* (ClientHandler), and the registry they share (gThrVarRunningCltsStc):   *)
(* the number of running handlers, the number of streams, and one JPEG     *)
(* frame queue per stream, which the frame consumer thread fills.          *)
(*                                                                         *)
(* Every callback of the registry runs under gThrMtxRunningCltHnds and is  *)
(* one step; between two callbacks a handler thread may be overtaken by    *)
(* any other thread.  The bytes of requests and frames and the frame rates *)
(* that streams report for the status page are left out: a request is a    *)
(* stream request, or any other, which does not change the registry.  A frame is the number of its       *)
(* broadcast.  A JPEG queue is its contents, as module BoundedQueue        *)
(* promises (module FrameQueueJpeg shows that the ring buffer does so).    *)
(***************************************************************************)
EXTENDS Naturals, Sequences, FiniteSets

CONSTANTS
  MaxClients,    \* TCP_MAX_CLIENTS
  MaxStreaming,  \* TCP_MAX_STREAMING_CLIENTS
  QueueSize,     \* IF_QUEUE_SIZE
  NoFrameLimit,  \* polls without a frame after which a stream is closed
  StopPoll,      \* stream iterations between two looks at the stop flag
  MaxThreads,    \* bound: how many connections are accepted
  MaxFrames      \* bound: how many frames are broadcast

ASSUME ServerAssumption ==
  /\ MaxClients \in Nat \ {0}
  /\ MaxStreaming \in 1 .. MaxClients
  /\ QueueSize \in Nat \ {0}
  /\ NoFrameLimit \in Nat
  /\ StopPoll \in Nat \ {0}
  /\ MaxThreads \in Nat
  /\ MaxFrames \in Nat

VARIABLES
  runningHandlersCount, runningStreamsCount,
  httpClients,   \* which threads the registry believes to be handlers
  frameQueues,   \* the slots of the streaming clients
  gThreadCount,  \* the index of the last thread started
  handler,       \* where each handler thread is
  toNeedToStop,  \* iterations left until a stream looks at the stop flag
  noFrameCnt,    \* consecutive polls of a stream that found no frame
  sending,       \* the frame each stream has copied from its queue last
  needToStop,    \* Shared::gThrVarNeedToStop
  mainPc,        \* where the main thread is
  producer,      \* is the frame producer thread running?
  consumer,      \* where the frame consumer thread is
  frameNr        \* frames broadcast so far

registry == <<runningHandlersCount, runningStreamsCount, httpClients, frameQueues>>
streams == <<toNeedToStop, noFrameCnt, sending>>
workers == <<producer, consumer, frameNr>>
vars == <<registry, gThreadCount, handler, streams, needToStop, mainPc, workers>>

Threads == 1 .. MaxThreads

ClientIx == 0 .. MaxClients - 1

SlotIx == 0 .. MaxStreaming - 1

FreeClient == [cltThrIx |-> 0, isActive |-> FALSE]

FreeSlot == [cltThrIx |-> 0, isActive |-> FALSE, pFrameQueue |-> <<>>]

(* A slot given to a stream, and one with another queue.                   *)
OccupiedSlot(thrIx) ==
  [cltThrIx |-> thrIx, isActive |-> TRUE, pFrameQueue |-> <<>>]

SlotWithQueue(slot, q) == [slot EXCEPT !.pFrameQueue = q]

JpegQueue == INSTANCE BoundedQueue WITH
               Size <- QueueSize, Item <- 1 .. MaxFrames,
               queue <- <<>>, dropped <- 0, taken <- 0

(* The first element of a nonempty set of array indices, which is the one  *)
(* that the registry's search loops stop at.                               *)
First(S) == CHOOSE x \in S : \A y \in S : x <= y

ClientsOf(thrIx) ==
  {x \in ClientIx : httpClients[x].isActive /\ httpClients[x].cltThrIx = thrIx}

SlotsOf(thrIx) ==
  {x \in SlotIx : frameQueues[x].isActive /\ frameQueues[x].cltThrIx = thrIx}

(* The process runs until main returns, which ends its detached threads.   *)
Running == mainPc # "exited"

At(thrIx, pc) == Running /\ handler[thrIx] = pc

Goto(thrIx, pc) == handler' = [handler EXCEPT ![thrIx] = pc]
-----------------------------------------------------------------------------
Init ==
  /\ runningHandlersCount = 0
  /\ runningStreamsCount = 0
  /\ httpClients = [x \in ClientIx |-> FreeClient]
  /\ frameQueues = [x \in SlotIx |-> FreeSlot]
  /\ gThreadCount = 0
  /\ handler = [t \in Threads |-> "none"]
  /\ toNeedToStop = [t \in Threads |-> StopPoll]
  /\ noFrameCnt = [t \in Threads |-> 0]
  /\ sending = [t \in Threads |-> 0]
  /\ needToStop = FALSE
  /\ mainPc = "accept"
  /\ producer = TRUE
  /\ consumer = "idle"
  /\ frameNr = 0
-----------------------------------------------------------------------------
(* The listening loop looks at the stop flag whenever accept() has         *)
(* returned, before it calls it again.                                     *)
MainAfterAccept == IF needToStop THEN "join" ELSE "accept"

(* A connection was accepted, perhaps after the flag was set: start its    *)
(* handler thread.                                                         *)
AcceptConnection ==
  /\ mainPc = "accept"
  /\ gThreadCount < MaxThreads
  /\ gThreadCount' = gThreadCount + 1
  /\ Goto(gThreadCount + 1, "started")
  /\ mainPc' = MainAfterAccept
  /\ UNCHANGED <<registry, streams, needToStop, workers>>

(* accept() found no pending connection.                                   *)
AcceptNothing ==
  /\ mainPc = "accept"
  /\ mainPc' = MainAfterAccept
  /\ UNCHANGED <<registry, gThreadCount, handler, streams, needToStop, workers>>

(* main joins the producer and the consumer thread, in this order.         *)
JoinWorkers ==
  /\ mainPc = "join"
  /\ ~producer
  /\ consumer = "ended"
  /\ mainPc' = "waitClients"
  /\ UNCHANGED <<registry, gThreadCount, handler, streams, needToStop, workers>>

(* main returns once no handler is counted any more.                       *)
Exit ==
  /\ mainPc = "waitClients"
  /\ runningHandlersCount = 0
  /\ mainPc' = "exited"
  /\ UNCHANGED <<registry, gThreadCount, handler, streams, needToStop, workers>>

(* SIGINT, or a failure anywhere: the stop flag is set and never cleared.  *)
SetFlagNeedToStop ==
  /\ Running
  /\ ~needToStop
  /\ needToStop' = TRUE
  /\ UNCHANGED <<registry, gThreadCount, handler, streams, mainPc, workers>>
-----------------------------------------------------------------------------
(* A handler is accepted while fewer than MaxClients are counted.          *)
MayAddHandler == runningHandlersCount < MaxClients

CountAfterAdd ==
  IF MayAddHandler THEN runningHandlersCount + 1 ELSE runningHandlersCount

addRunningHandler(thrIx) ==
  /\ runningHandlersCount' = CountAfterAdd
  /\ httpClients' =
       IF MayAddHandler
         THEN [httpClients EXCEPT ![runningStreamsCount] =
                 [cltThrIx |-> thrIx, isActive |-> TRUE]]
         ELSE httpClients
  /\ UNCHANGED <<runningStreamsCount, frameQueues>>

(* Mutant of CountAfterRemove: the count goes down only for a thread that  *)
(* is found in httpClients.                                                *)
CountAfterRemoveIfFound(thrIx) ==
  IF runningHandlersCount # 0 /\ ClientsOf(thrIx) # {}
    THEN runningHandlersCount - 1
    ELSE runningHandlersCount

(* The count goes down whether or not the thread was found, and whether or *)
(* not it was accepted before.                                             *)
CountAfterRemove(thrIx) ==
  IF runningHandlersCount # 0 THEN runningHandlersCount - 1 ELSE 0

removeRunningHandler(thrIx) ==
  /\ runningHandlersCount' = CountAfterRemove(thrIx)
  /\ httpClients' =
       IF runningHandlersCount # 0 /\ ClientsOf(thrIx) # {}
         THEN [httpClients EXCEPT ![First(ClientsOf(thrIx))] = FreeClient]
         ELSE httpClients
  /\ UNCHANGED <<runningStreamsCount, frameQueues>>

MayAddStream == runningStreamsCount < MaxStreaming

(* The new stream takes the slot whose index is the number of streams,     *)
(* whatever that slot holds.                                               *)
incStreamingClientCount(thrIx) ==
  /\ runningStreamsCount' = runningStreamsCount + 1
  /\ frameQueues' = [frameQueues EXCEPT ![runningStreamsCount] =
                       OccupiedSlot(thrIx)]
  /\ UNCHANGED <<runningHandlersCount, httpClients>>

(* Mutants of the next two: the count goes down only for a thread that     *)
(* owns a slot, or the slot is not freed.                                  *)
StreamsAfterDecIfFound(thrIx) ==
  IF runningStreamsCount # 0 /\ SlotsOf(thrIx) # {}
    THEN runningStreamsCount - 1
    ELSE runningStreamsCount
SlotsAfterDecKept(thrIx) == frameQueues

StreamsAfterDec(thrIx) ==
  IF runningStreamsCount # 0 THEN runningStreamsCount - 1 ELSE 0

(* The slot of a thread that stops streaming is freed, if it has one.      *)
SlotsAfterDec(thrIx) ==
  IF runningStreamsCount # 0 /\ SlotsOf(thrIx) # {}
    THEN [frameQueues EXCEPT ![First(SlotsOf(thrIx))] = FreeSlot]
    ELSE frameQueues

decStreamingClientCount(thrIx) ==
  /\ runningStreamsCount' = StreamsAfterDec(thrIx)
  /\ frameQueues' = SlotsAfterDec(thrIx)
  /\ UNCHANGED <<runningHandlersCount, httpClients>>
-----------------------------------------------------------------------------
(* A handler thread registers; a rejected one has nothing to do but to     *)
(* remove itself again.                                                    *)
Register(t) ==
  /\ At(t, "started")
  /\ addRunningHandler(t)
  /\ Goto(t, IF MayAddHandler THEN "request" ELSE "remove")
  /\ UNCHANGED <<gThreadCount, streams, needToStop, mainPc, workers>>

(* Reading or parsing failed, or the request was not a stream request: the *)
(* response, if any, is sent and the handler is done.                      *)
OtherRequest(t) ==
  /\ At(t, "request")
  /\ Goto(t, "remove")
  /\ UNCHANGED <<registry, gThreadCount, streams, needToStop, mainPc, workers>>

(* A stream request is granted a slot.  The header of the response is sent *)
(* and the stream starts, or its buffer or the sending fails.              *)
StreamRequest(t) ==
  /\ At(t, "request")
  /\ MayAddStream
  /\ incStreamingClientCount(t)
  /\ Goto(t, "poll") \/ Goto(t, "leave")
  /\ UNCHANGED <<gThreadCount, streams, needToStop, mainPc, workers>>

(* All streams are taken: "too many clients".                              *)
StreamRequestRejected(t) ==
  /\ At(t, "request")
  /\ ~MayAddStream
  /\ Goto(t, "remove")
  /\ UNCHANGED <<registry, gThreadCount, streams, needToStop, mainPc, workers>>

(* The stop flag is seen by the iteration that counts down to it.          *)
SeesStop(t) == toNeedToStop[t] = 1 /\ needToStop

CountdownAfterPoll(t) == IF toNeedToStop[t] = 1 THEN StopPoll
                                                ELSE toNeedToStop[t] - 1

StreamSeesStop(t) ==
  /\ At(t, "poll")
  /\ SeesStop(t)
  /\ Goto(t, "leave")
  /\ UNCHANGED <<registry, gThreadCount, streams, needToStop, mainPc, workers>>

(* The queue of thread t, which is empty when t owns no slot.              *)
QueueOf(t) ==
  IF SlotsOf(t) = {} THEN <<>> ELSE frameQueues[First(SlotsOf(t))].pFrameQueue

FrameTaken(t) == Head(QueueOf(t))

(* Mutant of SlotsAfterTake: the frame is copied but not released.         *)
SlotsAfterTakeKept(t) == frameQueues

SlotsAfterTake(t) ==
  [frameQueues EXCEPT ![First(SlotsOf(t))] =
     SlotWithQueue(@, Tail(QueueOf(t)))]

(* An iteration that finds a frame copies the oldest one from the queue.   *)
PollFrame(t) ==
  /\ At(t, "poll")
  /\ ~SeesStop(t)
  /\ QueueOf(t) # <<>>
  /\ sending' = [sending EXCEPT ![t] = FrameTaken(t)]
  /\ frameQueues' = SlotsAfterTake(t)
  /\ toNeedToStop' = [toNeedToStop EXCEPT ![t] = CountdownAfterPoll(t)]
  /\ noFrameCnt' = [noFrameCnt EXCEPT ![t] = 0]
  /\ Goto(t, "send")
  /\ UNCHANGED <<runningHandlersCount, runningStreamsCount, httpClients,
                 gThreadCount, needToStop, mainPc, workers>>

(* Mutant of MissesAfterPoll: the misses are not counted.                  *)
MissesAfterPollReset(t) == 0

MissesAfterPoll(t) == noFrameCnt[t] + 1

(* An iteration without a frame; too many of them in a row end the stream. *)
CountMiss(t) ==
  /\ toNeedToStop' = [toNeedToStop EXCEPT ![t] = CountdownAfterPoll(t)]
  /\ noFrameCnt' = [noFrameCnt EXCEPT ![t] = MissesAfterPoll(t)]
  /\ Goto(t, IF MissesAfterPoll(t) > NoFrameLimit THEN "leave" ELSE "poll")

PollNothing(t) ==
  /\ At(t, "poll")
  /\ ~SeesStop(t)
  /\ QueueOf(t) = <<>>
  /\ CountMiss(t)
  /\ UNCHANGED <<registry, gThreadCount, sending, needToStop, mainPc, workers>>

(* The buffer of the stream could not be made large enough for the frame:  *)
(* the frame is gone from the queue, and the iteration has none.           *)
FrameLost(t) ==
  /\ At(t, "poll")
  /\ ~SeesStop(t)
  /\ QueueOf(t) # <<>>
  /\ frameQueues' = SlotsAfterTake(t)
  /\ CountMiss(t)
  /\ UNCHANGED <<runningHandlersCount, runningStreamsCount, httpClients,
                 gThreadCount, sending, needToStop, mainPc, workers>>

SendFrame(t) ==
  /\ At(t, "send")
  /\ Goto(t, "poll")
  /\ UNCHANGED <<registry, gThreadCount, streams, needToStop, mainPc, workers>>

(* Sending the frame failed.                                               *)
SendFails(t) ==
  /\ At(t, "send")
  /\ Goto(t, "leave")
  /\ UNCHANGED <<registry, gThreadCount, streams, needToStop, mainPc, workers>>

(* startStreaming returns: its slot is given back and its locals are gone. *)
StreamEnds(t) ==
  /\ At(t, "leave")
  /\ decStreamingClientCount(t)
  /\ toNeedToStop' = [toNeedToStop EXCEPT ![t] = StopPoll]
  /\ noFrameCnt' = [noFrameCnt EXCEPT ![t] = 0]
  /\ sending' = [sending EXCEPT ![t] = 0]
  /\ Goto(t, "remove")
  /\ UNCHANGED <<gThreadCount, needToStop, mainPc, workers>>

(* The handler removes itself; closing its connection after that touches   *)
(* nothing that is shared.                                                 *)
Unregister(t) ==
  /\ At(t, "remove")
  /\ removeRunningHandler(t)
  /\ Goto(t, "done")
  /\ UNCHANGED <<gThreadCount, streams, needToStop, mainPc, workers>>
-----------------------------------------------------------------------------
(* The consumer encodes a processed frame only if a handler is counted.    *)
EncodeFrame ==
  /\ Running
  /\ consumer = "idle"
  /\ frameNr < MaxFrames
  /\ runningHandlersCount > 0
  /\ consumer' = "encoded"
  /\ UNCHANGED <<registry, gThreadCount, handler, streams, needToStop, mainPc,
                 producer, frameNr>>

(* The encoded frame is appended to the queue of every active slot.        *)
broadcastFrameToStreamingClients ==
  /\ Running
  /\ consumer = "encoded"
  /\ frameNr' = frameNr + 1
  /\ frameQueues' =
       [x \in SlotIx |->
          IF frameQueues[x].isActive
            THEN SlotWithQueue(frameQueues[x],
                   JpegQueue!Enqueue(frameQueues[x].pFrameQueue, frameNr + 1))
            ELSE frameQueues[x]]
  /\ consumer' = "idle"
  /\ UNCHANGED <<runningHandlersCount, runningStreamsCount, httpClients,
                 gThreadCount, handler, streams, needToStop, mainPc, producer>>

ConsumerEnds ==
  /\ Running
  /\ consumer = "idle"
  /\ needToStop
  /\ consumer' = "ended"
  /\ UNCHANGED <<registry, gThreadCount, handler, streams, needToStop, mainPc,
                 producer, frameNr>>

ProducerEnds ==
  /\ Running
  /\ producer
  /\ needToStop
  /\ producer' = FALSE
  /\ UNCHANGED <<registry, gThreadCount, handler, streams, needToStop, mainPc,
                 consumer, frameNr>>
-----------------------------------------------------------------------------
Main == AcceptConnection \/ AcceptNothing \/ JoinWorkers \/ Exit

Consumer == EncodeFrame \/ broadcastFrameToStreamingClients \/ ConsumerEnds

Stream(t) ==
  \/ StreamSeesStop(t) \/ PollFrame(t) \/ PollNothing(t) \/ FrameLost(t)
  \/ SendFrame(t) \/ SendFails(t) \/ StreamEnds(t)

Handler(t) ==
  \/ Register(t)
  \/ OtherRequest(t)
  \/ StreamRequest(t)
  \/ StreamRequestRejected(t)
  \/ Stream(t)
  \/ Unregister(t)

Next ==
  \/ Main
  \/ SetFlagNeedToStop
  \/ Consumer
  \/ ProducerEnds
  \/ \E t \in Threads : Handler(t)

Spec == Init /\ [][Next]_vars

(* Every thread that can take a step keeps taking steps: no lock is held   *)
(* across a wait, reads and writes of a connection time out after ten      *)
(* seconds, and every other wait is a sleep.  Clients need not connect and *)
(* nobody need stop the server.                                            *)
FairSpec ==
  /\ Spec
  /\ WF_vars(Main)
  /\ WF_vars(Consumer)
  /\ WF_vars(ProducerEnds)
  /\ \A t \in Threads : WF_vars(Handler(t))
-----------------------------------------------------------------------------
HandlerPcs ==
  {"none", "started", "request", "poll", "send", "leave", "remove", "done"}

(* The threads that were granted a stream and have not yet given it back.  *)
StreamPcs == {"poll", "send", "leave"}

Streaming == {t \in Threads : handler[t] \in StreamPcs}

(* The threads that were accepted by addRunningHandler and still serve     *)
(* their client.                                                           *)
Serving == {t \in Threads : handler[t] \in StreamPcs \cup {"request"}}

(* The threads that have called addRunningHandler, with whatever outcome,  *)
(* and have not yet called removeRunningHandler.                           *)
Registered == Serving \cup {t \in Threads : handler[t] = "remove"}

Slot == [cltThrIx : Nat, isActive : BOOLEAN, pFrameQueue : Seq(Nat)]

(* Every variable of the server has its type.                              *)
TypeOK ==
  /\ runningHandlersCount \in 0 .. MaxClients
  /\ runningStreamsCount \in 0 .. MaxStreaming
  /\ DOMAIN httpClients = ClientIx
  /\ frameQueues \in [SlotIx -> Slot]
  /\ gThreadCount \in 0 .. MaxThreads
  /\ handler \in [Threads -> HandlerPcs]
  /\ toNeedToStop \in [Threads -> 1 .. StopPoll]
  /\ noFrameCnt \in [Threads -> Nat]
  /\ sending \in [Threads -> Nat]
  /\ needToStop \in BOOLEAN
  /\ mainPc \in {"accept", "join", "waitClients", "exited"}
  /\ producer \in BOOLEAN
  /\ consumer \in {"idle", "encoded", "ended"}
  /\ frameNr \in Nat

(* The number of streams is the number of threads that are streaming, even *)
(* though decStreamingClientCount counts down without finding a slot: no   *)
(* history of connections makes the server run out of streams for good or  *)
(* grant more than MaxStreaming.                                           *)
StreamCountExact == runningStreamsCount = Cardinality(Streaming)

(* Every active slot belongs to a thread that is still streaming, and no   *)
(* thread owns two: a slot, with the queue it points to, is never left     *)
(* behind by a thread that ended.                                          *)
SlotsOwnedByStreamers ==
  /\ \A x \in SlotIx : frameQueues[x].isActive =>
       frameQueues[x].cltThrIx \in Streaming
  /\ \A x, y \in SlotIx :
       /\ frameQueues[x].isActive /\ frameQueues[y].isActive
       /\ frameQueues[x].cltThrIx = frameQueues[y].cltThrIx
       => x = y

(* The number of running handlers is never above the number of threads     *)
(* that have registered and have not removed themselves, so that a client  *)
(* is never turned away, and shutdown never waits, for a handler that is   *)
(* gone.                                                                   *)
HandlersNeverOvercounted ==
  runningHandlersCount <= Cardinality(Registered)

(* A client's stream never shows a frame twice or goes back to an older    *)
(* frame, whatever happens to its slot.                                    *)
FramesInOrder ==
  [][\A t \in Threads : handler'[t] = "send" /\ handler[t] = "poll"
                           => sending'[t] > sending[t]]_vars

(* Once the stop flag is set, the main thread comes to an end: the workers *)
(* stop, every counted handler sees the flag and leaves, and the count     *)
(* reaches zero.                                                           *)
StopEndsServer == needToStop ~> ~Running

(* A stream that has lost its slot to another client does not poll for     *)
(* ever: its thread ends (or the process does).                            *)
LostStreamEnds ==
  \A t \in Threads :
    (handler[t] = "poll" /\ SlotsOf(t) = {}) ~> (handler[t] = "done" \/ ~Running)

(* settings.hpp: "Maximum allowed amount of concurrent clients for         *)
(* Webserver".                                                             *)
ClientsBounded == Cardinality(Serving) <= MaxClients

(* README.md: "support for multiple simultaneous HTTP and streaming        *)
(* clients": a client that is being streamed to has a frame queue.         *)
StreamersHaveQueues ==
  \A t \in Streaming : SlotsOf(t) # {}
=============================================================================

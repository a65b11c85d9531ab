--------------------------- MODULE FrameQueueJpeg ---------------------------
(***************************************************************************)
(* The JPEG frame queue of one streaming client (class FrameQueue and its  *)
(* subclass FrameQueueJpeg): a ring buffer of Size entries that the frame  *)
(* consumer thread appends to and the client's handler thread reads from.  *)
(* Every method holds the queue's mutex from its first to its last access  *)
(* of the ring, so every method is one action.                             *)
(*                                                                         *)
(* The k-th appended frame is identified by the number k; of its bytes     *)
(* only the length is kept.  The reader's copy buffer (pData, dataRsvdSz)  *)
(* belongs to ClientHandler::startStreaming and survives between calls.    *)
(***************************************************************************)
EXTENDS Naturals, Sequences

CONSTANTS
  Size,        \* IF_QUEUE_SIZE
  FrameSizes,  \* lengths of the encoded frames
  InitSz,      \* bytes reserved by every entry and by the reader at first
  Slack,       \* extra bytes reserved by the reader's first malloc
  MaxFrames    \* bound: how many frames are appended

ASSUME QueueAssumption ==
  /\ Size \in Nat \ {0}
  /\ FrameSizes \subseteq Nat
  /\ InitSz \in Nat \ {0}
  /\ Slack \in Nat
  /\ MaxFrames \in Nat

VARIABLES
  gCountInBuf,     \* entries in use
  gIxToStore,      \* the entry the next frame is stored in
  gIxToOutput,     \* the entry the next frame is read from
  gDroppedFrames,  \* frames overwritten before they were read
  gEntries,        \* number and length (gEntriesUsedSz) of an entry's frame
  gEntriesRsvdSz,  \* bytes reserved by each entry
  pData,           \* does the reader own a copy buffer?
  dataRsvdSz,      \* bytes the reader believes its buffer has
  appended,        \* history: frames appended so far
  output,          \* history: the frame last copied to the reader
  delivered,       \* history: frames copied to the reader
  discarded        \* history: frames consumed without a copy

ring == <<gCountInBuf, gIxToStore, gIxToOutput, gDroppedFrames, gEntries,
          gEntriesRsvdSz>>
reader == <<pData, dataRsvdSz, output, delivered, discarded>>
vars == <<ring, reader, appended>>

Ix == 0 .. Size - 1

NoFrame == [n |-> 0, sz |-> 0]

Frame == [n : Nat, sz : Nat]

(* Mutant of Advance: the wrap comes one entry early.                      *)
AdvanceWrapsEarly(ix) == IF ix + 1 >= Size - 1 THEN 0 ELSE ix + 1

(* Advancing an index of the ring, with the wrap to 0 at Size.             *)
Advance(ix) == IF ix + 1 = Size THEN 0 ELSE ix + 1
-----------------------------------------------------------------------------
Init ==
  /\ gCountInBuf = 0
  /\ gIxToStore = 0
  /\ gIxToOutput = 0
  /\ gDroppedFrames = 0
  /\ gEntries = [ix \in Ix |-> NoFrame]
  /\ gEntriesRsvdSz = [ix \in Ix |-> InitSz]
  /\ pData = TRUE
  /\ dataRsvdSz = InitSz
  /\ appended = 0
  /\ output = 0
  /\ delivered = 0
  /\ discarded = 0

IsFull == gCountInBuf = Size

(* Mutants of DroppedAfterAppend: the drop of the oldest frame is not      *)
(* counted, or counted one entry early.                                    *)
DroppedAfterAppendUncounted == gDroppedFrames
DroppedAfterAppendEarly ==
  IF gCountInBuf + 1 >= Size THEN gDroppedFrames + 1 ELSE gDroppedFrames

(* When the ring is full an append drops the oldest frame by moving the    *)
(* output index past it.                                                   *)
OutputAfterAppend == IF IsFull THEN Advance(gIxToOutput) ELSE gIxToOutput

DroppedAfterAppend == IF IsFull THEN gDroppedFrames + 1 ELSE gDroppedFrames

CountAfterAppend == IF IsFull THEN Size ELSE gCountInBuf + 1

(* Mutant of Grown: the entry keeps its size.                              *)
GrownNot(rsvdSz, dataSz) == rsvdSz

(* An entry is reallocated when it is too small; it never shrinks.         *)
Grown(rsvdSz, dataSz) == IF dataSz > rsvdSz THEN dataSz ELSE rsvdSz

appendFrameToQueueBytes(dataSz) ==
  /\ appended < MaxFrames
  /\ gDroppedFrames' = DroppedAfterAppend
  /\ gIxToOutput' = OutputAfterAppend
  /\ gEntriesRsvdSz' = [gEntriesRsvdSz EXCEPT ![gIxToStore] = Grown(@, dataSz)]
  /\ gEntries' = [gEntries EXCEPT ![gIxToStore] =
                    [n |-> appended + 1, sz |-> dataSz]]
  /\ gIxToStore' = Advance(gIxToStore)
  /\ gCountInBuf' = CountAfterAppend
  /\ appended' = appended + 1
  /\ UNCHANGED reader

(* The reader's buffer has to be allocated or to grow for entrySz bytes.   *)
MustAllocate(entrySz) == dataRsvdSz = 0 \/ entrySz > dataRsvdSz

(* Mutant of ReservedFor: the size is not recorded after a realloc.        *)
ReservedForStale(entrySz) == dataRsvdSz

(* The size recorded for the reader's buffer, whether or not the           *)
(* allocation succeeds.                                                    *)
ReservedFor(entrySz) ==
  IF dataRsvdSz = 0 THEN entrySz + Slack ELSE Grown(dataRsvdSz, entrySz)

(* Whether the reader has a buffer to copy entrySz bytes into; allocOk is  *)
(* the outcome of malloc or realloc when one of them is called.            *)
HasBuffer(entrySz, allocOk) ==
  IF MustAllocate(entrySz) THEN allocOk ELSE pData

(* The oldest frame is copied to the reader, or lost when the reader has   *)
(* no buffer; either way its entry is released.                            *)
getFrameFromQueue(allocOk) ==
  LET entry == gEntries[gIxToOutput] IN
  /\ gCountInBuf # 0
  /\ dataRsvdSz' = ReservedFor(entry.sz)
  /\ pData' = HasBuffer(entry.sz, allocOk)
  /\ IF pData'
       THEN /\ output' = entry.n
            /\ delivered' = delivered + 1
            /\ UNCHANGED discarded
       ELSE /\ discarded' = discarded + 1
            /\ UNCHANGED <<output, delivered>>
  /\ gIxToOutput' = Advance(gIxToOutput)
  /\ gCountInBuf' = gCountInBuf - 1
  /\ UNCHANGED <<gIxToStore, gDroppedFrames, gEntries, gEntriesRsvdSz, appended>>

Next ==
  \/ \E dataSz \in FrameSizes : appendFrameToQueueBytes(dataSz)
  \/ \E allocOk \in BOOLEAN : getFrameFromQueue(allocOk)

Spec == Init /\ [][Next]_vars
-----------------------------------------------------------------------------
(* Every variable of the ring and of its reader has its type.              *)
TypeOK ==
  /\ gCountInBuf \in 0 .. Size
  /\ gIxToStore \in Ix
  /\ gIxToOutput \in Ix
  /\ gDroppedFrames \in Nat
  /\ gEntries \in [Ix -> Frame]
  /\ gEntriesRsvdSz \in [Ix -> Nat]
  /\ pData \in BOOLEAN
  /\ dataRsvdSz \in Nat
  /\ appended \in Nat
  /\ output \in Nat
  /\ delivered \in Nat
  /\ discarded \in Nat

(* The entry that is i places behind the output index.                     *)
EntryAt(i) == IF gIxToOutput + i >= Size THEN gIxToOutput + i - Size
                                         ELSE gIxToOutput + i

(* The store index is always gCountInBuf places ahead of the output index: *)
(* appending to a full ring moves both indices, and no sequence of appends *)
(* and reads lets them drift apart.                                        *)
IndicesAgree == gIxToStore = EntryAt(gCountInBuf)

(* The ring holds exactly the gCountInBuf frames appended last, in the     *)
(* order they were appended: a slow reader misses the oldest frames and    *)
(* never a newer one while an older one is kept.                           *)
HoldsNewestInOrder ==
  \A i \in 0 .. gCountInBuf - 1 :
    gEntries[EntryAt(i)].n = appended - gCountInBuf + 1 + i

(* Every appended frame is delivered, discarded, dropped (and counted as   *)
(* dropped) or still in the ring: none is counted twice, none vanishes.    *)
EveryFrameAccounted ==
  appended = delivered + discarded + gDroppedFrames + gCountInBuf

(* A frame in the ring fits into the bytes its entry has reserved.         *)
EntriesFit ==
  \A ix \in Ix : gEntries[ix].sz <= gEntriesRsvdSz[ix]

(* A frame is consumed without being delivered only after the reader       *)
(* failed to grow its buffer, which its reserved size then records.        *)
DiscardedOnlyAfterGrowth ==
  (discarded > 0 \/ ~pData) => dataRsvdSz > InitSz

(* The reader sees frames in the order they were appended: a frame is      *)
(* never delivered a second time or after a newer one.                     *)
DeliveredInOrder == [][delivered' # delivered => output' > output]_vars

(* The frames in the ring, oldest first.                                   *)
Contents == [i \in 1 .. gCountInBuf |-> gEntries[EntryAt(i - 1)].n]

Queue == INSTANCE BoundedQueue WITH
           Item <- 1 .. MaxFrames, queue <- Contents,
           dropped <- gDroppedFrames, taken <- output

(* The ring buffer implements the bounded queue that drops its oldest: in  *)
(* every state its frames are the abstract queue, and every append and     *)
(* every read is a Put, a Take or a Discard of that queue.                 *)
ImplementsBoundedQueue == Queue!Spec
=============================================================================

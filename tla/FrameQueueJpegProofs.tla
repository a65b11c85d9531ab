------------------------ MODULE FrameQueueJpegProofs ------------------------
(***************************************************************************)
(* Proofs about the JPEG frame queue, for every ring size, every set of    *)
(* frame lengths and every number of appended frames.                      *)
(***************************************************************************)
EXTENDS FrameQueueJpeg, Integers, SequenceTheorems, TLAPS

(* Advancing stays inside the ring.                                        *)
LEMMA AdvanceInRing ==
  ASSUME NEW ix \in Ix
  PROVE  Advance(ix) \in Ix
BY QueueAssumption DEF Ix, Advance

(* Type correctness: the indices of the ring never leave it and its count  *)
(* never exceeds its size or falls below zero.                             *)
THEOREM TypeCorrect == Spec => []TypeOK
<1>1. Init => TypeOK
  BY QueueAssumption DEF Init, TypeOK, Ix, Frame, NoFrame
<1>2. TypeOK /\ [Next]_vars => TypeOK'
  <2> SUFFICES ASSUME TypeOK, [Next]_vars
               PROVE  TypeOK'
    OBVIOUS
  <2> USE QueueAssumption DEF TypeOK
  <2>1. ASSUME NEW dataSz \in FrameSizes, appendFrameToQueueBytes(dataSz)
        PROVE  TypeOK'
    <3>1. gIxToStore' \in Ix /\ gIxToOutput' \in Ix
      BY <2>1, AdvanceInRing DEF appendFrameToQueueBytes, OutputAfterAppend
    <3>2. gCountInBuf' \in 0 .. Size /\ gDroppedFrames' \in Nat
      BY <2>1 DEF appendFrameToQueueBytes, CountAfterAppend,
                  DroppedAfterAppend, IsFull
    <3>3. gEntries' \in [Ix -> Frame]
      BY <2>1 DEF appendFrameToQueueBytes, Frame
    <3>4. gEntriesRsvdSz' \in [Ix -> Nat]
      BY <2>1 DEF appendFrameToQueueBytes, Grown
    <3>5. QED
      BY <2>1, <3>1, <3>2, <3>3, <3>4 DEF appendFrameToQueueBytes, reader
  <2>2. ASSUME NEW allocOk \in BOOLEAN, getFrameFromQueue(allocOk)
        PROVE  TypeOK'
    <3>1. gEntries[gIxToOutput] \in Frame
      OBVIOUS
    <3>2. dataRsvdSz' \in Nat /\ pData' \in BOOLEAN
      BY <2>2, <3>1 DEF getFrameFromQueue, ReservedFor, Grown, HasBuffer, Frame
    <3>3. output' \in Nat /\ delivered' \in Nat /\ discarded' \in Nat
      BY <2>2, <3>1 DEF getFrameFromQueue, Frame
    <3>4. gIxToOutput' \in Ix /\ gCountInBuf' \in 0 .. Size
      BY <2>2, AdvanceInRing DEF getFrameFromQueue
    <3>5. QED
      BY <2>2, <3>2, <3>3, <3>4 DEF getFrameFromQueue
  <2>3. CASE UNCHANGED vars
    BY <2>3 DEF vars, ring, reader
  <2>4. QED
    BY <2>1, <2>2, <2>3 DEF Next
<1>3. QED
  BY <1>1, <1>2, PTL DEF Spec
-----------------------------------------------------------------------------
(* The bound on frames the reader has seen: all of them were appended      *)
(* before the frames that are still in the ring.                           *)
OutputBehindRing == output <= appended - gCountInBuf

(* The order of the frames is inductive only together with the distance of *)
(* the two indices, which places the new frame directly behind the others. *)
OrderInv ==
  /\ TypeOK
  /\ IndicesAgree
  /\ HoldsNewestInOrder
  /\ OutputBehindRing

(* The empty ring satisfies the invariant.                                 *)
LEMMA OrderInvInit == Init => OrderInv
BY QueueAssumption DEF Init, OrderInv, TypeOK, Ix, Frame, NoFrame, IndicesAgree,
     EntryAt, HoldsNewestInOrder, OutputBehindRing

(* A frame appended to a ring with room goes behind the frames it holds.   *)
LEMMA AppendWithRoom ==
  ASSUME OrderInv, NEW dataSz \in FrameSizes,
         appendFrameToQueueBytes(dataSz), ~IsFull
  PROVE  IndicesAgree' /\ HoldsNewestInOrder' /\ OutputBehindRing'
<1>1. /\ Size \in Nat /\ Size > 0
      /\ gCountInBuf \in 0 .. Size
      /\ gIxToStore \in 0 .. Size - 1
      /\ gIxToOutput \in 0 .. Size - 1
      /\ appended \in Nat
      /\ output \in Nat
      /\ gEntries \in [0 .. Size - 1 -> Frame]
      /\ IndicesAgree /\ HoldsNewestInOrder /\ OutputBehindRing
  BY QueueAssumption DEF OrderInv, TypeOK, Ix
<1>2. /\ gIxToOutput' = gIxToOutput
      /\ gIxToStore' = Advance(gIxToStore)
      /\ gCountInBuf' = gCountInBuf + 1
      /\ gCountInBuf < Size
      /\ appended' = appended + 1
      /\ output' = output
  BY <1>1 DEF appendFrameToQueueBytes, OutputAfterAppend, CountAfterAppend,
              IsFull, reader
<1>3. IndicesAgree'
  BY <1>1, <1>2 DEF IndicesAgree, EntryAt, Advance
<1>4. HoldsNewestInOrder'
  <2>1. \A i \in 0 .. gCountInBuf : EntryAt(i)' = EntryAt(i)
    BY <1>2 DEF EntryAt
  <2>2. gEntries'[gIxToStore].n = appended + 1
    BY <1>1 DEF appendFrameToQueueBytes
  <2>3. ASSUME NEW i \in 0 .. gCountInBuf - 1
        PROVE  gEntries'[EntryAt(i)].n = appended - gCountInBuf + 1 + i
    <3>1. EntryAt(i) # gIxToStore /\ EntryAt(i) \in 0 .. Size - 1
      BY <1>1, <1>2 DEF IndicesAgree, EntryAt
    <3>2. gEntries'[EntryAt(i)] = gEntries[EntryAt(i)]
      BY <1>1, <3>1 DEF appendFrameToQueueBytes
    <3>3. QED
      BY <1>1, <3>2 DEF HoldsNewestInOrder
  <2>4. ASSUME NEW i \in 0 .. gCountInBuf
        PROVE  gEntries'[EntryAt(i)'].n
                 = (appended + 1) - (gCountInBuf + 1) + 1 + i
    <3>1. CASE i = gCountInBuf
      BY <1>1, <2>1, <2>2, <3>1 DEF IndicesAgree
    <3>2. CASE i # gCountInBuf
      BY <1>1, <2>1, <2>3, <3>2
    <3>3. QED
      BY <3>1, <3>2
  <2>5. QED
    BY <1>1, <1>2, <2>4 DEF HoldsNewestInOrder
<1>5. OutputBehindRing'
  BY <1>1, <1>2 DEF OutputBehindRing
<1>6. QED
  BY <1>3, <1>4, <1>5

(* A frame appended to a full ring replaces the oldest one.                *)
LEMMA AppendDropsOldest ==
  ASSUME OrderInv, NEW dataSz \in FrameSizes,
         appendFrameToQueueBytes(dataSz), IsFull
  PROVE  IndicesAgree' /\ HoldsNewestInOrder' /\ OutputBehindRing'
<1>1. /\ Size \in Nat /\ Size > 0
      /\ gCountInBuf \in 0 .. Size
      /\ gIxToStore \in 0 .. Size - 1
      /\ gIxToOutput \in 0 .. Size - 1
      /\ appended \in Nat
      /\ output \in Nat
      /\ gEntries \in [0 .. Size - 1 -> Frame]
      /\ IndicesAgree /\ HoldsNewestInOrder /\ OutputBehindRing
  BY QueueAssumption DEF OrderInv, TypeOK, Ix
<1>2. /\ gIxToOutput' = Advance(gIxToOutput)
      /\ gIxToStore' = Advance(gIxToStore)
      /\ gIxToStore = gIxToOutput
      /\ gCountInBuf' = Size /\ gCountInBuf = Size
      /\ appended' = appended + 1
      /\ output' = output
  BY <1>1 DEF appendFrameToQueueBytes, OutputAfterAppend, CountAfterAppend,
              IsFull, reader, IndicesAgree, EntryAt
<1>3. IndicesAgree'
  BY <1>1, <1>2 DEF IndicesAgree, EntryAt, Advance
<1>4. HoldsNewestInOrder'
  <2>1. EntryAt(Size - 1)' = gIxToStore
    BY <1>1, <1>2 DEF EntryAt, Advance
  <2>2. gEntries'[gIxToStore].n = appended + 1
    BY <1>1 DEF appendFrameToQueueBytes
  <2>3. ASSUME NEW i \in 0 .. Size - 2
        PROVE  gEntries'[EntryAt(i)'].n = appended - Size + 1 + (i + 1)
    <3>1. EntryAt(i)' = EntryAt(i + 1)
      BY <1>1, <1>2 DEF EntryAt, Advance
    <3>2. EntryAt(i + 1) # gIxToStore /\ EntryAt(i + 1) \in 0 .. Size - 1
      BY <1>1, <1>2 DEF EntryAt
    <3>3. gEntries'[EntryAt(i + 1)] = gEntries[EntryAt(i + 1)]
      BY <1>1, <3>2 DEF appendFrameToQueueBytes
    <3>4. gEntries[EntryAt(i + 1)].n = appended - Size + 1 + (i + 1)
      BY <1>1, <1>2 DEF HoldsNewestInOrder
    <3>5. QED
      BY <3>1, <3>3, <3>4
  <2>4. ASSUME NEW i \in 0 .. Size - 1
        PROVE  gEntries'[EntryAt(i)'].n = (appended + 1) - Size + 1 + i
    <3>1. CASE i = Size - 1
      BY <1>1, <2>1, <2>2, <3>1
    <3>2. CASE i # Size - 1
      BY <1>1, <2>3, <3>2
    <3>3. QED
      BY <3>1, <3>2
  <2>5. QED
    BY <1>1, <1>2, <2>4 DEF HoldsNewestInOrder
<1>5. OutputBehindRing'
  BY <1>1, <1>2 DEF OutputBehindRing
<1>6. QED
  BY <1>3, <1>4, <1>5

(* Reading takes the oldest frame, which is newer than all taken before.   *)
LEMMA GetTakesOldest ==
  ASSUME OrderInv, NEW allocOk \in BOOLEAN, getFrameFromQueue(allocOk)
  PROVE  /\ IndicesAgree' /\ HoldsNewestInOrder' /\ OutputBehindRing'
         /\ delivered' # delivered => output' > output
<1>1. /\ Size \in Nat /\ Size > 0
      /\ gCountInBuf \in 0 .. Size
      /\ gIxToStore \in 0 .. Size - 1
      /\ gIxToOutput \in 0 .. Size - 1
      /\ appended \in Nat
      /\ output \in Nat
      /\ gEntries \in [0 .. Size - 1 -> Frame]
      /\ IndicesAgree /\ HoldsNewestInOrder /\ OutputBehindRing
  BY QueueAssumption DEF OrderInv, TypeOK, Ix
<1>2. /\ gIxToOutput' = Advance(gIxToOutput)
      /\ gCountInBuf' = gCountInBuf - 1
      /\ gCountInBuf > 0
      /\ gIxToStore' = gIxToStore
      /\ gEntries' = gEntries
      /\ appended' = appended
      /\ \/ output' = output /\ delivered' = delivered
         \/ output' = gEntries[gIxToOutput].n
  BY <1>1 DEF getFrameFromQueue
<1>3. gEntries[gIxToOutput].n = appended - gCountInBuf + 1
  <2>1. EntryAt(0) = gIxToOutput /\ 0 \in 0 .. gCountInBuf - 1
    BY <1>1, <1>2 DEF EntryAt
  <2>2. gEntries[EntryAt(0)].n = appended - gCountInBuf + 1 + 0
    BY <1>1, <2>1 DEF HoldsNewestInOrder
  <2>3. QED
    BY <1>1, <2>1, <2>2
<1>4. \A i \in 0 .. Size - 1 : EntryAt(i)' = EntryAt(i + 1)
  BY <1>1, <1>2 DEF EntryAt, Advance
<1>5. IndicesAgree'
  BY <1>1, <1>2 DEF IndicesAgree, EntryAt, Advance
<1>6. HoldsNewestInOrder'
  <2>1. ASSUME NEW i \in 0 .. gCountInBuf - 2
        PROVE  gEntries[EntryAt(i)'].n = appended - (gCountInBuf - 1) + 1 + i
    <3>1. EntryAt(i)' = EntryAt(i + 1) /\ i + 1 \in 0 .. gCountInBuf - 1
      BY <1>1, <1>2, <1>4
    <3>2. gEntries[EntryAt(i + 1)].n = appended - gCountInBuf + 1 + (i + 1)
      BY <1>1, <3>1 DEF HoldsNewestInOrder
    <3>3. QED
      BY <1>1, <3>1, <3>2
  <2>2. QED
    BY <1>1, <1>2, <2>1 DEF HoldsNewestInOrder
<1>7. OutputBehindRing'
  BY <1>1, <1>2, <1>3 DEF OutputBehindRing
<1>8. delivered' # delivered => output' > output
  BY <1>1, <1>2, <1>3 DEF OutputBehindRing
<1>9. QED
  BY <1>5, <1>6, <1>7, <1>8

(* No operation of the queue can leave the invariant.                      *)
LEMMA OrderInvInductive == TypeOK' /\ OrderInv /\ [Next]_vars => OrderInv'
<1> SUFFICES ASSUME TypeOK', OrderInv, [Next]_vars
             PROVE  OrderInv'
  OBVIOUS
<1>1. ASSUME NEW dataSz \in FrameSizes, appendFrameToQueueBytes(dataSz)
      PROVE  OrderInv'
  <2>1. CASE IsFull
    BY <1>1, <2>1, AppendDropsOldest DEF OrderInv
  <2>2. CASE ~IsFull
    BY <1>1, <2>2, AppendWithRoom DEF OrderInv
  <2>3. QED
    BY <2>1, <2>2
<1>2. ASSUME NEW allocOk \in BOOLEAN, getFrameFromQueue(allocOk)
      PROVE  OrderInv'
  BY <1>2, GetTakesOldest DEF OrderInv
<1>3. CASE UNCHANGED vars
  BY <1>3 DEF vars, ring, reader, OrderInv, IndicesAgree, EntryAt,
              HoldsNewestInOrder, OutputBehindRing
<1>4. QED
  BY <1>1, <1>2, <1>3 DEF Next

(* The inductive invariant about the order holds in every reachable state. *)
THEOREM OrderInvAlways == Spec => []OrderInv
BY OrderInvInit, OrderInvInductive, TypeCorrect, PTL DEF Spec

(* The ring holds the newest frames, in order, in every reachable state.   *)
THEOREM NewestInOrder == Spec => [](IndicesAgree /\ HoldsNewestInOrder)
<1>1. OrderInv => IndicesAgree /\ HoldsNewestInOrder
  BY DEF OrderInv
<1>2. QED
  BY <1>1, OrderInvAlways, PTL

(* No read of any behaviour delivers a frame twice or out of order.        *)
THEOREM DeliveryOrder == Spec => DeliveredInOrder
<1>1. OrderInv /\ [Next]_vars =>
        [delivered' # delivered => output' > output]_vars
  <2> SUFFICES ASSUME OrderInv, Next
               PROVE  delivered' # delivered => output' > output
    OBVIOUS
  <2>1. ASSUME NEW dataSz \in FrameSizes, appendFrameToQueueBytes(dataSz)
        PROVE  delivered' = delivered
    BY <2>1 DEF appendFrameToQueueBytes, reader
  <2>2. ASSUME NEW allocOk \in BOOLEAN, getFrameFromQueue(allocOk)
        PROVE  delivered' # delivered => output' > output
    BY <2>2, GetTakesOldest
  <2>3. QED
    BY <2>1, <2>2 DEF Next
<1>2. QED
  BY <1>1, OrderInvAlways, PTL DEF Spec, DeliveredInOrder
-----------------------------------------------------------------------------
(* The accounting, the capacity of the entries and the cause of a discard  *)
(* do not depend on the order of the frames.                               *)
StorageInv ==
  /\ EveryFrameAccounted
  /\ EntriesFit
  /\ DiscardedOnlyAfterGrowth
  /\ dataRsvdSz >= InitSz

(* An empty ring has lost nothing and reserved what it starts with.        *)
LEMMA StorageInvInit == Init => StorageInv
BY QueueAssumption DEF Init, StorageInv, EveryFrameAccounted, EntriesFit,
     DiscardedOnlyAfterGrowth, NoFrame

(* Appending counts the frame it drops and grows the entry if it must.     *)
LEMMA AppendKeepsStorage ==
  ASSUME TypeOK, StorageInv, NEW dataSz \in FrameSizes,
         appendFrameToQueueBytes(dataSz)
  PROVE  StorageInv'
<1>1. dataSz \in Nat
  BY QueueAssumption
<1>2. EveryFrameAccounted'
  BY QueueAssumption DEF TypeOK, StorageInv, EveryFrameAccounted, IsFull,
     appendFrameToQueueBytes, DroppedAfterAppend, CountAfterAppend, reader
<1>3. EntriesFit'
  <2> SUFFICES ASSUME NEW ix \in Ix
               PROVE  gEntries'[ix].sz <= gEntriesRsvdSz'[ix]
    BY DEF EntriesFit
  <2>1. gEntries \in [Ix -> Frame] /\ gEntriesRsvdSz \in [Ix -> Nat]
        /\ gEntries[ix].sz <= gEntriesRsvdSz[ix]
    BY DEF TypeOK, StorageInv, EntriesFit
  <2>2. CASE ix = gIxToStore
    BY <1>1, <2>1, <2>2 DEF appendFrameToQueueBytes, Grown
  <2>3. CASE ix # gIxToStore
    BY <2>1, <2>3 DEF appendFrameToQueueBytes
  <2>4. QED
    BY <2>2, <2>3
<1>4. (DiscardedOnlyAfterGrowth /\ dataRsvdSz >= InitSz)'
  BY DEF appendFrameToQueueBytes, StorageInv, DiscardedOnlyAfterGrowth, reader
<1>5. QED
  BY <1>2, <1>3, <1>4 DEF StorageInv

(* Reading delivers the frame, or discards it when the entry cannot grow.  *)
LEMMA GetKeepsStorage ==
  ASSUME TypeOK, StorageInv, NEW allocOk \in BOOLEAN, getFrameFromQueue(allocOk)
  PROVE  StorageInv'
<1>1. EveryFrameAccounted'
  BY QueueAssumption DEF TypeOK, StorageInv, EveryFrameAccounted,
     getFrameFromQueue
<1>2. EntriesFit'
  BY DEF StorageInv, EntriesFit, getFrameFromQueue
<1>3. (DiscardedOnlyAfterGrowth /\ dataRsvdSz >= InitSz)'
  <2>1. gEntries[gIxToOutput].sz \in Nat
    BY DEF TypeOK, Frame
  <2>2. dataRsvdSz \in Nat /\ dataRsvdSz >= InitSz /\ InitSz \in Nat \ {0}
        /\ discarded \in Nat /\ DiscardedOnlyAfterGrowth
    BY QueueAssumption DEF TypeOK, StorageInv
  <2>3. dataRsvdSz' = Grown(dataRsvdSz, gEntries[gIxToOutput].sz)
    BY <2>2 DEF getFrameFromQueue, ReservedFor
  <2>4. CASE gEntries[gIxToOutput].sz > dataRsvdSz
    BY <2>1, <2>2, <2>3, <2>4 DEF Grown, DiscardedOnlyAfterGrowth
  <2>5. CASE ~(gEntries[gIxToOutput].sz > dataRsvdSz)
    <3>1. dataRsvdSz' = dataRsvdSz /\ pData' = pData
      BY <2>2, <2>3, <2>5 DEF getFrameFromQueue, Grown, HasBuffer, MustAllocate
    <3>2. pData => discarded' = discarded
      BY <3>1 DEF getFrameFromQueue
    <3>3. QED
      BY <2>2, <3>1, <3>2 DEF DiscardedOnlyAfterGrowth
  <2>6. QED
    BY <2>4, <2>5
<1>4. QED
  BY <1>1, <1>2, <1>3 DEF StorageInv

(* No frame vanishes uncounted, no copy overruns an entry, and only a      *)
(* failed allocation loses a frame on its way out.                         *)
THEOREM StorageCorrect ==
  Spec => [](EveryFrameAccounted /\ EntriesFit /\ DiscardedOnlyAfterGrowth)
<1>1. TypeOK /\ StorageInv /\ [Next]_vars => StorageInv'
  <2> SUFFICES ASSUME TypeOK, StorageInv, [Next]_vars
               PROVE  StorageInv'
    OBVIOUS
  <2>1. CASE UNCHANGED vars
    BY <2>1 DEF vars, ring, reader, StorageInv, EveryFrameAccounted,
                EntriesFit, DiscardedOnlyAfterGrowth
  <2>2. QED
    BY <2>1, AppendKeepsStorage, GetKeepsStorage DEF Next
<1>2. StorageInv => EveryFrameAccounted /\ EntriesFit /\ DiscardedOnlyAfterGrowth
  BY DEF StorageInv
<1>3. QED
  BY <1>1, <1>2, StorageInvInit, TypeCorrect, PTL DEF Spec

(* No frame is copied into an entry that is too small for it.              *)
THEOREM StoredFramesFit == Spec => []EntriesFit
BY StorageCorrect, PTL

(* Only a buffer of the reader that could not grow loses a frame that was  *)
(* already taken from the ring.                                            *)
THEOREM DiscardsExplained == Spec => []DiscardedOnlyAfterGrowth
BY StorageCorrect, PTL
-----------------------------------------------------------------------------
(* The numbers of the last c of a frames, oldest first.                    *)
Window(a, c) == [i \in 1 .. c |-> a - c + i]

(* A window is a sequence of numbers of the given length.                  *)
LEMMA WindowIsSeq ==
  ASSUME NEW a \in Nat, NEW c \in Nat
  PROVE  /\ Window(a, c) \in Seq(Int)
         /\ Len(Window(a, c)) = c
         /\ \A i \in 1 .. c : Window(a, c)[i] = a - c + i
BY DEF Window

(* Appending number a + 1 to the last c of a frames.                       *)
LEMMA WindowAppend ==
  ASSUME NEW a \in Nat, NEW c \in Nat
  PROVE  Append(Window(a, c), a + 1) = Window(a + 1, c + 1)
<1> DEFINE s == Append(Window(a, c), a + 1)
           t == Window(a + 1, c + 1)
<1>1. /\ s \in Seq(Int) /\ Len(s) = c + 1
      /\ \A i \in 1 .. c : s[i] = a - c + i
      /\ s[c + 1] = a + 1
  <2> DEFINE w == Window(a, c)
  <2>1. /\ w \in Seq(Int) /\ Len(w) = c
        /\ \A i \in 1 .. c : w[i] = a - c + i
    BY WindowIsSeq
  <2>2. a + 1 \in Int
    OBVIOUS
  <2> HIDE DEF w
  <2>3. /\ Append(w, a + 1) \in Seq(Int)
        /\ Len(Append(w, a + 1)) = Len(w) + 1
        /\ \A i \in 1 .. Len(w) : Append(w, a + 1)[i] = w[i]
        /\ Append(w, a + 1)[Len(w) + 1] = a + 1
    BY <2>1, <2>2, AppendProperties
  <2>4. QED
    BY <2>1, <2>3 DEF w
<1>2. /\ t \in Seq(Int) /\ Len(t) = c + 1
      /\ \A i \in 1 .. c + 1 : t[i] = (a + 1) - (c + 1) + i
  BY WindowIsSeq
<1>3. ASSUME NEW i \in 1 .. Len(s)
      PROVE  s[i] = t[i]
  <2>1. CASE i = c + 1
    BY <1>1, <1>2, <2>1
  <2>2. CASE i # c + 1
    BY <1>1, <1>2, <2>2
  <2>3. QED
    BY <2>1, <2>2
<1> HIDE DEF s, t
<1>4. s = t
  BY <1>1, <1>2, <1>3, SeqEqual
<1>5. QED
  BY <1>4 DEF s, t

(* Taking the oldest of the last c of a frames.                            *)
LEMMA WindowTail ==
  ASSUME NEW a \in Nat, NEW c \in Nat, c > 0
  PROVE  /\ Window(a, c) # <<>>
         /\ Head(Window(a, c)) = a - c + 1
         /\ Tail(Window(a, c)) = Window(a, c - 1)
<1> DEFINE w == Window(a, c)
           s == Tail(Window(a, c))
           t == Window(a, c - 1)
<1>1. /\ w \in Seq(Int) /\ Len(w) = c
      /\ \A i \in 1 .. c : w[i] = a - c + i
  BY WindowIsSeq
<1>2. w # <<>> /\ Head(w) = a - c + 1
  <2>1. w # <<>>
    BY <1>1, EmptySeq
  <2>2. QED
    BY <1>1, <2>1
<1>3. /\ s \in Seq(Int) /\ Len(s) = c - 1
      /\ \A i \in 1 .. c - 1 : s[i] = w[i + 1]
  BY <1>1, <1>2, HeadTailProperties
<1>4. /\ t \in Seq(Int) /\ Len(t) = c - 1
      /\ \A i \in 1 .. c - 1 : t[i] = a - (c - 1) + i
  BY WindowIsSeq
<1>5. ASSUME NEW i \in 1 .. Len(s)
      PROVE  s[i] = t[i]
  BY <1>1, <1>3, <1>4
<1> HIDE DEF s, t
<1>6. s = t
  BY <1>3, <1>4, <1>5, SeqEqual
<1>7. QED
  BY <1>2, <1>6 DEF s, t

(* The frames in the ring are the last gCountInBuf of all appended frames. *)
LEMMA ContentsAreWindow ==
  OrderInv => Contents = Window(appended, gCountInBuf)
<1> SUFFICES ASSUME OrderInv
             PROVE  Contents = Window(appended, gCountInBuf)
  OBVIOUS
<1>1. ASSUME NEW i \in 1 .. gCountInBuf
      PROVE  gEntries[EntryAt(i - 1)].n = appended - gCountInBuf + i
  <2>1. gCountInBuf \in Nat /\ appended \in Nat
    BY QueueAssumption DEF OrderInv, TypeOK
  <2>2. i - 1 \in 0 .. gCountInBuf - 1
    BY <2>1
  <2>3. gEntries[EntryAt(i - 1)].n = appended - gCountInBuf + 1 + (i - 1)
    BY <2>2 DEF OrderInv, HoldsNewestInOrder
  <2>4. QED
    BY <2>1, <2>3
<1>2. QED
  BY <1>1 DEF Contents, Window

(* An append is a Put of the abstract queue, dropping its oldest if full.  *)
LEMMA AppendIsPut ==
  ASSUME OrderInv, OrderInv', NEW dataSz \in FrameSizes,
         appendFrameToQueueBytes(dataSz)
  PROVE  Queue!Put(appended + 1) /\ appended + 1 \in 1 .. MaxFrames
<1>1. /\ appended \in Nat /\ gCountInBuf \in 0 .. Size
      /\ Size \in Nat /\ Size > 0 /\ gDroppedFrames \in Nat
  BY QueueAssumption DEF OrderInv, TypeOK
<1>2. /\ Contents = Window(appended, gCountInBuf)
      /\ (Contents = Window(appended, gCountInBuf))'
  BY ContentsAreWindow, PTL
<1>3. /\ appended' = appended + 1
      /\ output' = output
      /\ gCountInBuf' = IF gCountInBuf = Size THEN Size ELSE gCountInBuf + 1
      /\ gDroppedFrames' = IF gCountInBuf = Size THEN gDroppedFrames + 1
                                                 ELSE gDroppedFrames
  BY DEF appendFrameToQueueBytes, CountAfterAppend, DroppedAfterAppend, IsFull,
         reader
<1>4. Len(Contents) = gCountInBuf
  BY <1>1, <1>2, WindowIsSeq
<1>5. gCountInBuf \in Nat /\ Size - 1 \in Nat /\ (Size - 1) + 1 = Size
  BY <1>1
<1>6. ASSUME gCountInBuf = Size
      PROVE  Queue!Put(appended + 1)
  <2>1. Tail(Window(appended, Size)) = Window(appended, Size - 1)
    BY <1>1, WindowTail
  <2>2. Append(Window(appended, Size - 1), appended + 1)
          = Window(appended + 1, (Size - 1) + 1)
    BY <1>1, <1>5, WindowAppend
  <2>3. Contents' = Append(Tail(Contents), appended + 1)
    BY <1>2, <1>3, <1>5, <1>6, <2>1, <2>2 DEF Window
  <2>4. QED
    BY <1>3, <1>4, <1>6, <2>3 DEF Queue!Put, Queue!Enqueue, Queue!IsFull
<1>7. ASSUME gCountInBuf # Size
      PROVE  Queue!Put(appended + 1)
  <2>1. Append(Window(appended, gCountInBuf), appended + 1)
          = Window(appended + 1, gCountInBuf + 1)
    BY <1>1, <1>5, WindowAppend
  <2>2. Contents' = Append(Contents, appended + 1)
    BY <1>2, <1>3, <1>7, <2>1 DEF Window
  <2>3. QED
    BY <1>3, <1>4, <1>7, <2>2 DEF Queue!Put, Queue!Enqueue, Queue!IsFull
<1>8. appended + 1 \in 1 .. MaxFrames
  BY <1>1, QueueAssumption DEF appendFrameToQueueBytes
<1>9. QED
  BY <1>6, <1>7, <1>8

(* A read is a Take of the abstract queue, or a Discard without a buffer.  *)
LEMMA GetIsTakeOrDiscard ==
  ASSUME OrderInv, OrderInv', NEW allocOk \in BOOLEAN,
         getFrameFromQueue(allocOk)
  PROVE  Queue!Take \/ Queue!Discard
<1>1. /\ appended \in Nat /\ gCountInBuf \in Nat /\ gCountInBuf > 0
      /\ gIxToOutput \in 0 .. Size - 1 /\ Size \in Nat
  BY QueueAssumption DEF OrderInv, TypeOK, Ix, getFrameFromQueue
<1>2. /\ Contents = Window(appended, gCountInBuf)
      /\ (Contents = Window(appended, gCountInBuf))'
  BY ContentsAreWindow, PTL
<1>3. /\ Contents # <<>>
      /\ Head(Contents) = appended - gCountInBuf + 1
      /\ Tail(Contents) = Contents'
  <2>1. /\ Window(appended, gCountInBuf) # <<>>
        /\ Head(Window(appended, gCountInBuf)) = appended - gCountInBuf + 1
        /\ Tail(Window(appended, gCountInBuf)) = Window(appended, gCountInBuf - 1)
    BY <1>1, WindowTail
  <2>2. Contents' = Window(appended, gCountInBuf - 1)
    BY <1>2 DEF getFrameFromQueue, Window
  <2>3. QED
    BY <1>2, <2>1, <2>2
<1>4. gEntries[gIxToOutput].n = appended - gCountInBuf + 1
  <2>1. EntryAt(0) = gIxToOutput /\ 0 \in 0 .. gCountInBuf - 1
    BY <1>1 DEF EntryAt
  <2>2. gEntries[EntryAt(0)].n = appended - gCountInBuf + 1 + 0
    BY <2>1 DEF OrderInv, HoldsNewestInOrder
  <2>3. QED
    BY <1>1, <2>1, <2>2
<1>5. /\ gDroppedFrames' = gDroppedFrames
      /\ output' = gEntries[gIxToOutput].n \/ output' = output
  BY DEF getFrameFromQueue
<1>6. QED
  BY <1>3, <1>4, <1>5 DEF Queue!Take, Queue!Discard

(* The ring buffer implements the abstract queue: it starts empty and each *)
(* of its steps is a step of the abstract queue or leaves it unchanged.    *)
THEOREM Refinement == Spec => ImplementsBoundedQueue
<1>1. Init => Queue!Init
  <2> SUFFICES ASSUME Init
               PROVE  Queue!Init
    OBVIOUS
  <2>1. Contents = Window(0, 0)
    BY OrderInvInit, ContentsAreWindow DEF Init
  <2>2. Window(0, 0) = <<>>
    BY WindowIsSeq, EmptySeq
  <2>3. QED
    BY <2>1, <2>2 DEF Init, Queue!Init
<1>2. OrderInv /\ OrderInv' /\ [Next]_vars => [Queue!Next]_(Queue!vars)
  <2> SUFFICES ASSUME OrderInv, OrderInv', [Next]_vars
               PROVE  [Queue!Next]_(Queue!vars)
    OBVIOUS
  <2>1. ASSUME NEW dataSz \in FrameSizes, appendFrameToQueueBytes(dataSz)
        PROVE  Queue!Next
    BY <2>1, AppendIsPut DEF Queue!Next
  <2>2. ASSUME NEW allocOk \in BOOLEAN, getFrameFromQueue(allocOk)
        PROVE  Queue!Next
    BY <2>2, GetIsTakeOrDiscard DEF Queue!Next
  <2>3. CASE UNCHANGED vars
    BY <2>3 DEF vars, ring, reader, Queue!vars, Contents, EntryAt
  <2>4. QED
    BY <2>1, <2>2, <2>3 DEF Next
<1>3. QED
  BY <1>1, <1>2, OrderInvAlways, PTL
  DEF Spec, ImplementsBoundedQueue, Queue!Spec
=============================================================================

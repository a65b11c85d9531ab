------------------------- MODULE FrameQueueRawInput -------------------------
(***************************************************************************)
(* The ring buffer between the frame producer and the frame consumer       *)
(* (FrameQueueRawInput).  Every entry has room for one frame of each       *)
(* camera side; the two sides share one count and one pair of indices.     *)
(* Every operation runs under gThrMtx and is one step.  A frame is the     *)
(* number of the grab that it was taken with; 0 stands for an entry that   *)
(* was never written (gEntriesUsedSz = 0).  getFramesFromQueue copies no   *)
(* bytes: what it returns points into the entry.                           *)
(*                                                                         *)
(* gDroppedFrames is modelled in module FramerateControl, its only reader. *)
(***************************************************************************)
EXTENDS Naturals

CONSTANT QueueSize  \* IF_QUEUE_SIZE

ASSUME QueueSizeAssumption == QueueSize \in Nat \ {0}

VARIABLES
  gCountInBuf, gIxToStore, gIxToOutput,
  gThrVarHaveFrames,
  gPEntries  \* per side and entry, the frame stored there

rawQueue == <<gCountInBuf, gIxToStore, gIxToOutput, gThrVarHaveFrames, gPEntries>>

Sides == {"L", "R"}

Ix == 0 .. QueueSize - 1

Advanced(ix) == IF ix + 1 = QueueSize THEN 0 ELSE ix + 1

RawQueueInit ==
  /\ gCountInBuf = 0
  /\ gIxToStore = 0
  /\ gIxToOutput = 0
  /\ gThrVarHaveFrames = FALSE
  /\ gPEntries = [s \in Sides |-> [ix \in Ix |-> 0]]

IsFull == gCountInBuf = QueueSize

(* Mutant of OutputAfterAppend: a full queue keeps its oldest entry at the *)
(* output although that is the one that is written next.                   *)
OutputAfterAppendStays == gIxToOutput

(* A full queue gives up its oldest entry.                                 *)
OutputAfterAppend == IF IsFull THEN Advanced(gIxToOutput) ELSE gIxToOutput

(* Mutant of StoreAfterAppend: the next append stores into the same entry. *)
StoreAfterAppendStays == gIxToStore

StoreAfterAppend == Advanced(gIxToStore)

(* The frames of the sides that are given are stored; the other side of    *)
(* the entry keeps what it held.                                           *)
appendFramesToQueue(sides, frame) ==
  /\ gIxToOutput' = OutputAfterAppend
  /\ gPEntries' = [s \in Sides |->
       IF s \in sides THEN [gPEntries[s] EXCEPT ![gIxToStore] = frame[s]]
                      ELSE gPEntries[s]]
  /\ gIxToStore' = StoreAfterAppend
  /\ gCountInBuf' = IF IsFull THEN QueueSize ELSE gCountInBuf + 1
  /\ gThrVarHaveFrames' = TRUE

(* Mutant of FramesThere: entries that were never written are handed out.  *)
FramesThereUnchecked(sides) == gThrVarHaveFrames

(* Is there an entry, and was it written for all the sides asked for?      *)
FramesThere(sides) ==
  /\ gThrVarHaveFrames
  /\ \A s \in sides : gPEntries[s][gIxToOutput] # 0

(* The oldest entry is consumed, whether or not its frames were there.     *)
getFramesFromQueue ==
  IF gThrVarHaveFrames
    THEN /\ gIxToOutput' = Advanced(gIxToOutput)
         /\ gCountInBuf' = gCountInBuf - 1
         /\ gThrVarHaveFrames' = (gCountInBuf - 1 # 0)
         /\ UNCHANGED <<gIxToStore, gPEntries>>
    ELSE UNCHANGED rawQueue

isQueueEmpty == gCountInBuf = 0

(* Mutant of CountAfterFlush: the entries stay counted.                    *)
CountAfterFlushKept == gCountInBuf

CountAfterFlush == 0

(* The entries are forgotten, but not what they hold.                      *)
flushQueue ==
  /\ gCountInBuf' = CountAfterFlush
  /\ gIxToStore' = 0
  /\ gIxToOutput' = 0
  /\ gThrVarHaveFrames' = FALSE
  /\ UNCHANGED gPEntries

(* The n-th entry, from the oldest, that is in the queue.                  *)
EntryIx(n) == (gIxToOutput + n) % QueueSize
=============================================================================

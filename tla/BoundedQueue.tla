---------------------------- MODULE BoundedQueue ----------------------------
(***************************************************************************)
(* What a frame queue promises to the thread that fills it and to the one  *)
(* that empties it: a bounded first-in first-out queue that never blocks   *)
(* its producer.  When the queue is full the oldest item is dropped to     *)
(* make room for the new one.  The JPEG queue of a client is a ring buffer *)
(* that implements it.  Each side of the raw input queue does the same     *)
(* between two switches of the cameras, which empty it.                    *)
(***************************************************************************)
EXTENDS Naturals, Sequences

CONSTANTS
  Size,    \* how many items the queue holds
  Item     \* the items

VARIABLES
  queue,    \* the items in the queue, oldest first
  dropped,  \* how many items were dropped to make room
  taken     \* the item most recently handed to the reader

vars == <<queue, dropped, taken>>

IsFull(q) == Len(q) = Size

(* The queue q after item i was put into it.                               *)
Enqueue(q, i) == IF IsFull(q) THEN Append(Tail(q), i) ELSE Append(q, i)

Put(i) ==
  /\ queue' = Enqueue(queue, i)
  /\ dropped' = IF IsFull(queue) THEN dropped + 1 ELSE dropped
  /\ UNCHANGED taken

Take ==
  /\ queue # <<>>
  /\ taken' = Head(queue)
  /\ queue' = Tail(queue)
  /\ UNCHANGED dropped

(* The reader takes the oldest item but has no memory to copy it to.       *)
Discard ==
  /\ queue # <<>>
  /\ queue' = Tail(queue)
  /\ UNCHANGED <<dropped, taken>>

Init ==
  /\ queue = <<>>
  /\ dropped = 0
  /\ taken = 0

Next == (\E i \in Item : Put(i)) \/ Take \/ Discard

Spec == Init /\ [][Next]_vars
=============================================================================

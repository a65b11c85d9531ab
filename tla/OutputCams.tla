------------------------------ MODULE OutputCams ------------------------------
(***************************************************************************)
(* The runtime option outputCams: which camera sides are shown.  HTTP      *)
(* handlers enable, disable and swap cameras; the frame producer corrects  *)
(* the option whenever it opens the camera streams.  A handler takes its   *)
(* snapshot of the options when its connection is accepted, before the     *)
(* request has arrived (the client may take ten seconds to send it), and   *)
(* decides with that snapshot; so does the producer with a snapshot from   *)
(* before the cameras are opened.  Only the final write is locked.         *)
(*                                                                         *)
(* An option value is the set of sides shown.                              *)
(***************************************************************************)
EXTENDS Naturals

CONSTANT Handlers  \* the handler threads

Sides == {"L", "R"}

Both == Sides

(* The values of OutputCamsEn.                                             *)
Modes == {{"L"}, {"R"}, Both}

VARIABLES
  available,       \* configuration: the sides that have a camera source
  outputCams,      \* Shared: gThrVarRuntimeOptions.outputCams
  handlerPc,       \* where each handler is
  rtOptsCur,       \* the snapshot each handler decides with
  opening,         \* is the producer opening the camera streams?
  prodOutputCams   \* its snapshot

handlers == <<handlerPc, rtOptsCur>>
producer == <<opening, prodOutputCams>>
vars == <<available, outputCams, handlers, producer>>

Init ==
  /\ available \in (SUBSET Sides) \ {{}}
  /\ outputCams = {"L"}
  /\ handlerPc = [h \in Handlers |-> "idle"]
  /\ rtOptsCur = [h \in Handlers |-> {"L"}]
  /\ opening = FALSE
  /\ prodOutputCams = {"L"}
-----------------------------------------------------------------------------
(* A connection is accepted: ClientHandler's constructor begins.           *)
Connect(h) ==
  /\ handlerPc[h] = "idle"
  /\ handlerPc' = [handlerPc EXCEPT ![h] = "connected"]
  /\ rtOptsCur' = [rtOptsCur EXCEPT ![h] = outputCams]
  /\ UNCHANGED <<available, outputCams, producer>>

(* The request arrived and was dealt with, successfully or not.            *)
Answer(h) ==
  /\ handlerPc[h] = "connected"
  /\ handlerPc' = [handlerPc EXCEPT ![h] = "idle"]
  /\ UNCHANGED <<available, rtOptsCur, producer>>

(* Mutant of MayEnable: one camera is enabled without a look at whether    *)
(* it is available.                                                        *)
MayEnableAny(cur, req) ==
  \/ req = {"L"} /\ cur = {"R"}
  \/ req = {"R"} /\ cur = {"L"}
  \/ req = Both /\ Both \subseteq available

(* A camera can be enabled if it is available and the other one is shown;  *)
(* both can be enabled if both are available.                              *)
MayEnable(cur, req) ==
  \/ req = {"L"} /\ cur = {"R"} /\ "L" \in available
  \/ req = {"R"} /\ cur = {"L"} /\ "R" \in available
  \/ req = Both /\ Both \subseteq available

Enable(h, req) ==
  /\ Answer(h)
  /\ outputCams' = IF MayEnable(rtOptsCur[h], req) THEN Both ELSE outputCams

(* The only active camera cannot be disabled, nor can both.                *)
MayDisable(cur, req) == req # Both /\ cur # req

(* Disabling a camera that is not shown writes the snapshot back.          *)
Disable(h, req) ==
  /\ Answer(h)
  /\ outputCams' = IF MayDisable(rtOptsCur[h], req) THEN rtOptsCur[h] \ req
                                                    ELSE outputCams

MaySwap(cur) == cur # Both /\ (Sides \ cur) \subseteq available

Swap(h) ==
  /\ Answer(h)
  /\ outputCams' = IF MaySwap(rtOptsCur[h]) THEN Sides \ rtOptsCur[h]
                                            ELSE outputCams

(* A request that is not about the cameras, or none at all.                *)
OtherRequest(h) ==
  /\ Answer(h)
  /\ UNCHANGED outputCams
-----------------------------------------------------------------------------
(* openStreams is called at the start, after an empty frame and for a new  *)
(* frame rate; it takes a snapshot and opens the devices.                  *)
OpenStreamsBegins ==
  /\ ~opening
  /\ opening' = TRUE
  /\ prodOutputCams' = outputCams
  /\ UNCHANGED <<available, outputCams, handlers>>

(* A device could not be opened.                                           *)
OpenStreamsFails ==
  /\ opening
  /\ opening' = FALSE
  /\ UNCHANGED <<available, outputCams, handlers, prodOutputCams>>

(* Without a left camera the right one is shown.                           *)
OutputCamsAfterOpen ==
  IF "L" \notin available /\ prodOutputCams = {"L"} THEN {"R"} ELSE outputCams

OpenStreamsEnds ==
  /\ opening
  /\ opening' = FALSE
  /\ outputCams' = OutputCamsAfterOpen
  /\ UNCHANGED <<available, handlers, prodOutputCams>>
-----------------------------------------------------------------------------
Handler(h) ==
  \/ Connect(h)
  \/ \E req \in Modes : Enable(h, req) \/ Disable(h, req)
  \/ Swap(h)
  \/ OtherRequest(h)

Producer == OpenStreamsBegins \/ OpenStreamsFails \/ OpenStreamsEnds

Next == Producer \/ \E h \in Handlers : Handler(h)

Spec == Init /\ [][Next]_vars
-----------------------------------------------------------------------------
(* Every variable has its type.                                            *)
TypeOK ==
  /\ available \in (SUBSET Sides) \ {{}}
  /\ outputCams \in Modes
  /\ handlerPc \in [Handlers -> {"idle", "connected"}]
  /\ rtOptsCur \in [Handlers -> Modes]
  /\ opening \in BOOLEAN
  /\ prodOutputCams \in Modes

(* With a left camera, no mix of requests, snapshots and opened streams    *)
(* ever selects a camera that has no source.                               *)
LeftCameraSuffices ==
  "L" \in available => outputCams \subseteq available

(* A handler that connected while the option was sound keeps it sound,     *)
(* whatever the others have written since: a camera without a source is    *)
(* selected only by a handler whose snapshot already had one.              *)
SoundSnapshotsStaySound ==
  [][ outputCams \subseteq available /\ ~(outputCams' \subseteq available)
        => \E h \in Handlers :
             /\ handlerPc[h] = "connected" /\ handlerPc'[h] = "idle"
             /\ ~(rtOptsCur[h] \subseteq available) ]_vars
=============================================================================

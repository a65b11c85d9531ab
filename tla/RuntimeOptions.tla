---------------------------- MODULE RuntimeOptions -----------------------------
(***************************************************************************)
(* The runtime options that HTTP handlers change and that have no run of   *)
(* their own: the cameras shown, the settings of the image, and the        *)
(* perspective.  A handler copies all options when its connection is       *)
(* accepted, whatever its request turns out to be about, but changes the   *)
(* options of one of these groups only, and no group reads or writes an    *)
(* option of another.  So nothing is lost if the clients of a behaviour    *)
(* all use one group (topic).  A topic of its own is how one handler reads *)
(* the parameter of a request: it shares nothing with other threads.       *)
(***************************************************************************)
EXTENDS OutputCams, OptionValues, Integers, Sequences

CONSTANTS
  Key, Equals, Ampersand, Huge,  \* the symbols of queries
  MaxQuery                       \* bound: symbols in a query

ASSUME OptionsAssumption == MaxQuery \in Nat

(* Settings in, below and above the range, and such as become one of these *)
(* when they are cut to 16 bits.                                           *)
Numbers == {-101, -100, 7, 101, 32768, 65543, -65529, 65637}

(* All arrangements of some symbols, and all numbers where they belong.    *)
Queries ==
  {q \in UNION {[1 .. n -> {Key, Equals, Ampersand, 7}] : n \in 0 .. MaxQuery} :
     \A i \in 1 .. Len(q) - 1 : ~(q[i] = 7 /\ q[i + 1] = 7)}
  \cup {<<Key, Equals, n>> : n \in Numbers \cup {Huge}}

VARIABLES
  topic,      \* the group of options that requests are about
  canWrite,   \* can files be created in the calibration output path?
  group, shown, changed, imageRequest, imageConsPc, imageOptsRt, toApply, data,
  imageWriteFailed, imageFile, imageRaced,
  shared, cornersNew, posts, ptConsPc, ptOptsRt, calibrated, gOptRectCorners,
  gHaveAllCorners, gLoadedFromFile, gWriteToFileFailed, gPtDataStc, file,
  raced, touched,
  query, kind, readPc, posStart, posCur, params, valOut

Image == INSTANCE ImageSettings
  WITH request <- imageRequest, consPc <- imageConsPc, optsRt <- imageOptsRt,
       gWriteToFileFailed <- imageWriteFailed, file <- imageFile,
       raced <- imageRaced

Pt == INSTANCE Perspective
  WITH rtOptsNew <- cornersNew, consPc <- ptConsPc, optsRt <- ptOptsRt

Query == INSTANCE HttpQuery

camsVars == <<available, outputCams, rtOptsCur, producer>>
imageVars == <<group, shown, changed, imageRequest, imageConsPc, imageOptsRt,
               toApply, data, imageWriteFailed, imageFile, imageRaced>>
ptVars == <<shared, cornersNew, posts, ptConsPc, ptOptsRt, calibrated,
            gOptRectCorners, gHaveAllCorners, gLoadedFromFile,
            gWriteToFileFailed, gPtDataStc, file, raced, touched>>
queryVars == <<query, kind, readPc, posStart, posCur, params, valOut>>
optionsVars == <<topic, canWrite, handlerPc, camsVars, imageVars, ptVars, queryVars>>

(* Only the group in use has more than one initial state.                  *)
OptionsInit ==
  /\ topic \in {"cams", "image", "perspective", "query"}
  /\ topic # "cams" => available = Both
  /\ topic # "image" => group = "bnc" /\ imageFile = NoFile
  /\ topic # "perspective" => calibrated = FALSE /\ file = NoFile
  /\ topic # "query" => query = <<>> /\ kind = "setting"
  /\ topic \notin {"image", "perspective"} => canWrite = TRUE
  /\ Init /\ Image!Init /\ Pt!Init /\ Query!Init

CamsNext ==
  /\ topic = "cams"
  /\ Next
  /\ UNCHANGED <<topic, canWrite, imageVars, ptVars, queryVars>>

ImageNext ==
  /\ topic = "image"
  /\ Image!Next
  /\ UNCHANGED <<topic, camsVars, ptVars, queryVars>>

ImageConsumer ==
  /\ topic = "image"
  /\ Image!Consumer
  /\ UNCHANGED <<topic, camsVars, ptVars, queryVars>>

PtNext ==
  /\ topic = "perspective"
  /\ Pt!Next
  /\ UNCHANGED <<topic, camsVars, imageVars, queryVars>>

QueryNext ==
  /\ topic = "query"
  /\ Query!Next
  /\ UNCHANGED <<topic, canWrite, handlerPc, camsVars, imageVars, ptVars>>

OptionsNext == CamsNext \/ ImageNext \/ PtNext \/ QueryNext

(* The consumer's loop keeps running while there is a client.              *)
OptionsSpec ==
  /\ OptionsInit
  /\ [][OptionsNext]_optionsVars
  /\ WF_optionsVars(ImageConsumer)
-----------------------------------------------------------------------------
(* The properties of the groups, which their modules explain.              *)
FilesMatchFilters == Image!FilesMatchFilters
SettingsShownAreApplied == Image!SettingsShownAreApplied
ChangeServed == Image!ChangeServed
FileMatchesTransform == Pt!FileMatchesTransform
CornersShownAreUsed == Pt!CornersShownAreUsed
ResetLasts == Pt!ResetLasts
QueryParamsFound == Query!QueryParamsFound
AcceptedInRange == Query!AcceptedInRange
=============================================================================

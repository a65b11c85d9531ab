------------------------------- MODULE HttpQuery -------------------------------
(***************************************************************************)
(* How a handler reads the parameter of its request (HandleRoute): the     *)
(* query, or the body of a POST, is cut into key/value pairs by a loop over*)
(* its characters, and the value of the key "v" is converted to an integer *)
(* and compared with the range of the parameter.                           *)
(*                                                                         *)
(* A query is a sequence of symbols: Key, Equals, Ampersand, and decimal   *)
(* numbers with their signs, each of which is one symbol (so that no two   *)
(* are neighbours).  Huge is a number beyond 32 bits.                      *)
(***************************************************************************)
EXTENDS Integers, Sequences

CONSTANTS
  Key, Equals, Ampersand, Huge,  \* symbols
  Numbers,                       \* the other numbers that clients send
  Queries                        \* the queries that clients send

Symbols == {Key, Equals, Ampersand, Huge} \cup Numbers

VARIABLES
  query,     \* gRequUriQuery
  kind,      \* what the route asks for
  readPc,    \* where the handler is
  posStart, posCur,  \* the beginning of the current pair, and the character
  params,    \* the values found, by their keys
  valOut     \* the value of the parameter

vars == <<query, kind, readPc, posStart, posCur, params, valOut>>

(* Settings are int16_t, coordinates are int.  The ranges are those of the *)
(* brightness and of the translation.                                      *)
Kinds == {"setting", "coordinate"}
Bound(k) == IF k = "setting" THEN 100 ELSE 10000
InRange(k, n) == n \in -Bound(k) .. Bound(k)

Init ==
  /\ query \in Queries
  /\ kind \in Kinds
  /\ readPc = "pairs"
  /\ posStart = 0
  /\ posCur = 0
  /\ params = <<>>
  /\ valOut = 0
-----------------------------------------------------------------------------
(* Mutant of PairEnds: only a separator ends a pair.                       *)
PairEndsAtSeparator == query[posCur + 1] = Ampersand

(* A pair ends before a separator, and with the last character whatever    *)
(* that is.                                                                *)
PairEnds == query[posCur + 1] = Ampersand \/ posCur + 1 = Len(query)

Pair ==
  SubSeq(query, posStart + 1, IF posCur + 1 = Len(query) THEN Len(query) ELSE posCur)

(* The first separator of key and value (_stringSplit).                    *)
IsPair(text) == \E i \in 1 .. Len(text) : text[i] = Equals

Split(text) ==
  CHOOSE i \in 1 .. Len(text) :
    text[i] = Equals /\ \A j \in 1 .. i - 1 : text[j] # Equals

KeyOf(text) == SubSeq(text, 1, Split(text) - 1)
ValueOf(text) == SubSeq(text, Split(text) + 1, Len(text))

(* One round of the loop of _getQueryParams: a pair without a separator    *)
(* ends it; a key that comes again has its last value.                     *)
NextCharacter ==
  /\ readPc = "pairs"
  /\ posCur < Len(query)
  /\ posCur' = posCur + 1
  /\ IF ~PairEnds
       THEN UNCHANGED <<readPc, posStart, params>>
     ELSE IF ~IsPair(Pair)
       THEN /\ readPc' = "refused"
            /\ UNCHANGED <<posStart, params>>
       ELSE /\ params' = [k \in DOMAIN params \cup {KeyOf(Pair)} |->
                            IF k = KeyOf(Pair) THEN ValueOf(Pair) ELSE params[k]]
            /\ posStart' = posCur + 1
            /\ UNCHANGED readPc
  /\ UNCHANGED <<query, kind, valOut>>

AllPairsRead ==
  /\ readPc = "pairs"
  /\ posCur = Len(query)
  /\ readPc' = "value"
  /\ UNCHANGED <<query, kind, posStart, posCur, params, valOut>>

(* The numbers of an int16_t.                                              *)
Half == 32768
Short == -Half .. Half - 1

(* stoi fits the value into an int, and the assignment of a setting keeps  *)
(* its lower 16 bits, as a signed number.                                  *)
Stored(n) ==
  IF kind = "setting" THEN ((n + Half) % (2 * Half)) - Half ELSE n

(* Mutant of IsAllowed: only the upper bound is looked at.                 *)
IsAllowedBelow(n) == n <= Bound(kind)

(* The range is tested with what was stored.                               *)
IsAllowed(n) == InRange(kind, n)

(* getIntFromQuery, and the same for one of the coordinates.               *)
ReadValue ==
  /\ readPc = "value"
  /\ IF /\ <<Key>> \in DOMAIN params
        /\ \E n \in Numbers : params[<<Key>>] = <<n>> /\ IsAllowed(Stored(n))
       THEN /\ readPc' = "accepted"
            /\ valOut' = Stored(Head(params[<<Key>>]))
       ELSE /\ readPc' = "refused"
            /\ UNCHANGED valOut
  /\ UNCHANGED <<query, kind, posStart, posCur, params>>

(* The rest of the request is in the modules of the options.               *)
Answered ==
  /\ readPc \in {"accepted", "refused"}
  /\ UNCHANGED vars

Next == NextCharacter \/ AllPairsRead \/ ReadValue \/ Answered

Spec == Init /\ [][Next]_vars
-----------------------------------------------------------------------------
(* Every variable has its type.                                            *)
TypeOK ==
  /\ query \in Seq(Symbols)
  /\ kind \in Kinds
  /\ readPc \in {"pairs", "value", "accepted", "refused"}
  /\ posCur \in 0 .. Len(query)
  /\ posStart \in 0 .. posCur
  /\ \A k \in DOMAIN params : k \in Seq(Symbols) /\ params[k] \in Seq(Symbols)
  /\ valOut \in Int

(* The pairs of a query, by the places they begin after: it is cut at its  *)
(* separators.  (One at its end belongs to the last pair.)                 *)
Cuts == {i \in 1 .. Len(query) - 1 : query[i] = Ampersand}
Begins == IF query = <<>> THEN {} ELSE {0} \cup Cuts
PairAfter(b) ==
  LET later == {c \in Cuts : c > b}
      end == IF later = {} THEN Len(query)
             ELSE (CHOOSE c \in later : \A d \in later : c <= d) - 1
  IN  SubSeq(query, b + 1, end)

(* The parameters are those of the pairs of the query, wherever its first, *)
(* its last and its empty ones are; of two with one key the later counts;  *)
(* and a query is only refused for a pair that is none or for its value.   *)
QueryParamsFound ==
  /\ readPc \in {"value", "accepted"} =>
       /\ \A b \in Begins : IsPair(PairAfter(b))
       /\ DOMAIN params = {KeyOf(PairAfter(b)) : b \in Begins}
       /\ \A b \in Begins :
            \/ params[KeyOf(PairAfter(b))] = ValueOf(PairAfter(b))
            \/ \E c \in Begins : c > b /\ KeyOf(PairAfter(c)) = KeyOf(PairAfter(b))
  /\ readPc = "refused" =>
       \/ \E b \in Begins : ~IsPair(PairAfter(b))
       \/ posCur = Len(query)

(* The number that a client sent, if there is one.                         *)
Sent == Head(params[<<Key>>])

(* A value within its range is accepted and arrives as it was sent; one    *)
(* outside arrives at most as another one within the range, and only if it *)
(* does not fit into 16 bits.  (docs/api-camera_server.yaml:562-566 and    *)
(* 584-591 allow a v of -100 to 100, or 10 to 100, and no exception: the   *)
(* second disjunct is where the code departs from them.)                   *)
AcceptedInRange ==
  /\ readPc = "accepted" =>
       /\ InRange(kind, valOut)
       /\ valOut = Sent \/ (kind = "setting" /\ Sent \notin Short)
  /\ readPc = "refused" /\ (\A b \in Begins : IsPair(PairAfter(b)))
        /\ <<Key>> \in DOMAIN params =>
       ~\E n \in Numbers : params[<<Key>>] = <<n>> /\ InRange(kind, n)
=============================================================================

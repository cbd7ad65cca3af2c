------------------------------- MODULE Status -------------------------------
(***************************************************************************)
(* What the read requests of the local API (api_server.py, service.py) see *)
(* of a RobotState (state.py) that TCP handler threads keep updating.      *)
(* There is no lock: a message is stored one item at a time, an answer is  *)
(* put together from one read after the other.                             *)
(*                                                                         *)
(* Abstractions.  The value of a status or cleaning key is the number of   *)
(* the message it comes from, 0 for absent or restored from disk.  A map   *)
(* or track is numbered by its own writes and is good, not decodable, or   *)
(* not ASCII.  A revision, the digest of map and track, is the pair        *)
(* itself.  A test for None followed by a use is one read: a text is never *)
(* removed.  session and connected belong to RobotConnection.              *)
(***************************************************************************)
EXTENDS Naturals, Sequences, Functions

CONSTANTS
  Handlers,      \* TCP handler threads that update the state
  Readers,       \* API threads, one for each client that polls
  None,          \* Python's None
  StatusKeys,    \* STATUS_KEYS, workState first
  CleaningKeys,  \* CLEANING_KEYS
  MaxMessages,   \* bound on the robot messages of a behaviour
  MaxRequests    \* bound on the API requests of a behaviour

ASSUME KeySequences == StatusKeys \in Seq(STRING) /\ CleaningKeys \in Seq(STRING)
ASSUME KeysAreDistinct ==
  /\ IsInjective(StatusKeys) /\ IsInjective(CleaningKeys)
  /\ Range(StatusKeys) \intersect Range(CleaningKeys) = {}
  /\ (Range(StatusKeys) \union Range(CleaningKeys))
       \intersect {"map", "track"} = {}
ASSUME FirstKey == StatusKeys # <<>> /\ Head(StatusKeys) = "workState"
ASSUME Bounds == MaxMessages \in Nat /\ MaxRequests \in Nat

Kinds == {"good", "undecodable", "foreign"}
Text == [nth : Nat, kind : Kinds]
Revision == [map : Text, track : Text \union {None}]
ASSUME NoneIsNoText == None \notin Text \union Revision

VARIABLES
  values,    \* RobotState.values
  text,      \* RobotState.map_data and track_data
  messages,  \* number of robot messages so far
  msg,       \* the message a handler is storing
  todo,      \* the items of it that are not stored yet
  pc,        \* where an API thread is
  got,       \* what it has read for its answer
  answer,    \* HTTP status of its last answer
  known,     \* the last map revision its client was told
  requests,  \* number of requests so far
  grown,     \* readers whose iteration of raw_value met a new key
  \* The rest records the past; the code does not keep it.
  raced,     \* two updates have overlapped
  quiet      \* requests during which no message was being stored

robot == <<values, text, messages, msg, todo, raced>>
api == <<pc, got, answer, known, requests>>
vars == <<robot, api, grown, quiet>>

Keys == Range(StatusKeys) \union Range(CleaningKeys)
Texts == {"map", "track"}
\* load_into restores what save could write: ASCII texts.
Restored == [nth : {0}, kind : Kinds \ {"foreign"}]

Requests == {"status", "map", "png"}
Reading == {"values", "label", "raw", "available", "map", "track",
            "rev_map", "rev_track", "cleaning", "png_map", "png_track"}
Answers == {"none", "200", "400", "404", "409", "422"}

Blank == [request |-> "none", state |-> [k \in Keys |-> 0], label |-> 0,
          available |-> FALSE, map |-> None, track |-> None,
          revision |-> None, left |-> CleaningKeys]

Init ==
  /\ values = [k \in Keys |-> 0]
  /\ text \in [Texts -> {None} \union Restored]
  /\ messages = 0
  /\ msg = [h \in Handlers |-> 0]
  /\ todo = [h \in Handlers |-> <<>>]
  /\ pc = [r \in Readers |-> "idle"]
  /\ got = [r \in Readers |-> Blank]
  /\ answer = [r \in Readers |-> "none"]
  /\ known = [r \in Readers |-> None]
  /\ requests = 0
  /\ grown = {}
  /\ raced = FALSE
  /\ quiet = {}

-----------------------------------------------------------------------------
(* RobotState.update_from_message in a handler thread.                      *)

\* The items a message can make a handler store, in order: a 102 message has
\* the status, a 101 message cleaning data and perhaps a map and a track.
Items ==
  {<<>>, StatusKeys}
    \union {CleaningKeys \o s :
              s \in {<<>>, <<"map">>, <<"track">>, <<"map", "track">>}}

\* Mutant: a message starts from an empty dictionary of values.
Emptied == [k \in Keys |-> 0]

ValuesAtStart == values

\* raw_value is updated first; new keys disturb an iteration.
Message(h) ==
  /\ todo[h] = <<>>
  /\ messages < MaxMessages
  /\ messages' = messages + 1
  /\ msg' = [msg EXCEPT ![h] = messages']
  /\ \E items \in Items : todo' = [todo EXCEPT ![h] = items]
  /\ raced' = (raced \/ \E o \in Handlers : todo[o] # <<>>)
  /\ grown' \in {grown, grown \union {r \in Readers : pc[r] = "raw"}}
  /\ values' = ValuesAtStart
  /\ quiet' = {}
  /\ UNCHANGED <<text, api>>

\* Mutant: a key the message has no value for keeps the old one.
StoresSome(h) == values' \in {values, [values EXCEPT ![Head(todo[h])] = msg[h]]}

StoresKey(h) == values' = [values EXCEPT ![Head(todo[h])] = msg[h]]

\* Mutant: a cleaning message without a map or track removes the old one.
DropsTexts(h) ==
  text' = IF Head(todo[h]) \in Range(CleaningKeys)
            THEN [f \in Texts |-> IF f \in Range(todo[h]) THEN text[f] ELSE None]
            ELSE text

KeepsTexts(h) == UNCHANGED text

\* One key, whether the message has a value for it or not.
StoreKey(h) ==
  /\ todo[h] # <<>>
  /\ Head(todo[h]) \in Keys
  /\ StoresKey(h) /\ KeepsTexts(h)
  /\ todo' = [todo EXCEPT ![h] = Tail(@)]
  /\ quiet' = {}
  /\ UNCHANGED <<messages, msg, raced, api, grown>>

Successor(old) == IF old = None THEN 1 ELSE old.nth + 1

StoreText(h) ==
  /\ todo[h] # <<>>
  /\ Head(todo[h]) \in Texts
  /\ \E kind \in Kinds :
       text' = [text EXCEPT ![Head(todo[h])] =
                  [nth |-> Successor(@), kind |-> kind]]
  /\ todo' = [todo EXCEPT ![h] = Tail(@)]
  /\ quiet' = {}
  /\ UNCHANGED <<values, messages, msg, raced, api, grown>>

-----------------------------------------------------------------------------
(* GET requests: dispatch_api and RobotService.                             *)

Goto(r, place) == pc' = [pc EXCEPT ![r] = place]

Request(r) ==
  /\ pc[r] = "idle"
  /\ requests < MaxRequests
  /\ requests' = requests + 1
  /\ \E request \in Requests :
       /\ got' = [got EXCEPT ![r] = [Blank EXCEPT !.request = request]]
       /\ Goto(r, CASE request = "status" -> "values"
                    [] request = "map" -> "map"
                    [] request = "png" -> "png_map")
  /\ answer' = [answer EXCEPT ![r] = "none"]
  /\ quiet' = IF \A h \in Handlers : todo[h] = <<>>
                THEN quiet \union {r} ELSE quiet \ {r}
  /\ UNCHANGED <<robot, known, grown>>

Respond(r, status) ==
  /\ answer' = [answer EXCEPT ![r] = status]
  /\ Goto(r, "idle")

\* One read, and on to the next.
Read(r, place, local, value, next) ==
  /\ pc[r] = place
  /\ got' = [got EXCEPT ![r][local] = value]
  /\ Goto(r, next)
  /\ UNCHANGED <<robot, answer, known, requests, quiet>>

\* public_snapshot: a copy of the values, the label from the live value, ...
CopyValues(r) ==
  Read(r, "values", "state", values, "label") /\ UNCHANGED grown

ReadLabel(r) ==
  /\ Read(r, "label", "label", values["workState"], "raw")
  /\ grown' = grown \ {r}

\* ... the raw values, where a RuntimeError of the iteration is a 409, ...
CopyRaw(r) ==
  /\ pc[r] = "raw"
  /\ IF r \in grown THEN Respond(r, "409")
                    ELSE Goto(r, "available") /\ UNCHANGED answer
  /\ UNCHANGED <<robot, got, known, requests, grown, quiet>>

\* ... and whether there is a map (a track is tested in the same way).
ReadAvailable(r) ==
  /\ Read(r, "available", "available", text["map"] # None, "rev_map")
  /\ UNCHANGED grown

\* map_snapshot begins with map and track.
ReadMap(r) == Read(r, "map", "map", text["map"], "track") /\ UNCHANGED grown

ReadTrack(r) ==
  Read(r, "track", "track", text["track"], "rev_map") /\ UNCHANGED grown

Foreign(t) == t # None /\ t.kind = "foreign"

\* The revision is complete: status is answered, map_snapshot goes on.
WithRevision(r) ==
  IF got[r].request = "status"
    THEN /\ Respond(r, "200")
         /\ known' = [known EXCEPT ![r] = got'[r].revision]
    ELSE Goto(r, "cleaning") /\ UNCHANGED <<answer, known>>

\* Mutant: a map that is not ASCII has no revision.
Unrevised(r) == UNCHANGED got /\ WithRevision(r)

\* A UnicodeEncodeError is a ValueError, hence a 400.
RefusesMap(r) == Respond(r, "400") /\ UNCHANGED <<got, known>>

\* Mutant: a revision that was computed once is kept.
KnownMap(r) == IF known[r] # None THEN known[r].map ELSE text["map"]

RevisedMap(r) == text["map"]

\* map_revision: without a map there is none.
RevisionMap(r) ==
  /\ pc[r] = "rev_map"
  /\ \/ /\ RevisedMap(r) = None
        /\ UNCHANGED got
        /\ WithRevision(r)
     \/ Foreign(RevisedMap(r)) /\ RefusesMap(r)
     \/ /\ RevisedMap(r) # None /\ ~Foreign(RevisedMap(r))
        /\ got' = [got EXCEPT ![r].revision =
                     [map |-> RevisedMap(r), track |-> None]]
        /\ Goto(r, "rev_track")
        /\ UNCHANGED <<answer, known>>
  /\ UNCHANGED <<robot, requests, grown, quiet>>

\* Mutant: the track is not part of the revision.
WithoutTrack(r) == got

WithTrack(r) == [got EXCEPT ![r].revision.track = text["track"]]

RevisionTrack(r) ==
  /\ pc[r] = "rev_track"
  /\ \/ /\ Foreign(text["track"])
        /\ Respond(r, "400")
        /\ UNCHANGED <<got, known>>
     \/ /\ ~Foreign(text["track"])
        /\ got' = WithTrack(r)
        /\ WithRevision(r)
  /\ UNCHANGED <<robot, requests, grown, quiet>>

\* The cleaning data of map_snapshot, one key after the other.
ReadCleaning(r) ==
  /\ pc[r] = "cleaning"
  /\ \/ /\ got[r].left # <<>>
        /\ got' = [got EXCEPT
             ![r].state[Head(got[r].left)] = values[Head(got[r].left)],
             ![r].left = Tail(@)]
        /\ UNCHANGED <<pc, answer>>
     \/ /\ got[r].left = <<>>
        /\ Respond(r, "200")
        /\ UNCHANGED got
  /\ UNCHANGED <<robot, known, requests, grown, quiet>>

\* map_png: a LookupError is a 404.
PngMap(r) ==
  /\ pc[r] = "png_map"
  /\ IF text["map"] = None
       THEN Respond(r, "404") /\ UNCHANGED got
       ELSE /\ got' = [got EXCEPT ![r].map = text["map"]]
            /\ Goto(r, "png_track")
            /\ UNCHANGED answer
  /\ UNCHANGED <<robot, known, requests, grown, quiet>>

Drawable(t) == t = None \/ t.kind = "good"

\* render_map_png: what cannot be decoded is a ValueError, here a 422.
PngTrack(r) ==
  /\ pc[r] = "png_track"
  /\ got' = [got EXCEPT ![r].track = text["track"]]
  /\ Respond(r, IF Drawable(got[r].map) /\ Drawable(text["track"])
                  THEN "200" ELSE "422")
  /\ UNCHANGED <<robot, known, requests, grown, quiet>>

-----------------------------------------------------------------------------

Store(h) == StoreKey(h) \/ StoreText(h)

Serve(r) ==
  \/ CopyValues(r) \/ ReadLabel(r) \/ CopyRaw(r) \/ ReadAvailable(r)
  \/ ReadMap(r) \/ ReadTrack(r) \/ RevisionMap(r) \/ RevisionTrack(r)
  \/ ReadCleaning(r) \/ PngMap(r) \/ PngTrack(r)

\* No message, no request is left.
Done ==
  /\ messages = MaxMessages /\ \A h \in Handlers : todo[h] = <<>>
  /\ requests = MaxRequests /\ \A r \in Readers : pc[r] = "idle"
  /\ UNCHANGED vars

Next ==
  \/ \E h \in Handlers : Message(h) \/ Store(h)
  \/ \E r \in Readers : Request(r) \/ Serve(r)
  \/ Done

Spec == Init /\ [][Next]_vars

-----------------------------------------------------------------------------
(* Properties.                                                              *)

\* Every variable holds a value of its kind.
TypeOK ==
  /\ values \in [Keys -> 0..MaxMessages]
  /\ text \in [Texts -> Text \union {None}]
  /\ messages \in 0..MaxMessages
  /\ msg \in [Handlers -> 0..MaxMessages]
  /\ todo \in [Handlers -> Seq(Keys \union Texts)]
  /\ pc \in [Readers -> {"idle"} \union Reading]
  /\ got \in [Readers ->
       [request : {"none"} \union Requests, state : [Keys -> 0..MaxMessages],
        label : 0..MaxMessages, available : BOOLEAN,
        map : Text \union {None}, track : Text \union {None},
        revision : Revision \union {None}, left : Seq(Keys)]]
  /\ answer \in [Readers -> Answers]
  /\ known \in [Readers -> Revision \union {None}]
  /\ requests \in 0..MaxRequests
  /\ grown \subseteq Readers
  /\ raced \in BOOLEAN
  /\ quiet \subseteq Readers

\* t is the same text as s or one that was stored later.
Since(t, s) == s # None => t # None /\ t.nth >= s.nth

Answered(r, request, status) == got[r].request = request /\ answer[r] = status

\* A status that says a map is available has a revision for it, whatever was
\* stored between the two reads of map_data (state.py:94, service.py:49).
AvailableHasRevision ==
  \A r \in Readers : Answered(r, "status", "200") /\ got[r].available =>
    got[r].revision # None

\* The friendly label of a status is never older than the raw work state next
\* to it: the copy comes first (state.py:91-92).
LabelNotOlder ==
  \A r \in Readers : Answered(r, "status", "200") /\ ~raced =>
    got[r].label >= got[r].state["workState"]

\* The revision a reader computed is not older than the texts it has read.
RevisionCovers(r) ==
  LET revision == got[r].revision
  IN  /\ got[r].map # None => revision # None
      /\ revision # None => /\ Since(revision.map, got[r].map)
                            /\ Since(revision.track, got[r].track)

\* The revision of a map answer is never older than the map and the track in
\* it: a client that compares revisions does not take an old map for a later
\* one (service.py:64-66).
RevisionNotOlder ==
  \A r \in Readers : Answered(r, "map", "200") => RevisionCovers(r)

\* A client that was told a revision and then asks for the image gets this
\* map and track or later ones, and never a 404 (image.py:49-59).
ImageNotOlderThanRevision ==
  \A r \in Readers : got[r].request = "png" /\ known[r] # None =>
    /\ answer[r] # "404"
    /\ answer[r] \in {"200", "422"} =>
         /\ Since(got[r].map, known[r].map)
         /\ Since(got[r].track, known[r].track)

\* Once a message is stored, all status keys are those of one message: a key
\* the message lacks does not keep its older value (state.py:54-55).
SettledStateIsWhole ==
  ~raced /\ (\A h \in Handlers : todo[h] = <<>>) =>
    \A k \in Range(StatusKeys) : values[k] = values["workState"]

\* A request during which no message is stored gets an answer that fits
\* together, and no 409.
QuietAnswersAgree ==
  \A r \in quiet :
    /\ answer[r] # "409"
    /\ Answered(r, "status", "200") =>
         /\ got[r].label = got[r].state["workState"]
         /\ got[r].available <=> got[r].revision # None
    /\ Answered(r, "map", "200") /\ got[r].map # None =>
         got[r].revision = [map |-> got[r].map, track |-> got[r].track]

-----------------------------------------------------------------------------
(* The inductive invariant behind AvailableHasRevision, RevisionNotOlder    *)
(* and ImageNotOlderThanRevision.                                           *)

\* What is in memory is not older than the texts of a revision.
Current(revision) ==
  revision # None => /\ Since(text["map"], revision.map)
                     /\ Since(text["track"], revision.track)

\* Whatever a reader or its client got came from the memory, which only moves
\* forward.
HeldOK ==
  \A r \in Readers :
    /\ Since(text["map"], got[r].map) /\ Since(text["track"], got[r].track)
    /\ got[r].available => text["map"] # None
    /\ Current(got[r].revision) /\ Current(known[r])

\* Where a reader stands tells what it is asked for and what it has read.
PlaceOK ==
  \A r \in Readers :
    /\ pc[r] # "idle" => answer[r] = "none"
    /\ pc[r] \in {"values", "label", "raw", "available"} =>
         got[r].request = "status"
    /\ pc[r] \in {"map", "track", "cleaning"} => got[r].request = "map"
    /\ pc[r] \in {"png_map", "png_track"} => got[r].request = "png"
    /\ pc[r] \in {"rev_map", "rev_track"} =>
         got[r].request \in {"status", "map"}
    /\ pc[r] \in {"values", "label", "raw", "available", "map", "track",
                 "rev_map"} => got[r].revision = None
    /\ pc[r] = "rev_track" =>
         got[r].revision # None /\ Since(got[r].revision.map, got[r].map)
    /\ pc[r] = "cleaning" => RevisionCovers(r)
    /\ pc[r] = "png_track" /\ known[r] # None =>
         Since(got[r].map, known[r].map)

IInv ==
  /\ TypeOK /\ HeldOK /\ PlaceOK
  /\ AvailableHasRevision /\ RevisionNotOlder /\ ImageNotOlderThanRevision
=============================================================================

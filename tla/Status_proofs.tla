--------------------------- MODULE Status_proofs ----------------------------
(* Proofs about Status: its types, what a client can rely on when maps and  *)
(* tracks are replaced between two reads, and how the parts of an answer    *)
(* fit together.                                                            *)
EXTENDS Status, Integers, SequenceTheorems, TLAPS

MaybeText == Text \union {None}

\* A text is not older than itself.
LEMMA SinceSelf ==
  ASSUME NEW s \in MaybeText
  PROVE  Since(s, s)
BY DEF MaybeText, Text, Since

\* Not being older is transitive.
LEMMA SinceTransitive ==
  ASSUME NEW a \in MaybeText, NEW b \in MaybeText, NEW c \in MaybeText,
         Since(a, b), Since(b, c)
  PROVE  Since(a, c)
BY NoneIsNoText DEF MaybeText, Text, Since

\* A text that was stored is a text, and newer than the one before.
LEMMA StoredText ==
  ASSUME NEW old \in MaybeText, NEW kind \in Kinds
  PROVE  /\ [nth |-> Successor(old), kind |-> kind] \in Text
         /\ Since([nth |-> Successor(old), kind |-> kind], old)
BY NoneIsNoText DEF MaybeText, Text, Successor, Since

-----------------------------------------------------------------------------
(* Types.                                                                   *)

\* The keys are sequences of keys.
LEMMA KeyTypes ==
  /\ StatusKeys \in Seq(Keys) /\ CleaningKeys \in Seq(Keys)
  /\ "workState" \in Keys
BY KeySequences, FirstKey DEF Keys, Range

\* What a handler has to store are keys and texts.
LEMMA ItemTypes == Items \subseteq Seq(Keys \union Texts)
<1>1. /\ StatusKeys \in Seq(Keys \union Texts)
      /\ CleaningKeys \in Seq(Keys \union Texts)
  BY KeyTypes
<1>2. /\ <<>> \in Seq(Keys \union Texts)
      /\ <<"map">> \in Seq(Keys \union Texts)
      /\ <<"track">> \in Seq(Keys \union Texts)
      /\ <<"map", "track">> \in Seq(Keys \union Texts)
  <2>1. "map" \in Keys \union Texts /\ "track" \in Keys \union Texts
    BY DEF Texts
  <2> QED
    BY <2>1
<1>3. \A s \in Seq(Keys \union Texts) :
        CleaningKeys \o s \in Seq(Keys \union Texts)
  BY <1>1, ConcatProperties
<1> QED
  BY <1>1, <1>2, <1>3 DEF Items

\* The initial state is well typed.
LEMMA TypeInit == Init => TypeOK
<1> SUFFICES ASSUME Init PROVE TypeOK
  OBVIOUS
<1> USE Bounds, KeyTypes DEF Init
<1>1. text \in [Texts -> Text \union {None}]
  BY DEF Restored, Text, Kinds
<1>2. got \in [Readers ->
       [request : {"none"} \union Requests, state : [Keys -> 0..MaxMessages],
        label : 0..MaxMessages, available : BOOLEAN,
        map : Text \union {None}, track : Text \union {None},
        revision : Revision \union {None}, left : Seq(Keys)]]
  BY DEF Blank
<1>3. /\ values \in [Keys -> 0..MaxMessages]
      /\ msg \in [Handlers -> 0..MaxMessages]
      /\ messages \in 0..MaxMessages /\ requests \in 0..MaxRequests
  OBVIOUS
<1>4. /\ todo \in [Handlers -> Seq(Keys \union Texts)]
      /\ pc \in [Readers -> {"idle"} \union Reading]
      /\ answer \in [Readers -> Answers]
      /\ known \in [Readers -> Revision \union {None}]
  BY DEF Answers
<1> QED
  BY <1>1, <1>2, <1>3, <1>4 DEF TypeOK

\* Every step of a handler keeps the types.
LEMMA TypeHandler ==
  ASSUME TypeOK, NEW h \in Handlers, Message(h) \/ Store(h)
  PROVE  TypeOK'
<1> USE Bounds DEF TypeOK, api
<1>1. CASE Message(h)
  <2>1. todo' \in [Handlers -> Seq(Keys \union Texts)]
    BY <1>1, ItemTypes DEF Message, ValuesAtStart
  <2> QED
    BY <1>1, <2>1 DEF Message, ValuesAtStart
<1>2. CASE StoreKey(h)
  BY <1>2 DEF StoreKey, StoresKey, KeepsTexts
<1>3. CASE StoreText(h)
  <2>1. PICK kind \in Kinds :
          text' = [text EXCEPT ![Head(todo[h])] =
                     [nth |-> Successor(@), kind |-> kind]]
    BY <1>3 DEF StoreText
  <2>2. text[Head(todo[h])] \in MaybeText
    BY <1>3 DEF StoreText, MaybeText
  <2>3. [nth |-> Successor(text[Head(todo[h])]), kind |-> kind] \in Text
    BY <2>2, StoredText
  <2>4. text' \in [Texts -> Text \union {None}]
    BY <2>1, <2>3
  <2> QED
    BY <1>3, <2>4 DEF StoreText
<1> QED
  BY <1>1, <1>2, <1>3 DEF Store

\* The local variables of a reader, and one assignment to them.
Local ==
  [request : {"none"} \union Requests, state : [Keys -> 0..MaxMessages],
   label : 0..MaxMessages, available : BOOLEAN,
   map : Text \union {None}, track : Text \union {None},
   revision : Revision \union {None}, left : Seq(Keys)]

\* Every assignment a reader makes to a local variable keeps their types.
LEMMA LocalEdit ==
  ASSUME NEW l \in Local
  PROVE  /\ \A v \in [Keys -> 0..MaxMessages] : [l EXCEPT !.state = v] \in Local
         /\ \A v \in 0..MaxMessages : [l EXCEPT !.label = v] \in Local
         /\ \A v \in BOOLEAN : [l EXCEPT !.available = v] \in Local
         /\ \A v \in MaybeText : [l EXCEPT !.map = v] \in Local
         /\ \A v \in MaybeText : [l EXCEPT !.track = v] \in Local
         /\ \A v \in Revision \union {None} :
              [l EXCEPT !.revision = v] \in Local
         /\ \A v \in [Keys -> 0..MaxMessages] : \A w \in Seq(Keys) :
              [l EXCEPT !.state = v, !.left = w] \in Local
BY DEF Local, MaybeText

\* Every step of a reader keeps the types; where there is a track to add to a
\* revision, PlaceOK says that there is a revision.
LEMMA TypeReader ==
  ASSUME TypeOK, PlaceOK, NEW r \in Readers, Request(r) \/ Serve(r)
  PROVE  TypeOK'
<1> USE Bounds DEF TypeOK, robot, Goto, Respond, Answers, Reading
<1>0. got \in [Readers -> Local]
  BY DEF Local
<1>1. CASE Request(r)
  <2>1. PICK request \in Requests :
          /\ got' = [got EXCEPT ![r] = [Blank EXCEPT !.request = request]]
          /\ Goto(r, CASE request = "status" -> "values"
                       [] request = "map" -> "map"
                       [] request = "png" -> "png_map")
    BY <1>1 DEF Request
  <2>2. [Blank EXCEPT !.request = request] \in Local
    <3>1. Blank \in Local
      BY KeyTypes DEF Blank, Local
    <3> QED
      BY <3>1 DEF Local
  <2>3. got' \in [Readers -> Local]
    BY <1>0, <2>1, <2>2
  <2>4. pc' \in [Readers -> {"idle"} \union Reading]
    BY <2>1 DEF Requests
  <2>5. /\ requests' \in 0..MaxRequests /\ quiet' \subseteq Readers
        /\ answer' \in [Readers -> Answers]
        /\ UNCHANGED <<robot, known, grown>>
    BY <1>1 DEF Request
  <2> QED
    BY <2>3, <2>4, <2>5 DEF Local
<1>2. CASE CopyValues(r)
  <2>1. got' \in [Readers -> Local]
    BY <1>0, <1>2, LocalEdit DEF CopyValues, Read
  <2> QED
    BY <1>2, <2>1 DEF CopyValues, Read, Local
<1>3. CASE ReadLabel(r)
  <2>1. got' \in [Readers -> Local]
    BY <1>0, <1>3, LocalEdit, KeyTypes DEF ReadLabel, Read
  <2> QED
    BY <1>3, <2>1 DEF ReadLabel, Read, Local
<1>4. CASE CopyRaw(r)
  BY <1>4 DEF CopyRaw
<1>5. CASE ReadAvailable(r)
  <2>1. got' \in [Readers -> Local]
    BY <1>0, <1>5, LocalEdit DEF ReadAvailable, Read
  <2> QED
    BY <1>5, <2>1 DEF ReadAvailable, Read, Local
<1>6. CASE ReadMap(r)
  <2>1. got' \in [Readers -> Local]
    BY <1>0, <1>6, LocalEdit DEF ReadMap, Read, MaybeText, Texts
  <2> QED
    BY <1>6, <2>1 DEF ReadMap, Read, Local
<1>7. CASE ReadTrack(r)
  <2>1. got' \in [Readers -> Local]
    BY <1>0, <1>7, LocalEdit DEF ReadTrack, Read, MaybeText, Texts
  <2> QED
    BY <1>7, <2>1 DEF ReadTrack, Read, Local
<1>8. CASE RevisionMap(r)
  <2>1. got' \in [Readers -> Local]
    <3>1. CASE UNCHANGED got
      BY <1>0, <3>1
    <3>2. CASE /\ text["map"] # None
               /\ got' = [got EXCEPT ![r].revision =
                            [map |-> text["map"], track |-> None]]
      <4>1. [map |-> text["map"], track |-> None] \in Revision
        BY <3>2 DEF Revision, Texts
      <4> QED
        BY <1>0, <3>2, <4>1, LocalEdit
    <3> QED
      BY <1>8, <3>1, <3>2 DEF RevisionMap, RevisedMap, RefusesMap
  <2>2. got'[r].revision \in Revision \union {None}
    BY <2>1 DEF Local
  <2>3. known' \in [Readers -> Revision \union {None}]
    BY <1>8, <2>2 DEF RevisionMap, RevisedMap, RefusesMap, WithRevision
  <2> QED
    BY <1>8, <2>1, <2>3 DEF RevisionMap, RevisedMap, RefusesMap,
                            WithRevision, Local
<1>9. CASE RevisionTrack(r)
  <2>1. got' \in [Readers -> Local]
    <3>1. CASE UNCHANGED got
      BY <1>0, <3>1
    <3>2. CASE got' = [got EXCEPT ![r].revision.track = text["track"]]
      <4>1. got[r].revision \in Revision
        BY <1>0, <1>9 DEF RevisionTrack, WithTrack, PlaceOK, Local
      <4>2. [got[r].revision EXCEPT !.track = text["track"]] \in Revision
        BY <4>1 DEF Revision, Texts
      <4> QED
        BY <1>0, <3>2, <4>2, LocalEdit
    <3> QED
      BY <1>9, <3>1, <3>2 DEF RevisionTrack, WithTrack
  <2>2. got'[r].revision \in Revision \union {None}
    BY <2>1 DEF Local
  <2>3. known' \in [Readers -> Revision \union {None}]
    BY <1>9, <2>2 DEF RevisionTrack, WithTrack, WithRevision
  <2> QED
    BY <1>9, <2>1, <2>3 DEF RevisionTrack, WithTrack, WithRevision, Local
<1>10. CASE ReadCleaning(r)
  <2>1. got' \in [Readers -> Local]
    <3>1. CASE UNCHANGED got
      BY <1>0, <3>1
    <3>2. CASE got[r].left # <<>> /\ ~UNCHANGED got
      <4> DEFINE key == Head(got[r].left)
      <4>1. key \in Keys /\ Tail(got[r].left) \in Seq(Keys)
        BY <1>0, <3>2, HeadTailProperties DEF Local
      <4>2. /\ values[key] \in 0..MaxMessages
            /\ got[r].state \in [Keys -> 0..MaxMessages]
        BY <1>0, <4>1 DEF Local
      <4>3. [got[r].state EXCEPT ![key] = values[key]]
              \in [Keys -> 0..MaxMessages]
        BY <4>2
      <4>4. got' = [got EXCEPT ![r] = [got[r] EXCEPT
                      !.state = [got[r].state EXCEPT ![key] = values[key]],
                      !.left = Tail(got[r].left)]]
        BY <1>0, <1>10, <3>2 DEF ReadCleaning, Local
      <4>5. [got[r] EXCEPT
              !.state = [got[r].state EXCEPT ![key] = values[key]],
              !.left = Tail(got[r].left)] \in Local
        BY <1>0, <4>1, <4>3, LocalEdit
      <4> QED
        BY <1>0, <4>4, <4>5
    <3> QED
      BY <1>10, <3>1, <3>2 DEF ReadCleaning
  <2> QED
    BY <1>10, <2>1 DEF ReadCleaning, Local
<1>11. CASE PngMap(r)
  <2>1. got' \in [Readers -> Local]
    <3>1. text["map"] \in MaybeText
      BY DEF MaybeText, Texts
    <3>2. CASE UNCHANGED got
      BY <1>0, <3>2
    <3>3. CASE got' = [got EXCEPT ![r].map = text["map"]]
      BY <1>0, <3>1, <3>3, LocalEdit
    <3> QED
      BY <1>11, <3>2, <3>3 DEF PngMap
  <2> QED
    BY <1>11, <2>1 DEF PngMap, Local
<1>12. CASE PngTrack(r)
  <2>1. got' \in [Readers -> Local]
    BY <1>0, <1>12, LocalEdit DEF PngTrack, MaybeText, Texts
  <2> QED
    BY <1>12, <2>1 DEF PngTrack, Local
<1> QED
  BY <1>1, <1>2, <1>3, <1>4, <1>5, <1>6, <1>7, <1>8, <1>9, <1>10, <1>11,
     <1>12 DEF Serve

-----------------------------------------------------------------------------
(* What memory, readers and clients know of each other.                     *)

\* A text is only ever replaced by a later one.
LEMMA TextsMoveForward ==
  ASSUME TypeOK, [Next]_vars
  PROVE  \A f \in Texts : Since(text'[f], text[f])
<1> SUFFICES ASSUME NEW f \in Texts
             PROVE  Since(text'[f], text[f])
  OBVIOUS
<1>1. text[f] \in MaybeText
  BY DEF TypeOK, MaybeText
<1>2. CASE UNCHANGED text
  BY <1>1, <1>2, SinceSelf
<1>3. ASSUME NEW h \in Handlers, StoreText(h)
      PROVE  Since(text'[f], text[f])
  <2>1. PICK kind \in Kinds :
          text' = [text EXCEPT ![Head(todo[h])] =
                     [nth |-> Successor(@), kind |-> kind]]
    BY <1>3 DEF StoreText
  <2>2. CASE f = Head(todo[h])
    <3>1. text'[f] = [nth |-> Successor(text[f]), kind |-> kind]
      BY <2>1, <2>2 DEF TypeOK
    <3> QED
      BY <1>1, <3>1, StoredText
  <2>3. CASE f # Head(todo[h])
    <3>1. text'[f] = text[f]
      BY <2>1, <2>3 DEF TypeOK
    <3> QED
      BY <1>1, <3>1, SinceSelf
  <2> QED
    BY <2>2, <2>3
<1>4. CASE Next
  BY <1>2, <1>3, <1>4 DEF Next, Store, Message, ValuesAtStart, StoreKey,
                          StoresKey, KeepsTexts, Serve, Request, CopyValues,
                          ReadLabel, CopyRaw, ReadAvailable, ReadMap,
                          ReadTrack, RevisionMap, RevisedMap, RefusesMap,
                          RevisionTrack, WithTrack, ReadCleaning, PngMap,
                          PngTrack, Read, Done, vars, robot
<1> QED
  BY <1>2, <1>4 DEF vars, robot

\* What was current stays current when texts move forward.
LEMMA StaysSince ==
  ASSUME NEW f \in Texts, NEW t \in MaybeText, Since(text[f], t),
         TypeOK, TypeOK', Since(text'[f], text[f])
  PROVE  Since(text'[f], t)
<1>1. text[f] \in MaybeText /\ text'[f] \in MaybeText
  BY DEF TypeOK, MaybeText
<1> QED
  BY <1>1, SinceTransitive

\* The same for the two texts of a revision.
LEMMA StaysCurrent ==
  ASSUME NEW revision \in Revision \union {None}, Current(revision),
         TypeOK, TypeOK', \A f \in Texts : Since(text'[f], text[f])
  PROVE  Current(revision)'
<1>1. CASE revision = None
  BY <1>1 DEF Current
<1>2. CASE revision \in Revision
  <2>1. revision.map \in MaybeText /\ revision.track \in MaybeText
    BY <1>2 DEF Revision, MaybeText
  <2> QED
    BY <1>2, <2>1, StaysSince, NoneIsNoText DEF Current, Texts
<1> QED
  BY <1>1, <1>2

\* Handlers only make what was read older.
LEMMA HeldHandler ==
  ASSUME TypeOK, TypeOK', HeldOK, NEW h \in Handlers, Message(h) \/ Store(h)
  PROVE  HeldOK'
<1>1. UNCHANGED api
  BY DEF Store, Message, ValuesAtStart, StoreKey, StoresKey, KeepsTexts,
         StoreText
<1>2. \A f \in Texts : Since(text'[f], text[f])
  BY TextsMoveForward DEF Next
<1> SUFFICES ASSUME NEW r \in Readers
             PROVE  /\ Since(text["map"], got[r].map)'
                    /\ Since(text["track"], got[r].track)'
                    /\ (got[r].available => text["map"] # None)'
                    /\ Current(got[r].revision)' /\ Current(known[r])'
  BY DEF HeldOK
<1>3. got' = got /\ known' = known
  BY <1>1 DEF api
<1>4. /\ got[r].map \in MaybeText /\ got[r].track \in MaybeText
      /\ got[r].revision \in Revision \union {None}
      /\ known[r] \in Revision \union {None}
      /\ "map" \in Texts /\ "track" \in Texts
  BY DEF TypeOK, MaybeText, Texts
<1>5. Since(text'["map"], got[r].map) /\ Since(text'["track"], got[r].track)
  BY <1>2, <1>4, StaysSince DEF HeldOK
<1>6. got[r].available => text'["map"] # None
  BY <1>2, <1>4 DEF HeldOK, Since
<1>7. /\ \A v \in Revision \union {None} :
           Current(v) => (v # None => /\ Since(text'["map"], v.map)
                                      /\ Since(text'["track"], v.track))
  BY <1>2, StaysCurrent DEF Current
<1> QED
  BY <1>3, <1>4, <1>5, <1>6, <1>7 DEF HeldOK, Current

\* What a reader reads is what memory holds.
LEMMA HeldReader ==
  ASSUME TypeOK, HeldOK, PlaceOK, NEW r \in Readers, Request(r) \/ Serve(r)
  PROVE  HeldOK'
<1> USE DEF robot
<1>1. UNCHANGED text
  BY DEF Serve, Request, CopyValues, ReadLabel, CopyRaw, ReadAvailable,
         ReadMap, ReadTrack, RevisionMap, RevisedMap, RefusesMap,
         RevisionTrack, WithTrack, ReadCleaning, PngMap, PngTrack, Read
<1>2. text["map"] \in MaybeText /\ text["track"] \in MaybeText
  BY DEF TypeOK, MaybeText, Texts
<1>3. /\ Since(text["map"], text["map"]) /\ Since(text["track"], text["track"])
      /\ Since(text["map"], None) /\ Since(text["track"], None)
  BY <1>2, SinceSelf DEF Since
<1> SUFFICES ASSUME NEW o \in Readers
             PROVE  /\ Since(text["map"], got'[o].map)
                    /\ Since(text["track"], got'[o].track)
                    /\ got'[o].available => text["map"] # None
                    /\ Current(got'[o].revision) /\ Current(known'[o])
  BY <1>1 DEF HeldOK, Current
<1>4. /\ Since(text["map"], got[o].map) /\ Since(text["track"], got[o].track)
      /\ got[o].available => text["map"] # None
      /\ Current(got[o].revision) /\ Current(known[o])
  BY DEF HeldOK
<1>5. CASE o # r
  <2>1. got'[o] = got[o] /\ known'[o] = known[o]
    BY <1>5 DEF TypeOK, Serve, Request, CopyValues, ReadLabel, CopyRaw,
                ReadAvailable, ReadMap, ReadTrack, RevisionMap, RevisedMap,
                RefusesMap, RevisionTrack, WithTrack, ReadCleaning, PngMap,
                PngTrack, Read, WithRevision
  <2> QED
    BY <1>4, <2>1
<1>6. CASE o = r
  <2> USE <1>6 DEF TypeOK
  <2>1. CASE Request(r)
    <3>1. /\ got'[r].map = None /\ got'[r].track = None
          /\ got'[r].available = FALSE /\ got'[r].revision = None
          /\ known' = known
      BY <2>1 DEF Request, Blank
    <3> QED
      BY <1>3, <1>4, <3>1 DEF Current
  <2>2. CASE \/ CopyValues(r) \/ ReadLabel(r) \/ CopyRaw(r)
             \/ ReadCleaning(r)
    <3>1. /\ got'[r].map = got[r].map /\ got'[r].track = got[r].track
          /\ got'[r].available = got[r].available
          /\ got'[r].revision = got[r].revision /\ known' = known
      BY <2>2 DEF CopyValues, ReadLabel, CopyRaw, ReadCleaning, Read
    <3> QED
      BY <1>4, <3>1
  <2>3. CASE ReadAvailable(r)
    BY <1>4, <2>3 DEF ReadAvailable, Read
  <2>4. CASE ReadMap(r)
    BY <1>3, <1>4, <2>4 DEF ReadMap, Read
  <2>5. CASE ReadTrack(r)
    BY <1>3, <1>4, <2>5 DEF ReadTrack, Read
  <2>6. CASE RevisionMap(r)
    <3>1. /\ got'[r].map = got[r].map /\ got'[r].track = got[r].track
          /\ got'[r].available = got[r].available
      BY <2>6 DEF RevisionMap, RevisedMap, RefusesMap
    <3>2. Current(got'[r].revision)
      BY <1>3, <1>4, <2>6 DEF RevisionMap, RevisedMap, RefusesMap, Current
    <3>3. known'[r] \in {known[r], got'[r].revision}
      BY <2>6 DEF RevisionMap, RevisedMap, RefusesMap, WithRevision
    <3> QED
      BY <1>4, <3>1, <3>2, <3>3
  <2>7. CASE RevisionTrack(r)
    <3>1. /\ got'[r].map = got[r].map /\ got'[r].track = got[r].track
          /\ got'[r].available = got[r].available
      BY <2>7 DEF RevisionTrack, WithTrack
    <3>2. Current(got'[r].revision)
      <4>1. CASE got' = got
        BY <1>4, <4>1
      <4>2. CASE got' = [got EXCEPT ![r].revision.track = text["track"]]
        <5>1. got[r].revision \in Revision
          BY <2>7 DEF RevisionTrack, WithTrack, PlaceOK
        <5>2. /\ got'[r].revision.map = got[r].revision.map
              /\ got'[r].revision.track = text["track"]
          BY <4>2, <5>1 DEF Revision
        <5> QED
          BY <1>3, <1>4, <5>1, <5>2, NoneIsNoText DEF Current
      <4> QED
        BY <2>7, <4>1, <4>2 DEF RevisionTrack, WithTrack
    <3>3. known'[r] \in {known[r], got'[r].revision}
      BY <2>7 DEF RevisionTrack, WithTrack, WithRevision
    <3> QED
      BY <1>4, <3>1, <3>2, <3>3
  <2>8. CASE PngMap(r)
    BY <1>3, <1>4, <2>8 DEF PngMap
  <2>9. CASE PngTrack(r)
    BY <1>3, <1>4, <2>9 DEF PngTrack
  <2> QED
    BY <2>1, <2>2, <2>3, <2>4, <2>5, <2>6, <2>7, <2>8, <2>9 DEF Serve
<1> QED
  BY <1>5, <1>6

-----------------------------------------------------------------------------
(* Places, answers, and the three properties.                               *)

\* The answers of readers and where they stand are not the handlers' business.
LEMMA PlaceHandler ==
  ASSUME PlaceOK, AvailableHasRevision, RevisionNotOlder,
         ImageNotOlderThanRevision,
         NEW h \in Handlers, Message(h) \/ Store(h)
  PROVE  /\ PlaceOK' /\ AvailableHasRevision' /\ RevisionNotOlder'
         /\ ImageNotOlderThanRevision'
<1>1. /\ pc' = pc /\ got' = got /\ answer' = answer /\ known' = known
  BY DEF Store, Message, ValuesAtStart, StoreKey, StoresKey, KeepsTexts,
         StoreText, api
<1> QED
  BY <1>1 DEF PlaceOK, AvailableHasRevision, RevisionNotOlder,
     ImageNotOlderThanRevision, Answered, RevisionCovers

\* What the four say about one reader.
ReaderOK(r) ==
  /\ pc[r] # "idle" => answer[r] = "none"
  /\ pc[r] \in {"values", "label", "raw", "available"} =>
       got[r].request = "status"
  /\ pc[r] \in {"map", "track", "cleaning"} => got[r].request = "map"
  /\ pc[r] \in {"png_map", "png_track"} => got[r].request = "png"
  /\ pc[r] \in {"rev_map", "rev_track"} => got[r].request \in {"status", "map"}
  /\ pc[r] \in {"values", "label", "raw", "available", "map", "track",
               "rev_map"} => got[r].revision = None
  /\ pc[r] = "rev_track" =>
       got[r].revision # None /\ Since(got[r].revision.map, got[r].map)
  /\ pc[r] = "cleaning" => RevisionCovers(r)
  /\ pc[r] = "png_track" /\ known[r] # None =>
       Since(got[r].map, known[r].map)
  /\ Answered(r, "status", "200") /\ got[r].available =>
       got[r].revision # None
  /\ Answered(r, "map", "200") => RevisionCovers(r)
  /\ got[r].request = "png" /\ known[r] # None =>
       /\ answer[r] # "404"
       /\ answer[r] \in {"200", "422"} =>
            /\ Since(got[r].map, known[r].map)
            /\ Since(got[r].track, known[r].track)

\* Together they say it about every reader.
LEMMA ReaderByReader ==
  (\A r \in Readers : ReaderOK(r))
    <=> /\ PlaceOK /\ AvailableHasRevision /\ RevisionNotOlder
        /\ ImageNotOlderThanRevision
BY DEF ReaderOK, PlaceOK, AvailableHasRevision, RevisionNotOlder,
   ImageNotOlderThanRevision

\* A step of a reader keeps what is said about it.
LEMMA ReaderStep ==
  ASSUME TypeOK, HeldOK, NEW r \in Readers, ReaderOK(r), Request(r) \/ Serve(r)
  PROVE  ReaderOK(r)'
<1> USE DEF TypeOK, ReaderOK, Answered, Goto, Respond, robot
<1>1. CASE Request(r)
  BY <1>1 DEF Request, Requests, Blank, RevisionCovers
<1>2. CASE CopyValues(r)
  BY <1>2 DEF CopyValues, Read
<1>3. CASE ReadLabel(r)
  BY <1>3 DEF ReadLabel, Read
<1>4. CASE CopyRaw(r)
  BY <1>4 DEF CopyRaw
<1>5. CASE ReadAvailable(r)
  BY <1>5 DEF ReadAvailable, Read
<1>6. CASE ReadMap(r)
  BY <1>6 DEF ReadMap, Read
<1>7. CASE ReadTrack(r)
  BY <1>7 DEF ReadTrack, Read
<1>8. CASE RevisionMap(r)
  <2>1. /\ pc[r] = "rev_map" /\ answer[r] = "none"
        /\ got[r].request \in {"status", "map"} /\ got[r].revision = None
    BY <1>8 DEF RevisionMap, RevisedMap, RefusesMap
  <2>2. Since(text["map"], got[r].map)
    BY DEF HeldOK
  <2>3. CASE text["map"] = None
    <3>1. got' = got
      BY <1>8, <2>3 DEF RevisionMap, RevisedMap, RefusesMap, Foreign
    <3>2. ~got[r].available /\ got[r].map = None
      BY <2>2, <2>3 DEF HeldOK, Since
    <3>3. WithRevision(r)
      BY <1>8, <2>3 DEF RevisionMap, RevisedMap, RefusesMap, Foreign
    <3>4. RevisionCovers(r)'
      BY <2>1, <3>1, <3>2 DEF RevisionCovers
    <3> QED
      BY <2>1, <3>1, <3>2, <3>3, <3>4 DEF WithRevision
  <2>4. CASE Foreign(text["map"])
    <3>1. answer'[r] = "400" /\ pc'[r] = "idle" /\ got' = got
      BY <1>8, <2>4 DEF RevisionMap, RevisedMap, RefusesMap, Foreign
    <3> QED
      BY <2>1, <3>1
  <2>5. CASE text["map"] # None /\ ~Foreign(text["map"])
    <3>1. /\ answer' = answer /\ pc'[r] = "rev_track"
          /\ got' = [got EXCEPT ![r].revision =
                       [map |-> text["map"], track |-> None]]
      BY <1>8, <2>5 DEF RevisionMap, RevisedMap, RefusesMap
    <3>2. /\ got'[r].revision = [map |-> text["map"], track |-> None]
          /\ got'[r].map = got[r].map /\ got'[r].request = got[r].request
      BY <3>1
    <3>3. [map |-> text["map"], track |-> None] # None
      <4>1. [map |-> text["map"], track |-> None] \in Revision
        BY <2>5 DEF Revision, Texts
      <4> QED
        BY <4>1, NoneIsNoText
    <3>4. got'[r].revision # None /\ Since(got'[r].revision.map, got'[r].map)
      BY <2>2, <3>2, <3>3
    <3> QED
      BY <2>1, <3>1, <3>2, <3>4
  <2> QED
    BY <2>3, <2>4, <2>5
<1>9. CASE RevisionTrack(r)
  <2>1. /\ pc[r] = "rev_track" /\ answer[r] = "none"
        /\ got[r].request \in {"status", "map"} /\ got[r].revision # None
        /\ Since(got[r].revision.map, got[r].map)
    BY <1>9 DEF RevisionTrack, WithTrack
  <2>2. CASE Foreign(text["track"])
    <3>1. answer'[r] = "400" /\ pc'[r] = "idle" /\ got' = got
      BY <1>9, <2>2 DEF RevisionTrack, WithTrack
    <3> QED
      BY <2>1, <3>1
  <2>3. CASE ~Foreign(text["track"])
    <3>1. /\ got' = [got EXCEPT ![r].revision.track = text["track"]]
          /\ WithRevision(r)
      BY <1>9, <2>3 DEF RevisionTrack, WithTrack
    <3>2. got[r].revision \in Revision
      BY <2>1
    <3>3. /\ got'[r].revision.map = got[r].revision.map
          /\ got'[r].revision.track = text["track"]
          /\ got'[r].map = got[r].map /\ got'[r].track = got[r].track
          /\ got'[r].request = got[r].request
      BY <3>1, <3>2 DEF Revision
    <3>4. got'[r].revision # None
      <4>1. got'[r].revision = [got[r].revision EXCEPT !.track = text["track"]]
        BY <3>1
      <4>2. [got[r].revision EXCEPT !.track = text["track"]] \in Revision
        BY <3>2 DEF Revision, Texts
      <4> QED
        BY <4>1, <4>2, NoneIsNoText
    <3>5. Since(text["track"], got[r].track)
      BY DEF HeldOK
    <3>6. RevisionCovers(r)'
      BY <2>1, <3>3, <3>4, <3>5 DEF RevisionCovers
    <3>7. CASE got[r].request = "status"
      <4>1. answer'[r] = "200" /\ pc'[r] = "idle"
        BY <3>1, <3>7 DEF WithRevision
      <4> QED
        BY <3>3, <3>4, <3>7, <4>1
    <3>8. CASE got[r].request = "map"
      <4>1. answer'[r] = "none" /\ pc'[r] = "cleaning"
        BY <2>1, <3>1, <3>8 DEF WithRevision
      <4> QED
        BY <3>3, <3>6, <3>8, <4>1
    <3> QED
      BY <2>1, <3>7, <3>8
  <2> QED
    BY <2>2, <2>3
<1>10. CASE ReadCleaning(r)
  <2>1. /\ pc[r] = "cleaning" /\ answer[r] = "none"
        /\ got[r].request = "map" /\ RevisionCovers(r)
    BY <1>10 DEF ReadCleaning
  <2>2. /\ got'[r].map = got[r].map /\ got'[r].track = got[r].track
        /\ got'[r].revision = got[r].revision
        /\ got'[r].request = got[r].request
    BY <1>10 DEF ReadCleaning
  <2>3. RevisionCovers(r)'
    BY <2>1, <2>2 DEF RevisionCovers
  <2>4. \/ pc'[r] = "cleaning" /\ answer'[r] = "none"
        \/ pc'[r] = "idle" /\ answer'[r] = "200"
    BY <1>10, <2>1 DEF ReadCleaning
  <2> QED
    BY <2>1, <2>2, <2>3, <2>4
<1>11. CASE PngMap(r)
  <2>1. /\ pc[r] = "png_map" /\ answer[r] = "none"
        /\ got[r].request = "png" /\ known' = known
    BY <1>11 DEF PngMap
  <2>2. known[r] # None =>
          text["map"] # None /\ Since(text["map"], known[r].map)
    <3>1. known[r] # None => known[r].map \in Text
      BY DEF Revision
    <3> QED
      BY <3>1, NoneIsNoText DEF HeldOK, Current, Since
  <2>3. CASE text["map"] = None
    <3>1. pc'[r] = "idle" /\ answer'[r] = "404" /\ got' = got
      BY <1>11, <2>3 DEF PngMap
    <3> QED
      BY <2>1, <2>2, <2>3, <3>1
  <2>4. CASE text["map"] # None
    <3>1. /\ pc'[r] = "png_track" /\ answer' = answer
          /\ got'[r].map = text["map"] /\ got'[r].request = "png"
      BY <1>11, <2>1, <2>4 DEF PngMap
    <3> QED
      BY <2>1, <2>2, <3>1
  <2> QED
    BY <2>3, <2>4
<1>12. CASE PngTrack(r)
  BY <1>12, NoneIsNoText DEF PngTrack, HeldOK, Current
<1> QED
  BY <1>1, <1>2, <1>3, <1>4, <1>5, <1>6, <1>7, <1>8, <1>9, <1>10, <1>11,
     <1>12 DEF Serve

\* A step of a reader does not touch the others.
LEMMA OtherReaders ==
  ASSUME TypeOK, NEW r \in Readers, Request(r) \/ Serve(r),
         NEW o \in Readers, o # r, ReaderOK(o)
  PROVE  ReaderOK(o)'
<1>1. /\ got'[o] = got[o] /\ known'[o] = known[o]
      /\ pc'[o] = pc[o] /\ answer'[o] = answer[o]
  BY DEF TypeOK, Serve, Request, CopyValues, ReadLabel, CopyRaw,
         ReadAvailable, ReadMap, ReadTrack, RevisionMap, RevisedMap,
         RefusesMap, RevisionTrack, WithTrack, ReadCleaning, PngMap,
         PngTrack, Read, WithRevision, Goto, Respond
<1> QED
  BY <1>1 DEF ReaderOK, Answered, RevisionCovers

\* Nothing has been read and nobody has been told anything at the start.
LEMMA InvInit == Init => IInv
<1> SUFFICES ASSUME Init PROVE IInv
  OBVIOUS
<1>1. TypeOK
  BY TypeInit
<1>2. HeldOK
  BY DEF Init, Blank, HeldOK, Since, Current
<1>3. \A r \in Readers : ReaderOK(r)
  BY DEF Init, Blank, ReaderOK, Answered
<1> QED
  BY <1>1, <1>2, <1>3, ReaderByReader DEF IInv

\* Every step keeps the invariant.
LEMMA InvNext == IInv /\ [Next]_vars => IInv'
<1> SUFFICES ASSUME IInv, [Next]_vars PROVE IInv'
  OBVIOUS
<1> USE DEF IInv
<1>1. ASSUME NEW h \in Handlers, Message(h) \/ Store(h)
      PROVE  IInv'
  BY <1>1, TypeHandler, HeldHandler, PlaceHandler
<1>2. ASSUME NEW r \in Readers, Request(r) \/ Serve(r)
      PROVE  IInv'
  <2>1. TypeOK' /\ HeldOK'
    BY <1>2, TypeReader, HeldReader
  <2>2. \A o \in Readers : ReaderOK(o)
    BY ReaderByReader
  <2>3. \A o \in Readers : ReaderOK(o)'
    BY <1>2, <2>2, ReaderStep, OtherReaders
  <2>4. /\ PlaceOK' /\ AvailableHasRevision' /\ RevisionNotOlder'
        /\ ImageNotOlderThanRevision'
    BY <2>3 DEF ReaderOK, PlaceOK, AvailableHasRevision, RevisionNotOlder,
       ImageNotOlderThanRevision
  <2> QED
    BY <2>1, <2>4
<1>3. CASE UNCHANGED vars
  BY <1>3 DEF vars, robot, api, TypeOK, HeldOK, PlaceOK, Current, Since,
     AvailableHasRevision, RevisionNotOlder, ImageNotOlderThanRevision,
     Answered, RevisionCovers
<1> QED
  BY <1>1, <1>2, <1>3 DEF Next, Done

-----------------------------------------------------------------------------
(* The theorems.                                                            *)

\* What memory, readers and clients know of each other always holds
\* (state.py, service.py, the GET requests of api_server.py).
THEOREM Invariant == Spec => []IInv
BY InvInit, InvNext, PTL DEF Spec

\* Every variable always holds a value of its kind.
THEOREM TypeCorrect == Spec => []TypeOK
<1>1. IInv => TypeOK
  BY DEF IInv
<1> QED
  BY <1>1, Invariant, PTL

\* A status that announces a map has its revision, however the stores of the
\* handlers fall between the reads of public_snapshot and map_revision.
THEOREM AvailableIsRevised == Spec => []AvailableHasRevision
<1>1. IInv => AvailableHasRevision
  BY DEF IInv
<1> QED
  BY <1>1, Invariant, PTL

\* A map answer never carries a revision older than its map or track.
THEOREM RevisionIsFresh == Spec => []RevisionNotOlder
<1>1. IInv => RevisionNotOlder
  BY DEF IInv
<1> QED
  BY <1>1, Invariant, PTL

\* A client that knows a revision never gets an older image, nor a 404.
THEOREM ImageIsFresh == Spec => []ImageNotOlderThanRevision
<1>1. IInv => ImageNotOlderThanRevision
  BY DEF IInv
<1> QED
  BY <1>1, Invariant, PTL

-----------------------------------------------------------------------------
(* What is stored: one message after the other.                             *)

Settled == \A k \in Range(StatusKeys) : values[k] = values["workState"]

\* What handler h has left is the end of the status keys, of which it has
\* stored the beginning, or none of them.
Storing(h) ==
  LET n == Len(StatusKeys) - Len(todo[h])
  IN  \/ Settled /\ Range(todo[h]) \intersect Range(StatusKeys) = {}
      \/ /\ n >= 0 /\ (n = 0 => Settled)
         /\ \A i \in 1..Len(todo[h]) : todo[h][i] = StatusKeys[n + i]
         /\ \A i \in 1..n : values[StatusKeys[i]] = msg[h]

\* Updates that have not overlapped come one after the other, and the one in
\* hand is that of the last message.
StoreOK ==
  /\ \A k \in Keys : values[k] <= messages
  /\ \A h \in Handlers : msg[h] <= messages
  /\ ~raced =>
       /\ \A h, o \in Handlers : todo[h] # <<>> /\ todo[o] # <<>> => h = o
       /\ \A h \in Handlers : todo[h] # <<>> => msg[h] = messages /\ Storing(h)
       /\ (\A h \in Handlers : todo[h] = <<>>) => Settled

\* Keys and texts have different names, and so have the two kinds of keys.
LEMMA Names ==
  /\ "workState" \in Range(StatusKeys) /\ Range(StatusKeys) \subseteq Keys
  /\ Keys \intersect Texts = {}
  /\ Range(CleaningKeys) \intersect Range(StatusKeys) = {}
  /\ \A i \in 1..Len(StatusKeys) : StatusKeys[i] \in Range(StatusKeys)
BY KeySequences, KeysAreDistinct, FirstKey DEF Keys, Texts, Range

\* A message brings all status keys or none.
LEMMA ItemsStatus ==
  ASSUME NEW items \in Items
  PROVE  items = StatusKeys \/ Range(items) \intersect Range(StatusKeys) = {}
<1>1. CASE items = <<>>
  BY <1>1 DEF Range
<1>2. ASSUME NEW s \in {<<>>, <<"map">>, <<"track">>, <<"map", "track">>},
             items = CleaningKeys \o s
      PROVE  Range(items) \intersect Range(StatusKeys) = {}
  <2>1. s \in Seq(Texts)
    <3>1. "map" \in Texts /\ "track" \in Texts
      BY DEF Texts
    <3>2. /\ <<>> \in Seq(Texts)
          /\ <<"map">> \in Seq(Texts) /\ <<"track">> \in Seq(Texts)
          /\ <<"map", "track">> \in Seq(Texts)
      BY <3>1
    <3> QED
      BY <3>2
  <2>2. /\ s \in Seq(Keys \union Texts) /\ \A i \in 1..Len(s) : s[i] \in Texts
        /\ CleaningKeys \in Seq(Keys \union Texts)
    BY <2>1, KeyTypes
  <2>3. ASSUME NEW x \in Range(items) PROVE x \in Range(CleaningKeys) \union Texts
    <3>1. PICK i \in 1..Len(items) : items[i] = x
      BY <1>2, <2>2, KeySequences, ConcatProperties DEF Range
    <3>2. CASE i <= Len(CleaningKeys)
      <4>1. x = CleaningKeys[i] /\ i \in 1..Len(CleaningKeys)
        BY <1>2, <2>2, <3>1, <3>2, KeySequences, ConcatProperties
      <4> QED
        BY <4>1, KeySequences DEF Range
    <3>3. CASE i > Len(CleaningKeys)
      <4>1. x = s[i - Len(CleaningKeys)] /\ i - Len(CleaningKeys) \in 1..Len(s)
        BY <1>2, <2>2, <3>1, <3>3, KeySequences, ConcatProperties
      <4> QED
        BY <2>2, <4>1
    <3> QED
      BY <3>1, <3>2, <3>3, KeySequences
  <2> QED
    BY <2>3, Names
<1> QED
  BY <1>1, <1>2 DEF Items

\* The rest of what is to be stored is part of it.
LEMMA Rest ==
  ASSUME NEW s \in Seq(Keys \union Texts), s # <<>>
  PROVE  /\ Len(s) \in Nat \ {0} /\ Tail(s) \in Seq(Keys \union Texts)
         /\ Len(Tail(s)) = Len(s) - 1 /\ Head(s) = s[1]
         /\ \A i \in 1..Len(Tail(s)) : Tail(s)[i] = s[i + 1]
         /\ Range(Tail(s)) \subseteq Range(s) /\ Head(s) \in Range(s)
<1>1. /\ Len(s) \in Nat \ {0} /\ Tail(s) \in Seq(Keys \union Texts)
      /\ Len(Tail(s)) = Len(s) - 1 /\ Head(s) = s[1]
      /\ \A i \in 1..Len(Tail(s)) : Tail(s)[i] = s[i + 1]
  BY HeadTailProperties
<1>2. /\ \A x \in Range(Tail(s)) : \E i \in 1..Len(Tail(s)) : Tail(s)[i] = x
      /\ \A i \in 1..Len(s) : s[i] \in Range(s)
  BY <1>1 DEF Range
<1> QED
  BY <1>1, <1>2

\* One message more, which races with none or with others.
LEMMA StoreMessage ==
  ASSUME TypeOK, StoreOK, NEW h \in Handlers, Message(h)
  PROVE  StoreOK'
<1>1. PICK items \in Items : todo' = [todo EXCEPT ![h] = items]
  BY DEF Message
<1>2. /\ messages \in Nat /\ messages' = messages + 1 /\ values' = values
      /\ msg' = [msg EXCEPT ![h] = messages'] /\ todo[h] = <<>>
      /\ raced' = (raced \/ \E o \in Handlers : todo[o] # <<>>)
      /\ msg \in [Handlers -> 0..MaxMessages] /\ values \in [Keys -> 0..MaxMessages]
      /\ todo \in [Handlers -> Seq(Keys \union Texts)]
  BY Bounds DEF Message, ValuesAtStart, TypeOK
<1>3. /\ \A k \in Keys : values'[k] <= messages'
      /\ \A o \in Handlers : msg'[o] <= messages'
  <2>1. \A k \in Keys : values[k] \in Nat /\ values[k] <= messages
    BY <1>2, Bounds DEF StoreOK
  <2>2. \A o \in Handlers : msg[o] \in Nat /\ msg[o] <= messages
    BY <1>2, Bounds DEF StoreOK
  <2> QED
    BY <1>2, <2>1, <2>2
<1>4. ASSUME ~raced'
      PROVE  /\ \A o \in Handlers \ {h} : todo'[o] = <<>>
             /\ Settled' /\ msg'[h] = messages' /\ Storing(h)'
  <2>1. ~raced /\ \A o \in Handlers : todo[o] = <<>>
    BY <1>2, <1>4
  <2>2. Settled'
    BY <1>2, <2>1 DEF StoreOK, Settled
  <2>3. todo'[h] = items
    BY <1>1, <1>2
  <2>4. CASE items = StatusKeys
    <3>1. Len(StatusKeys) \in Nat /\ Len(todo'[h]) = Len(StatusKeys)
      BY <2>3, <2>4, KeySequences
    <3> QED
      BY <1>1, <1>2, <2>1, <2>2, <2>3, <2>4, <3>1 DEF Storing
  <2>5. CASE Range(items) \intersect Range(StatusKeys) = {}
    BY <1>1, <1>2, <2>1, <2>2, <2>3, <2>5 DEF Storing
  <2> QED
    BY <2>4, <2>5, ItemsStatus
<1> QED
  BY <1>3, <1>4 DEF StoreOK

\* One item less.
LEMMA StoreItem ==
  ASSUME TypeOK, StoreOK, NEW h \in Handlers, Store(h)
  PROVE  StoreOK'
<1>0. /\ messages \in Nat /\ messages' = messages
      /\ msg' = msg /\ raced' = raced /\ todo[h] # <<>>
      /\ todo' = [todo EXCEPT ![h] = Tail(todo[h])]
      /\ \/ values' = [values EXCEPT ![Head(todo[h])] = msg[h]] /\ Head(todo[h]) \in Keys
         \/ values' = values /\ Head(todo[h]) \in Texts
      /\ msg \in [Handlers -> 0..MaxMessages] /\ values \in [Keys -> 0..MaxMessages]
      /\ todo \in [Handlers -> Seq(Keys \union Texts)]
  BY Bounds DEF Store, StoreKey, StoresKey, StoreText, TypeOK
<1>1. \A k \in Keys : values'[k] <= messages'
  BY <1>0 DEF StoreOK
<1>2. ASSUME ~raced
      PROVE  /\ \A o \in Handlers \ {h} : todo'[o] = <<>>
             /\ msg'[h] = messages'
             /\ todo'[h] # <<>> => Storing(h)'
             /\ todo'[h] = <<>> => Settled'
  <2>1. /\ \A o \in Handlers \ {h} : todo[o] = <<>>
        /\ msg[h] = messages /\ Storing(h)
    BY <1>0, <1>2 DEF StoreOK
  <2> DEFINE s == todo[h]
             n == Len(StatusKeys) - Len(s)
  <2>2. /\ Len(s) \in Nat \ {0} /\ Len(Tail(s)) = Len(s) - 1 /\ Head(s) = s[1]
        /\ \A i \in 1..Len(Tail(s)) : Tail(s)[i] = s[i + 1]
        /\ Range(Tail(s)) \subseteq Range(s) /\ Head(s) \in Range(s)
        /\ Tail(s) \in Seq(Keys \union Texts)
    BY <1>0, Rest
  <2>3. todo'[h] = Tail(s)
    BY <1>0
  <2>4. CASE Settled /\ Range(s) \intersect Range(StatusKeys) = {}
    <3>1. \A k \in Range(StatusKeys) : values'[k] = values[k]
      BY <1>0, <2>2, <2>4, Names
    <3>2. Settled'
      BY <2>4, <3>1, Names DEF Settled
    <3> QED
      BY <1>0, <2>1, <2>2, <2>3, <2>4, <3>2 DEF Storing
  <2>5. CASE /\ n >= 0
             /\ \A i \in 1..Len(s) : s[i] = StatusKeys[n + i]
             /\ \A i \in 1..n : values[StatusKeys[i]] = msg[h]
    <3>1. /\ n \in Nat /\ Len(StatusKeys) \in Nat
          /\ n + 1 \in 1..Len(StatusKeys)
      BY <2>2, <2>5, KeySequences
    <3>2. Head(s) = StatusKeys[n + 1] /\ Head(s) \in Keys
      <4>1. 1 \in 1..Len(s)
        BY <2>2
      <4>2. s[1] = StatusKeys[n + 1]
        BY <2>5, <4>1
      <4>3. StatusKeys[n + 1] \in Keys
        BY <3>1, Names
      <4> QED
        BY <2>2, <4>2, <4>3
    <3>3. values' = [values EXCEPT ![StatusKeys[n + 1]] = msg[h]]
      BY <1>0, <3>2, Names
    <3>4. \A i \in 1..(n + 1) : values'[StatusKeys[i]] = msg'[h]
      <4>1. ASSUME NEW i \in 1..(n + 1) PROVE values'[StatusKeys[i]] = msg[h]
        <5>1. StatusKeys[i] \in Keys
          BY <3>1, Names
        <5>2. i = n + 1 \/ i \in 1..n
          BY <3>1
        <5> QED
          BY <1>0, <2>5, <3>3, <5>1, <5>2
      <4> QED
        BY <1>0, <4>1
    <3>5. Len(StatusKeys) - Len(Tail(s)) = n + 1
      <4>1. \A a, b \in Nat : a - (b - 1) = (a - b) + 1
        OBVIOUS
      <4>2. Len(s) \in Nat /\ Len(Tail(s)) = Len(s) - 1
        BY <2>2
      <4> QED
        BY <3>1, <4>1, <4>2
    <3>6. \A i \in 1..Len(Tail(s)) : Tail(s)[i] = StatusKeys[(n + 1) + i]
      <4>1. ASSUME NEW i \in 1..Len(Tail(s))
            PROVE  Tail(s)[i] = StatusKeys[(n + 1) + i]
        <5>1. i + 1 \in 1..Len(s) /\ n + (i + 1) = (n + 1) + i
          BY <2>2, <3>1
        <5> QED
          BY <2>2, <2>5, <5>1
      <4> QED
        BY <4>1
    <3>7. Storing(h)'
      <4> DEFINE m == n + 1
      <4>1. m \in Nat /\ m # 0 /\ m >= 0
        BY <3>1
      <4>2. Len(StatusKeys) - Len(todo'[h]) = m
        BY <2>3, <3>5
      <4>3. /\ \A i \in 1..Len(todo'[h]) : todo'[h][i] = StatusKeys[m + i]
            /\ \A i \in 1..m : values'[StatusKeys[i]] = msg'[h]
        BY <2>3, <3>4, <3>6
      <4> HIDE DEF m
      <4> QED
        BY <4>1, <4>2, <4>3 DEF Storing
    <3>8. CASE Tail(s) = <<>>
      <4>1. n + 1 = Len(StatusKeys)
        <5>1. Len(Tail(s)) = Len(<<>>) /\ Len(<<>>) = 0
          BY <3>8
        <5>2. Len(StatusKeys) - 0 = Len(StatusKeys)
          BY <3>1
        <5> QED
          BY <3>5, <5>1, <5>2
      <4>2. \A k \in Range(StatusKeys) : \E i \in 1..(n + 1) : StatusKeys[i] = k
        BY <4>1, KeySequences DEF Range
      <4>3. Settled'
        BY <3>4, <4>2, Names DEF Settled
      <4> QED
        BY <1>0, <2>1, <3>7, <4>3
    <3> QED
      BY <1>0, <2>1, <2>3, <3>7, <3>8
  <2> QED
    BY <2>1, <2>4, <2>5 DEF Storing
<1> QED
  BY <1>0, <1>1, <1>2 DEF StoreOK

\* Readers store nothing.
LEMMA ReadersStoreNothing ==
  ASSUME NEW r \in Readers, Request(r) \/ Serve(r)
  PROVE  UNCHANGED robot
BY DEF Serve, Request, CopyValues, ReadLabel, CopyRaw, ReadAvailable, ReadMap,
   ReadTrack, RevisionMap, RevisionTrack, ReadCleaning, PngMap, PngTrack, Read

LEMMA StoreNext ==
  ASSUME IInv, StoreOK, [Next]_vars
  PROVE  StoreOK'
<1>1. CASE UNCHANGED robot
  BY <1>1 DEF robot, StoreOK, Storing, Settled
<1> QED
  BY <1>1, StoreMessage, StoreItem, ReadersStoreNothing DEF Next, Done, IInv, vars

\* Between messages, the status keys are those of one message.
THEOREM SettledIsWhole == Spec => []SettledStateIsWhole
<1>1. Init => StoreOK
  BY Names, Bounds DEF Init, StoreOK, Settled
<1>2. StoreOK => SettledStateIsWhole
  BY DEF StoreOK, Settled, SettledStateIsWhole
<1> QED
  BY <1>1, <1>2, StoreNext, Invariant, PTL DEF Spec

-----------------------------------------------------------------------------
(* The label of a status.                                                   *)

\* A status has an older work state than the memory, and a newer label.
LabelOK ==
  ~raced => \A r \in Readers : got[r].request = "status" =>
    /\ got[r].state["workState"] <= values["workState"]
    /\ pc[r] # "label" => got[r].label >= got[r].state["workState"]

\* The work state only moves forward while updates do not overlap.
LEMMA LabelHandler ==
  ASSUME TypeOK, StoreOK, LabelOK, NEW h \in Handlers, Message(h) \/ Store(h)
  PROVE  LabelOK'
<1>1. /\ got' = got /\ pc' = pc /\ (raced => raced')
      /\ \/ values' = values
         \/ values' = [values EXCEPT ![Head(todo[h])] = msg[h]] /\ todo[h] # <<>>
  <2>1. CASE Message(h)
    BY <2>1 DEF Message, ValuesAtStart, api
  <2>2. CASE Store(h)
    BY <2>2 DEF Store, StoreKey, StoresKey, StoreText, api
  <2> QED
    BY <2>1, <2>2
<1>2. ~raced => values'["workState"] >= values["workState"]
  <2>1. /\ "workState" \in Keys /\ values \in [Keys -> 0..MaxMessages]
        /\ values["workState"] \in Nat /\ messages \in Nat
    BY KeyTypes, Bounds DEF TypeOK
  <2>2. values["workState"] <= messages
    BY <2>1 DEF StoreOK
  <2> QED
    BY <1>1, <2>1, <2>2 DEF StoreOK
<1>3. \A r \in Readers : got[r].state["workState"] \in Nat
  BY KeyTypes, Bounds DEF TypeOK
<1>4. values["workState"] \in Nat /\ values'["workState"] \in Nat
  <2>1. \A o \in Handlers : msg[o] \in Nat
    BY Bounds DEF TypeOK
  <2> QED
    BY <1>1, <2>1, KeyTypes, Bounds DEF TypeOK
<1> QED
  BY <1>1, <1>2, <1>3, <1>4 DEF LabelOK

\* The copy of the values comes first, then the label.
LEMMA LabelReader ==
  ASSUME TypeOK, PlaceOK, LabelOK, NEW r \in Readers, Request(r) \/ Serve(r)
  PROVE  LabelOK'
<1>0. /\ got \in [Readers -> Local] /\ pc \in [Readers -> {"idle"} \union Reading]
      /\ "workState" \in Keys /\ values["workState"] \in Nat
      /\ values' = values /\ raced' = raced
  BY KeyTypes, Bounds, ReadersStoreNothing DEF TypeOK, Local, robot
<1>1. \A o \in Readers \ {r} : got'[o] = got[o] /\ pc'[o] = pc[o]
  BY DEF TypeOK, Goto, Respond, Serve, Request, CopyValues, ReadLabel, CopyRaw,
     ReadAvailable, ReadMap, ReadTrack, RevisionMap, RefusesMap, RevisionTrack,
     WithTrack, WithRevision, ReadCleaning, PngMap, PngTrack, Read
<1> SUFFICES ASSUME ~raced, got'[r].request = "status"
             PROVE  /\ got'[r].state["workState"] <= values["workState"]
                    /\ pc'[r] # "label" =>
                         got'[r].label >= got'[r].state["workState"]
  BY <1>0, <1>1 DEF LabelOK
<1>2. CASE Request(r)
  <2>1. got'[r].state["workState"] = 0 /\ got'[r].label = 0
    BY <1>0, <1>2 DEF Request, Blank
  <2> QED
    BY <1>0, <2>1
<1>3. CASE CopyValues(r)
  BY <1>0, <1>3 DEF CopyValues, Read, Goto, Local
<1>4. CASE ReadLabel(r)
  <2>1. got[r].request = "status" /\ got[r].state["workState"] <= values["workState"]
    BY <1>4 DEF ReadLabel, PlaceOK, LabelOK, Read
  <2>2. got'[r].state = got[r].state /\ got'[r].label = values["workState"]
    BY <1>0, <1>4 DEF ReadLabel, Read, Local
  <2> QED
    BY <2>1, <2>2
<1>5. CASE ~Request(r) /\ ~CopyValues(r) /\ ~ReadLabel(r)
  <2>1. got'[r].request = got[r].request /\ got'[r].label = got[r].label
    BY <1>0, <1>5 DEF Serve, CopyRaw, ReadAvailable, ReadMap, ReadTrack,
       RevisionMap, RefusesMap, WithRevision, RevisionTrack, WithTrack,
       ReadCleaning, PngMap, PngTrack, Read, Local
  <2>2. ~ReadCleaning(r)
    BY <2>1 DEF ReadCleaning, PlaceOK
  <2>3. got'[r].state = got[r].state
    BY <1>0, <1>5, <2>2 DEF Serve, CopyRaw, ReadAvailable, ReadMap, ReadTrack,
       RevisionMap, RefusesMap, WithRevision, RevisionTrack, WithTrack,
       PngMap, PngTrack, Read, Local
  <2>4. pc[r] # "label"
    BY <1>5, <2>2 DEF Serve, CopyRaw, ReadAvailable, ReadMap, ReadTrack,
       RevisionMap, RevisionTrack, PngMap, PngTrack, Read
  <2> QED
    BY <2>1, <2>3, <2>4 DEF LabelOK
<1> QED
  BY <1>2, <1>3, <1>4, <1>5

LEMMA LabelNext ==
  ASSUME IInv, StoreOK, LabelOK, [Next]_vars
  PROVE  LabelOK'
<1>1. CASE UNCHANGED vars
  BY <1>1 DEF vars, robot, api, LabelOK
<1> QED
  BY <1>1, LabelHandler, LabelReader DEF Next, Done, IInv

\* The label of a status is not older than the work state next to it.
THEOREM LabelIsFresh == Spec => []LabelNotOlder
<1>1. Init => StoreOK /\ LabelOK
  BY Names, Bounds DEF Init, Blank, StoreOK, Settled, LabelOK
<1>2. PlaceOK /\ LabelOK => LabelNotOlder
  BY DEF PlaceOK, LabelOK, LabelNotOlder, Answered
<1>3. IInv => PlaceOK
  BY DEF IInv
<1> QED
  BY <1>1, <1>2, <1>3, StoreNext, LabelNext, Invariant, PTL DEF Spec

-----------------------------------------------------------------------------
(* What a client gets while nothing is stored.                              *)

\* Everything r has read is still what the memory holds.
QuietReader(r) ==
  /\ answer[r] # "409"
  /\ got[r].request = "status" =>
       /\ pc[r] # "values" => got[r].state["workState"] = values["workState"]
       /\ pc[r] \notin {"values", "label"} => got[r].label = values["workState"]
       /\ pc[r] = "raw" => r \notin grown
       /\ pc[r] \notin {"values", "label", "raw", "available"} =>
            (got[r].available <=> text["map"] # None)
       /\ pc[r] = "rev_track" => text["map"] # None
       /\ answer[r] = "200" => (got[r].revision # None <=> text["map"] # None)
  /\ got[r].request = "map" =>
       /\ pc[r] # "map" => got[r].map = text["map"]
       /\ pc[r] \notin {"map", "track"} => got[r].track = text["track"]
       /\ pc[r] = "rev_track" => got[r].revision.map = text["map"]
       /\ (pc[r] = "cleaning" \/ answer[r] = "200") /\ text["map"] # None =>
            got[r].revision = [map |-> text["map"], track |-> text["track"]]

QuietOK ==
  /\ quiet # {} => \A h \in Handlers : todo[h] = <<>>
  /\ \A r \in quiet : QuietReader(r)

\* Every store ends the quiet.
LEMMA QuietHandler ==
  ASSUME NEW h \in Handlers, Message(h) \/ Store(h)
  PROVE  QuietOK'
<1>1. quiet' = {}
  BY DEF Store, Message, StoreKey, StoreText
<1> QED
  BY <1>1 DEF QuietOK

\* A request that begins has read nothing yet.
LEMMA QuietRequest ==
  ASSUME TypeOK, QuietOK, NEW r \in Readers, Request(r)
  PROVE  QuietOK'
<1>1. PICK request \in Requests :
        /\ got' = [got EXCEPT ![r] = [Blank EXCEPT !.request = request]]
        /\ Goto(r, CASE request = "status" -> "values"
                     [] request = "map" -> "map"
                     [] request = "png" -> "png_map")
  BY DEF Request
<1>2. /\ answer' = [answer EXCEPT ![r] = "none"] /\ UNCHANGED <<robot, grown>>
      /\ quiet' = IF \A h \in Handlers : todo[h] = <<>>
                    THEN quiet \union {r} ELSE quiet \ {r}
  BY DEF Request
<1>3. quiet' # {} => \A h \in Handlers : todo'[h] = <<>>
  BY <1>2 DEF QuietOK, robot
<1>4. QuietReader(r)'
  <2>1. /\ answer'[r] = "none"
        /\ got'[r].request = request
        /\ request = "status" => pc'[r] = "values"
        /\ request = "map" => pc'[r] = "map"
    BY <1>1, <1>2 DEF TypeOK, Goto, Blank
  <2> QED
    BY <2>1 DEF QuietReader
<1>5. ASSUME NEW o \in quiet', o # r PROVE QuietReader(o)'
  <2>1. o \in quiet /\ o \in Readers /\ QuietReader(o)
    BY <1>2, <1>5 DEF QuietOK, TypeOK
  <2>2. got'[o] = got[o] /\ pc'[o] = pc[o] /\ answer'[o] = answer[o]
    BY <1>1, <1>2, <1>5, <2>1 DEF TypeOK, Goto
  <2> QED
    BY <1>2, <2>1, <2>2 DEF QuietReader, robot
<1> QED
  BY <1>3, <1>4, <1>5 DEF QuietOK

\* What is read while nothing is stored stays true.
LEMMA QuietSelf ==
  ASSUME TypeOK, PlaceOK, NEW r \in Readers, Serve(r), QuietReader(r)
  PROVE  QuietReader(r)'
<1> USE DEF Goto, Respond
<1>0. /\ got \in [Readers -> Local] /\ pc \in [Readers -> {"idle"} \union Reading]
      /\ answer \in [Readers -> Answers] /\ text \in [Texts -> MaybeText]
      /\ "workState" \in Keys /\ "map" \in Texts /\ "track" \in Texts
      /\ values' = values /\ text' = text /\ pc[r] # "idle" /\ answer[r] = "none"
  <2>1. values' = values /\ text' = text
    BY ReadersStoreNothing DEF robot
  <2>2. pc[r] # "idle"
    BY DEF Serve, CopyValues, ReadLabel, CopyRaw, ReadAvailable, ReadMap,
       ReadTrack, RevisionMap, RevisionTrack, ReadCleaning, PngMap, PngTrack, Read
  <2> QED
    BY <2>1, <2>2, KeyTypes DEF TypeOK, PlaceOK, Local, MaybeText, Texts
<1>1. CASE CopyValues(r)
  <2>1. /\ pc[r] = "values" /\ pc'[r] = "label" /\ answer'[r] = "none"
        /\ got'[r].state = values /\ got'[r].request = "status"
    BY <1>0, <1>1 DEF CopyValues, Read, PlaceOK, Local
  <2> QED
    BY <1>0, <2>1 DEF QuietReader
<1>2. CASE ReadLabel(r)
  <2>1. /\ pc[r] = "label" /\ pc'[r] = "raw" /\ answer'[r] = "none"
        /\ got'[r].state = got[r].state /\ got'[r].request = "status"
        /\ got[r].request = "status"
        /\ got'[r].label = values["workState"] /\ r \notin grown'
    BY <1>0, <1>2 DEF ReadLabel, Read, PlaceOK, Local
  <2> QED
    BY <1>0, <2>1 DEF QuietReader
<1>3. CASE CopyRaw(r)
  <2>1. /\ pc[r] = "raw" /\ got' = got /\ got[r].request = "status"
    BY <1>3 DEF CopyRaw, PlaceOK
  <2>2. pc'[r] = "available" /\ answer'[r] = "none"
    BY <1>0, <1>3, <2>1 DEF CopyRaw, QuietReader
  <2> QED
    BY <1>0, <2>1, <2>2 DEF QuietReader
<1>4. CASE ReadAvailable(r)
  <2>1. /\ pc[r] = "available" /\ pc'[r] = "rev_map" /\ answer'[r] = "none"
        /\ got'[r].state = got[r].state /\ got'[r].request = "status"
        /\ got'[r].label = got[r].label /\ got[r].request = "status"
        /\ got'[r].available = (text["map"] # None)
    BY <1>0, <1>4 DEF ReadAvailable, Read, PlaceOK, Local
  <2> QED
    BY <1>0, <2>1 DEF QuietReader
<1>5. CASE ReadMap(r)
  <2>1. /\ pc'[r] = "track" /\ answer'[r] = "none"
        /\ got'[r].request = "map" /\ got'[r].map = text["map"]
    BY <1>0, <1>5 DEF ReadMap, Read, PlaceOK, Local
  <2> QED
    BY <1>0, <2>1 DEF QuietReader
<1>6. CASE ReadTrack(r)
  <2>1. /\ pc[r] = "track" /\ pc'[r] = "rev_map" /\ answer'[r] = "none"
        /\ got'[r].request = "map" /\ got[r].request = "map"
        /\ got'[r].map = got[r].map /\ got'[r].track = text["track"]
    BY <1>0, <1>6 DEF ReadTrack, Read, PlaceOK, Local
  <2> QED
    BY <1>0, <2>1 DEF QuietReader
<1>7. CASE RevisionMap(r)
  <2>1. /\ pc[r] = "rev_map" /\ got[r].revision = None
        /\ got[r].request \in {"status", "map"}
    BY <1>7 DEF RevisionMap, PlaceOK
  <2>2. CASE text["map"] = None
    <3>1. got' = got /\ WithRevision(r)
      BY <1>7, <2>2 DEF RevisionMap, RevisedMap, RefusesMap, Foreign
    <3>2. \/ /\ got[r].request = "status"
             /\ pc'[r] = "idle" /\ answer'[r] = "200"
          \/ /\ got[r].request = "map"
             /\ pc'[r] = "cleaning" /\ answer'[r] = "none"
      BY <1>0, <2>1, <3>1 DEF WithRevision
    <3> QED
      BY <1>0, <2>1, <2>2, <3>1, <3>2 DEF QuietReader
  <2>3. CASE Foreign(text["map"])
    <3>1. got' = got /\ pc'[r] = "idle" /\ answer'[r] = "400"
      BY <1>0, <1>7, <2>3 DEF RevisionMap, RevisedMap, RefusesMap, Foreign
    <3> QED
      BY <1>0, <2>1, <3>1 DEF QuietReader
  <2>4. CASE text["map"] # None /\ ~Foreign(text["map"])
    <3>1. /\ got' = [got EXCEPT ![r].revision =
                       [map |-> text["map"], track |-> None]]
          /\ pc'[r] = "rev_track" /\ answer'[r] = "none"
      BY <1>0, <1>7, <2>4 DEF RevisionMap, RevisedMap, RefusesMap
    <3>2. /\ got'[r].revision.map = text["map"]
          /\ got'[r].state = got[r].state /\ got'[r].label = got[r].label
          /\ got'[r].available = got[r].available
          /\ got'[r].map = got[r].map /\ got'[r].track = got[r].track
          /\ got'[r].request = got[r].request
      BY <1>0, <3>1 DEF Local
    <3> QED
      BY <1>0, <2>1, <2>4, <3>1, <3>2 DEF QuietReader
  <2> QED
    BY <2>2, <2>3, <2>4
<1>8. CASE RevisionTrack(r)
  <2>1. /\ pc[r] = "rev_track" /\ got[r].revision \in Revision
        /\ got[r].request \in {"status", "map"}
    BY <1>0, <1>8 DEF RevisionTrack, PlaceOK, Local
  <2>2. CASE Foreign(text["track"])
    <3>1. got' = got /\ pc'[r] = "idle" /\ answer'[r] = "400"
      BY <1>0, <1>8, <2>2 DEF RevisionTrack
    <3> QED
      BY <1>0, <2>1, <3>1 DEF QuietReader
  <2>3. CASE ~Foreign(text["track"])
    <3>1. /\ got' = [got EXCEPT ![r].revision.track = text["track"]]
          /\ WithRevision(r)
      BY <1>8, <2>3 DEF RevisionTrack, WithTrack
    <3>2. /\ got'[r].revision = [got[r].revision EXCEPT !.track = text["track"]]
          /\ got'[r].state = got[r].state /\ got'[r].label = got[r].label
          /\ got'[r].available = got[r].available
          /\ got'[r].map = got[r].map /\ got'[r].track = got[r].track
          /\ got'[r].request = got[r].request
      BY <1>0, <3>1 DEF Local
    <3>3. /\ got'[r].revision \in Revision /\ got'[r].revision # None
          /\ got'[r].revision =
               [map |-> got[r].revision.map, track |-> text["track"]]
      BY <1>0, <2>1, <3>2, NoneIsNoText DEF Revision, MaybeText
    <3>4. \/ /\ got[r].request = "status"
             /\ pc'[r] = "idle" /\ answer'[r] = "200"
          \/ /\ got[r].request = "map"
             /\ pc'[r] = "cleaning" /\ answer'[r] = "none"
      BY <1>0, <2>1, <3>1 DEF WithRevision
    <3> QED
      BY <1>0, <2>1, <3>2, <3>3, <3>4 DEF QuietReader
  <2> QED
    BY <2>2, <2>3
<1>9. CASE ReadCleaning(r)
  <2>1. /\ pc[r] = "cleaning" /\ got[r].request = "map"
        /\ got'[r].request = "map" /\ got'[r].revision = got[r].revision
        /\ got'[r].map = got[r].map /\ got'[r].track = got[r].track
    BY <1>0, <1>9 DEF ReadCleaning, PlaceOK, Local
  <2>2. \/ pc'[r] = "cleaning" /\ answer'[r] = "none"
        \/ pc'[r] = "idle" /\ answer'[r] = "200"
    BY <1>0, <1>9 DEF ReadCleaning
  <2> QED
    BY <1>0, <2>1, <2>2 DEF QuietReader
<1>10. CASE PngMap(r) \/ PngTrack(r)
  <2>1. /\ got'[r].request = "png"
        /\ answer'[r] \in {"none", "404", "200", "422"}
    BY <1>0, <1>10 DEF PngMap, PngTrack, PlaceOK, Local
  <2> QED
    BY <2>1 DEF QuietReader
<1> QED
  BY <1>1, <1>2, <1>3, <1>4, <1>5, <1>6, <1>7, <1>8, <1>9, <1>10 DEF Serve

\* Other readers notice nothing of it.
LEMMA QuietServe ==
  ASSUME TypeOK, PlaceOK, QuietOK, NEW r \in Readers, Serve(r)
  PROVE  QuietOK'
<1>1. /\ quiet' = quiet /\ UNCHANGED robot /\ grown' \subseteq grown
      /\ \A o \in Readers \ {r} :
           got'[o] = got[o] /\ pc'[o] = pc[o] /\ answer'[o] = answer[o]
  BY DEF TypeOK, Goto, Respond, Serve, CopyValues, ReadLabel, CopyRaw,
     ReadAvailable, ReadMap, ReadTrack, RevisionMap, RefusesMap, RevisionTrack,
     WithTrack, WithRevision, ReadCleaning, PngMap, PngTrack, Read
<1>2. ASSUME NEW o \in quiet, o # r PROVE QuietReader(o)'
  <2>1. o \in Readers /\ QuietReader(o)
    BY <1>2 DEF QuietOK, TypeOK
  <2> QED
    BY <1>1, <1>2, <2>1 DEF QuietReader, robot
<1>3. r \in quiet => QuietReader(r)'
  BY QuietSelf DEF QuietOK
<1> QED
  BY <1>1, <1>2, <1>3 DEF QuietOK, robot

LEMMA QuietNext ==
  ASSUME IInv, QuietOK, [Next]_vars
  PROVE  QuietOK'
<1>1. CASE UNCHANGED vars
  BY <1>1 DEF vars, robot, api, QuietOK, QuietReader
<1> QED
  BY <1>1, QuietHandler, QuietRequest, QuietServe DEF Next, Done, IInv

\* Without a store in between, the parts of an answer fit together, and no
\* iteration is interrupted.
THEOREM QuietIsConsistent == Spec => []QuietAnswersAgree
<1>1. Init => QuietOK
  BY DEF Init, QuietOK
<1>2. ASSUME TypeOK, PlaceOK, QuietOK, NEW r \in quiet
      PROVE  /\ answer[r] # "409"
             /\ Answered(r, "status", "200") =>
                  /\ got[r].label = got[r].state["workState"]
                  /\ got[r].available <=> got[r].revision # None
             /\ Answered(r, "map", "200") /\ got[r].map # None =>
                  got[r].revision = [map |-> got[r].map, track |-> got[r].track]
  <2>1. QuietReader(r) /\ (answer[r] # "none" => pc[r] = "idle")
    BY <1>2 DEF QuietOK, PlaceOK, TypeOK
  <2> QED
    BY <2>1 DEF QuietReader, Answered
<1>3. TypeOK /\ PlaceOK /\ QuietOK => QuietAnswersAgree
  BY <1>2 DEF QuietAnswersAgree
<1>4. IInv => TypeOK /\ PlaceOK
  BY DEF IInv
<1> QED
  BY <1>1, <1>3, <1>4, QuietNext, Invariant, PTL DEF Spec
=============================================================================

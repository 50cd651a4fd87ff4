--------------------------- MODULE RecorderProofs ---------------------------
(***************************************************************************)
(* Proofs about Recorder, for any number of requests, messages and         *)
(* uploads.                                                                *)
(***************************************************************************)
EXTENDS Recorder, TLAPS

\* The types of the functions and records of TypeOK.
MapState == [rec : Entry, age : {"fresh", "ticked", "idle"}]
Recording == [file : {"none", "open", "closed", "delivered", "dropped"},
              written : 0 .. MaxMessages, object : [n : 0 .. MaxMessages, last : BOOLEAN],
              sent : 0 .. MaxMessages, missed : 0 .. MaxMessages]
HandlerState == [at : {"new", "store", "subscribe", "read", "close", "delete", "done"}, rec : Entry]
SyncState == [at : {"none", "tick", "remove", "delete", "done"}, rec : Entry]
CallbackState == [at : {"none", "write", "update"}, rec : Entry]
BrokerState == [subscribed : BOOLEAN, published : 0 .. MaxMessages]

-----------------------------------------------------------------------------
(* The invariant. *)

HasFile(r) == r \in Starts /\ recorder[r].file # "none"
IsOver(r) == recorder[r].file \in {"closed", "delivered", "dropped"}

\* A recording has a file from its first step on, and whoever holds a Recorder
\* holds one with a file.
FilesAreMade ==
  /\ \A r \in Starts : handler[r].at = "new" => recorder[r].file = "none"
  /\ \A r \in Starts : handler[r].at = "store" => recorder[r].file # "none"
  /\ Recorded => HasFile(recorders.rec)
  /\ \A e \in Stops : handler[e].at = "close" => HasFile(handler[e].rec)
  /\ \A g \in Starts : sync[g].at = "remove" => HasFile(sync[g].rec)

\* No message is written, and none is sent, that there is not.
Writes(r) == callback.at = "write" /\ callback.rec = r

MessagesAreCounted ==
  /\ callback.at = "write" => callback.rec \in Starts
  /\ \A r \in Starts :
       /\ recorder[r].sent <= recorder[r].written
       /\ recorder[r].written <= broker.published
       /\ Writes(r) => recorder[r].written + 1 <= broker.published

\* What the running uploads hold. A file is removed only by an upload that began
\* when nothing more could be written to it.
UploadIsTrue(u) ==
  /\ u.n <= recorder[u.rec].written
  /\ u.removeFlag => u.last
  /\ u.last => IsOver(u.rec)
  /\ u.last /\ u.at = "send" => u.n = recorder[u.rec].written

UploadsAreTrue == \A u \in BagToSet(uploads) : UploadIsTrue(u)

\* What an upload that began when the file was closed left in the bucket is whole.
ObjectIsTrue(r) ==
  recorder[r].object.last => IsOver(r) /\ recorder[r].object.n = recorder[r].written

ObjectsAreTrue == \A r \in Starts : ObjectIsTrue(r)

DeliveryInv ==
  /\ TypeOK /\ FilesAreMade /\ MessagesAreCounted
  /\ UploadsAreTrue /\ ObjectsAreTrue /\ StoppedIsDelivered

\* While requests and idle ends do not overlap there is one at most, and it knows
\* what the map holds.
BusyHandler(q) == handler[q].at \notin {"new", "done"}
BusySync(g) == sync[g].at \in {"remove", "delete"}

OneIsBusy ==
  /\ \A p, q \in Starts \cup Stops : BusyHandler(p) /\ BusyHandler(q) => p = q
  /\ \A f, g \in Starts : BusySync(f) /\ BusySync(g) => f = g
  /\ \A q \in Starts \cup Stops : \A g \in Starts : ~(BusyHandler(q) /\ BusySync(g))

NoneIsOpen == \A r \in Starts : recorder[r].file # "open"

BusyKnows ==
  /\ \A r \in Starts : handler[r].at = "store" => ~Recorded
  /\ \A e \in Stops : /\ handler[e].at = "close" => recorders.rec = handler[e].rec
                      /\ handler[e].at = "delete" => NoneIsOpen
  /\ \A g \in Starts : /\ sync[g].at = "remove" => recorders.rec = sync[g].rec
                       /\ sync[g].at = "delete" => NoneIsOpen

OpensAreKnown ==
  \A r \in Starts : recorder[r].file = "open" => recorders.rec = r \/ handler[r].at = "store"

NothingForgotten == OneIsBusy /\ BusyKnows /\ OpensAreKnown

KnownInv == ~overlap /\ ~crashed => NothingForgotten

-----------------------------------------------------------------------------
(* Bags of uploads. *)

LEMMA BagAdds ==
  ASSUME NEW B, IsABag(B), NEW x
  PROVE  IsABag(B (+) SetToBag({x})) /\ BagToSet(B (+) SetToBag({x})) = BagToSet(B) \cup {x}
BY DEF IsABag, BagToSet, SetToBag, (+)

LEMMA BagRemoves ==
  ASSUME NEW B, IsABag(B), NEW x
  PROVE  IsABag(B (-) SetToBag({x})) /\ BagToSet(B (-) SetToBag({x})) \subseteq BagToSet(B)
BY DEF IsABag, BagToSet, SetToBag, (-)

LEMMA BagEmpty == IsABag(EmptyBag) /\ BagToSet(EmptyBag) = {}
BY DEF IsABag, BagToSet, SetToBag, EmptyBag

-----------------------------------------------------------------------------
(* What the operators of Recorder do to the variables. *)

LEMMA Types ==
  TypeOK <=> /\ recorders \in MapState /\ callback \in CallbackState
             /\ recorder \in [Starts -> Recording]
             /\ handler \in [Starts \cup Stops -> HandlerState]
             /\ sync \in [Starts -> SyncState]
             /\ IsABag(uploads) /\ BagToSet(uploads) \subseteq Upload
             /\ broker \in BrokerState
             /\ overlap \in BOOLEAN /\ crashed \in BOOLEAN
BY DEF TypeOK, MapState, Recording, HandlerState, SyncState, CallbackState, BrokerState

\* One handler moves on; it keeps the Recorder it read.
LEMMA ReachMoves ==
  ASSUME handler \in [Starts \cup Stops -> HandlerState], NEW q \in Starts \cup Stops,
         NEW pc \in {"new", "store", "subscribe", "read", "close", "delete", "done"}, Reach(q, pc)
  PROVE  /\ handler' \in [Starts \cup Stops -> HandlerState]
         /\ handler'[q].at = pc /\ handler'[q].rec = handler[q].rec
         /\ \A p \in Starts \cup Stops : p # q => handler'[p] = handler[p]
BY DEF Reach, HandlerState

\* One Recorder's file changes.
LEMMA FileChanges ==
  ASSUME recorder \in [Starts -> Recording], NEW r \in Starts,
         NEW file \in {"none", "open", "closed", "delivered", "dropped"},
         recorder' = [recorder EXCEPT ![r].file = file]
  PROVE  /\ recorder' \in [Starts -> Recording]
         /\ recorder'[r].file = file
         /\ \A s \in Starts : /\ recorder'[s].written = recorder[s].written
                              /\ recorder'[s].sent = recorder[s].sent
                              /\ recorder'[s].object = recorder[s].object
                              /\ s # r => recorder'[s] = recorder[s]
BY DEF Recording

\* Only the history of what was missed changes.
LEMMA MissedChanges ==
  ASSUME recorder \in [Starts -> Recording], NEW r \in Starts, NEW n \in 0 .. MaxMessages,
         recorder' = [recorder EXCEPT ![r].missed = n]
  PROVE  /\ recorder' \in [Starts -> Recording]
         /\ \A s \in Starts : /\ recorder'[s].file = recorder[s].file
                              /\ recorder'[s].written = recorder[s].written
                              /\ recorder'[s].sent = recorder[s].sent
                              /\ recorder'[s].object = recorder[s].object
BY DEF Recording

LEMMA FailureChanges ==
  ASSUME TypeOK, NEW u \in BagToSet(uploads), UploadFails(u)
  PROVE  /\ recorder' \in [Starts -> Recording]
         /\ \A s \in Starts : /\ recorder'[s].file = recorder[s].file
                              /\ recorder'[s].written = recorder[s].written
                              /\ recorder'[s].sent = recorder[s].sent
                              /\ recorder'[s].object = recorder[s].object
<1>1. u.rec \in Starts /\ recorder \in [Starts -> Recording]
  BY Types DEF Upload
<1>2. recorder[u.rec].written \in 0 .. MaxMessages
  BY <1>1 DEF Recording
<1>3. recorder' = [recorder EXCEPT ![u.rec].missed = recorder[u.rec].written]
  BY DEF UploadFails
<1> QED
  BY <1>1, <1>2, <1>3, MissedChanges

LEMMA TimeChanges ==
  ASSUME TypeOK, FilesAreMade, TimePasses
  PROVE  /\ recorder' \in [Starts -> Recording]
         /\ \A s \in Starts : /\ recorder'[s].file = recorder[s].file
                              /\ recorder'[s].written = recorder[s].written
                              /\ recorder'[s].sent = recorder[s].sent
                              /\ recorder'[s].object = recorder[s].object
<1> DEFINE r == recorders.rec
           n == IF recorders.age = "fresh" THEN recorder[r].written ELSE recorder[r].missed
<1>1. r \in Starts /\ recorder \in [Starts -> Recording]
  BY Types DEF TimePasses, FilesAreMade, HasFile
<1>2. n \in 0 .. MaxMessages
  BY <1>1 DEF Recording
<1>3. recorder' = [recorder EXCEPT ![r].missed = n]
  BY DEF TimePasses
<1> HIDE DEF n, r
<1> QED
  BY <1>1, <1>2, <1>3, MissedChanges

\* An upload is started.
LEMMA UploadStarts ==
  ASSUME IsABag(uploads), BagToSet(uploads) \subseteq Upload, RecorderAssumption,
         NEW r \in Starts, NEW removeFlag \in BOOLEAN, NEW last \in BOOLEAN,
         GoUpload(r, removeFlag, last)
  PROVE  LET u == [rec |-> r, removeFlag |-> removeFlag, last |-> last, at |-> "open", n |-> 0]
         IN  /\ IsABag(uploads') /\ BagToSet(uploads') \subseteq Upload
             /\ BagToSet(uploads') = BagToSet(uploads) \cup {u}
<1> DEFINE u == [rec |-> r, removeFlag |-> removeFlag, last |-> last, at |-> "open", n |-> 0]
<1>1. u \in Upload
  BY DEF RecorderAssumption, Upload
<1>2. uploads' = uploads (+) SetToBag({u})
  BY DEF GoUpload
<1> HIDE DEF u
<1>3. IsABag(uploads') /\ BagToSet(uploads') = BagToSet(uploads) \cup {u}
  BY <1>2, BagAdds
<1> QED
  BY <1>1, <1>3 DEF u

\* An upload that waited has its copy of the file; the others are as they were.
LEMMA CopyIsMade ==
  ASSUME TypeOK, NEW u \in BagToSet(uploads), OpenAndCopy(u)
  PROVE  LET v == [u EXCEPT !.at = "send", !.n = recorder[u.rec].written]
         IN  /\ IsABag(uploads') /\ BagToSet(uploads') \subseteq Upload
             /\ BagToSet(uploads') \subseteq BagToSet(uploads) \cup {v}
             /\ v.rec = u.rec /\ v.removeFlag = u.removeFlag /\ v.last = u.last
             /\ v.at = "send" /\ v.n = recorder[u.rec].written
<1> DEFINE v == [u EXCEPT !.at = "send", !.n = recorder[u.rec].written]
<1>1. /\ u \in Upload /\ recorder \in [Starts -> Recording]
      /\ IsABag(uploads) /\ BagToSet(uploads) \subseteq Upload
  BY Types
<1>2. u.rec \in Starts /\ recorder[u.rec].written \in 0 .. MaxMessages
  BY <1>1 DEF Upload, Recording
<1>3. v \in Upload
  BY <1>1, <1>2 DEF Upload
<1>4. /\ v.rec = u.rec /\ v.removeFlag = u.removeFlag /\ v.last = u.last
      /\ v.at = "send" /\ v.n = recorder[u.rec].written
  BY <1>1 DEF Upload
<1>5. uploads' = (uploads (-) SetToBag({u})) (+) SetToBag({v})
  BY DEF OpenAndCopy
<1> HIDE DEF v
<1>6. IsABag(uploads') /\ BagToSet(uploads') \subseteq BagToSet(uploads) \cup {v}
  <2> DEFINE rest == uploads (-) SetToBag({u})
  <2>1. IsABag(rest) /\ BagToSet(rest) \subseteq BagToSet(uploads)
    BY <1>1, BagRemoves
  <2>2. uploads' = rest (+) SetToBag({v})
    BY <1>5
  <2> HIDE DEF rest
  <2>3. IsABag(uploads') /\ BagToSet(uploads') = BagToSet(rest) \cup {v}
    BY <2>1, <2>2, BagAdds
  <2> QED
    BY <2>1, <2>3
<1> QED
  BY <1>1, <1>3, <1>4, <1>6 DEF v

\* The upload adds to what was sent, and removes the file when it is to.
LEMMA SendChanges ==
  ASSUME TypeOK, NEW u \in BagToSet(uploads), Send(u)
  PROVE  /\ recorder' \in [Starts -> Recording]
         /\ recorder'[u.rec].written = recorder[u.rec].written
         /\ recorder'[u.rec].sent = IF u.n > recorder[u.rec].sent THEN u.n ELSE recorder[u.rec].sent
         /\ recorder'[u.rec].file = Remove(u, recorder[u.rec].file)
         /\ recorder'[u.rec].object = [n |-> u.n, last |-> u.last]
         /\ \A s \in Starts : s # u.rec => recorder'[s] = recorder[s]
<1> DEFINE r == u.rec
           sent == IF u.n > recorder[r].sent THEN u.n ELSE recorder[r].sent
           file == Remove(u, recorder[r].file)
           object == [n |-> u.n, last |-> u.last]
           new == [recorder[r] EXCEPT !.object = object, !.sent = sent, !.file = file]
<1>1. u \in Upload /\ recorder \in [Starts -> Recording]
  BY Types
<1>2. r \in Starts /\ u.n \in 0 .. MaxMessages /\ recorder[r] \in Recording
  BY <1>1 DEF Upload
<1>3. /\ recorder[r].sent \in 0 .. MaxMessages
      /\ recorder[r].file \in {"none", "open", "closed", "delivered", "dropped"}
  BY <1>2 DEF Recording
<1>4. sent \in 0 .. MaxMessages /\ file \in {"none", "open", "closed", "delivered", "dropped"}
  BY <1>2, <1>3 DEF Remove
<1>0. object \in [n : 0 .. MaxMessages, last : BOOLEAN]
  BY <1>1 DEF Upload
<1>5. recorder' = [recorder EXCEPT ![r] = new]
  BY <1>1, <1>2 DEF Send
<1> HIDE DEF sent, file, object
<1>6. /\ new \in Recording
      /\ new.written = recorder[r].written /\ new.sent = sent /\ new.file = file
      /\ new.object = object
  BY <1>0, <1>2, <1>4 DEF Recording
<1> HIDE DEF new, r
<1>7. /\ recorder' \in [Starts -> Recording] /\ recorder'[r] = new
      /\ \A s \in Starts : s # r => recorder'[s] = recorder[s]
  BY <1>1, <1>2, <1>5, <1>6
<1> QED
  BY <1>6, <1>7 DEF r, sent, file, object

\* A message is written to the file while that is open.
LEMMA WrittenChanges ==
  ASSUME TypeOK, MessagesAreCounted, Write
  PROVE  /\ callback.rec \in Starts
         /\ recorder' \in [Starts -> Recording]
         /\ recorder'[callback.rec].written =
              IF recorder[callback.rec].file = "open" THEN recorder[callback.rec].written + 1
                                                      ELSE recorder[callback.rec].written
         /\ \A s \in Starts : /\ recorder'[s].file = recorder[s].file
                              /\ recorder'[s].sent = recorder[s].sent
                              /\ recorder'[s].object = recorder[s].object
                              /\ s # callback.rec => recorder'[s] = recorder[s]
<1> DEFINE r == callback.rec
           n == IF recorder[r].file = "open" THEN recorder[r].written + 1 ELSE recorder[r].written
<1>1. recorder \in [Starts -> Recording] /\ broker \in BrokerState /\ r \in Starts
  BY Types DEF Write, MessagesAreCounted
<1>2. /\ recorder[r].written \in 0 .. MaxMessages /\ broker.published \in 0 .. MaxMessages
      /\ recorder[r].written + 1 <= broker.published
  BY <1>1 DEF Recording, BrokerState, MessagesAreCounted, Writes, Write
<1>3. n \in 0 .. MaxMessages
  BY <1>2, RecorderAssumption DEF RecorderAssumption
<1>4. recorder' = [recorder EXCEPT ![r].written = n]
  BY DEF Write
<1> HIDE DEF n, r
<1>5. /\ recorder' \in [Starts -> Recording] /\ recorder'[r].written = n
      /\ \A s \in Starts : /\ recorder'[s].file = recorder[s].file
                           /\ recorder'[s].sent = recorder[s].sent
                           /\ recorder'[s].object = recorder[s].object
                           /\ s # r => recorder'[s] = recorder[s]
  BY <1>1, <1>3, <1>4 DEF Recording
<1> QED
  BY <1>1, <1>5 DEF n, r

LEMMA TypeInit == Init => TypeOK
<1> SUFFICES ASSUME Init PROVE TypeOK
  OBVIOUS
<1>1. 0 \in 0 .. MaxMessages /\ None \in Entry
  BY RecorderAssumption DEF RecorderAssumption, Entry
<1>2. recorders \in MapState /\ callback \in CallbackState
  BY <1>1 DEF Init, NotRecorded, MapState, At, CallbackState
<1>3. recorder \in [Starts -> Recording]
  BY <1>1 DEF Init, NoFile, NoObject, Recording
<1>4. handler \in [Starts \cup Stops -> HandlerState] /\ sync \in [Starts -> SyncState]
  BY <1>1 DEF Init, At, HandlerState, SyncState
<1>5. IsABag(uploads) /\ BagToSet(uploads) \subseteq Upload
  BY BagEmpty DEF Init
<1>6. broker \in BrokerState /\ overlap \in BOOLEAN /\ crashed \in BOOLEAN
  BY <1>1 DEF Init, BrokerState
<1> QED
  BY <1>2, <1>3, <1>4, <1>5, <1>6, Types

\* The written messages stay within those published, and whoever uses a Recorder
\* holds one: the types need both.
LEMMA TypeNext == TypeOK /\ FilesAreMade /\ MessagesAreCounted /\ [Next]_vars => TypeOK'
<1> SUFFICES ASSUME TypeOK, FilesAreMade, MessagesAreCounted, [Next]_vars PROVE TypeOK'
  OBVIOUS
<1>0. /\ recorders \in MapState /\ callback \in CallbackState
      /\ recorder \in [Starts -> Recording]
      /\ handler \in [Starts \cup Stops -> HandlerState]
      /\ sync \in [Starts -> SyncState]
      /\ IsABag(uploads) /\ BagToSet(uploads) \subseteq Upload
      /\ broker \in BrokerState
      /\ overlap \in BOOLEAN /\ crashed \in BOOLEAN
  BY Types
<1>a. /\ None \in Entry /\ MaxMessages \in Nat /\ MaxUploads \in Nat /\ None \notin Starts
      /\ \A r \in Starts : r \in Entry
      /\ \A r \in Entry : r # None => r \in Starts
      /\ RecorderAssumption
  BY RecorderAssumption DEF RecorderAssumption, Entry
<1>b. /\ recorders' \in MapState /\ callback' \in CallbackState
      /\ recorder' \in [Starts -> Recording]
      /\ handler' \in [Starts \cup Stops -> HandlerState]
      /\ sync' \in [Starts -> SyncState]
      /\ IsABag(uploads') /\ BagToSet(uploads') \subseteq Upload
      /\ broker' \in BrokerState
      /\ overlap' \in BOOLEAN /\ crashed' \in BOOLEAN
      => TypeOK'
  BY DEF TypeOK, MapState, Recording, HandlerState, SyncState, CallbackState, BrokerState
<1>c. recorders.rec \in Entry /\ NotRecorded \in MapState
      /\ At("done") \in HandlerState /\ At("none") \in CallbackState
      /\ At("tick") \in SyncState /\ At("done") \in SyncState
  BY <1>0, <1>a DEF MapState, NotRecorded, At, HandlerState, SyncState, CallbackState
<1>d. Begin => overlap' \in BOOLEAN
  BY DEF Begin
<1>e. Unsubscribe => broker' \in BrokerState
  BY <1>0 DEF Unsubscribe, BrokerState
<1>1. ASSUME NEW r \in Starts, StartReads(r) PROVE TypeOK'
  <2>1. recorder' \in [Starts -> Recording]
    BY <1>0, <1>1, FileChanges DEF StartReads
  <2>2. handler' \in [Starts \cup Stops -> HandlerState]
    BY <1>0, <1>1, ReachMoves DEF StartReads
  <2> QED
    BY <1>0, <1>1, <1>b, <1>d, <2>1, <2>2 DEF StartReads
<1>2. ASSUME NEW r \in Starts, HandleStart(r) PROVE TypeOK'
  <2>1. handler' \in [Starts \cup Stops -> HandlerState]
    BY <1>0, <1>2, ReachMoves DEF HandleStart, StartStores, Subscribe
  <2>2. recorders' \in MapState
    BY <1>0, <1>2, <1>a DEF HandleStart, StartStores, Subscribe, MapState
  <2>3. broker' \in BrokerState /\ sync' \in [Starts -> SyncState]
    BY <1>0, <1>2, <1>c DEF HandleStart, StartStores, Subscribe, BrokerState
  <2> QED
    BY <1>0, <1>2, <1>b, <2>1, <2>2, <2>3 DEF HandleStart, StartStores, Subscribe
<1>3. ASSUME NEW e \in Stops, StopUnsubscribes(e) PROVE TypeOK'
  <2>1. handler' \in [Starts \cup Stops -> HandlerState]
    BY <1>0, <1>3, ReachMoves DEF StopUnsubscribes
  <2> QED
    BY <1>0, <1>3, <1>b, <1>d, <1>e, <2>1 DEF StopUnsubscribes
<1>4. ASSUME NEW e \in Stops, HandleStop(e) PROVE TypeOK'
  <2>1. CASE StopReads(e)
    <3>1. [at |-> "close", rec |-> recorders.rec] \in HandlerState
      BY <1>c DEF HandlerState
    <3>2. handler' \in [Starts \cup Stops -> HandlerState]
      BY <1>0, <1>c, <2>1, <3>1 DEF StopReads
    <3> QED
      BY <1>0, <1>b, <2>1, <3>2 DEF StopReads
  <2>2. CASE StopCloses(e)
    <3> DEFINE r == handler[e].rec
               file == IF recorder[r].file = "open" THEN "closed" ELSE recorder[r].file
    <3>1. r \in Starts
      BY <2>2 DEF StopCloses, FilesAreMade, HasFile
    <3>2. file \in {"none", "open", "closed", "delivered", "dropped"}
      BY <1>0, <3>1 DEF Recording
    <3>3. recorder' = [recorder EXCEPT ![r].file = file] /\ GoUpload(r, TRUE, TRUE) /\ Reach(e, "delete")
      BY <2>2 DEF StopCloses
    <3> HIDE DEF r, file
    <3>4. recorder' \in [Starts -> Recording]
      BY <1>0, <3>1, <3>2, <3>3, FileChanges
    <3>5. IsABag(uploads') /\ BagToSet(uploads') \subseteq Upload
      BY <1>0, <1>a, <3>1, <3>3, UploadStarts
    <3>6. handler' \in [Starts \cup Stops -> HandlerState]
      BY <1>0, <3>3, ReachMoves
    <3> QED
      BY <1>0, <1>b, <2>2, <3>4, <3>5, <3>6 DEF StopCloses
  <2>3. CASE StopDeletes(e)
    BY <1>0, <1>b, <1>c, <2>3 DEF StopDeletes
  <2> QED
    BY <1>4, <2>1, <2>2, <2>3 DEF HandleStop
<1>5. ASSUME NEW g \in Starts, syncFile(g) PROVE TypeOK'
  <2>1. CASE TickUploads(g)
    <3>1. recorders.rec \in Starts
      BY <1>a, <1>c, <2>1 DEF TickUploads, Recorded
    <3>2. IsABag(uploads') /\ BagToSet(uploads') \subseteq Upload
      BY <1>0, <1>a, <2>1, <3>1, UploadStarts DEF TickUploads
    <3>3. recorders' \in MapState
      BY <1>0, <2>1 DEF TickUploads, MapState
    <3> QED
      BY <1>0, <1>b, <2>1, <3>2, <3>3 DEF TickUploads
  <2>2. CASE TickFindsNothing(g)
    BY <1>0, <1>b, <1>c, <2>2 DEF TickFindsNothing
  <2>3. CASE TickUnsubscribes(g)
    <3>1. [at |-> "remove", rec |-> recorders.rec] \in SyncState
      BY <1>c DEF SyncState
    <3> QED
      BY <1>0, <1>b, <1>d, <1>e, <2>3, <3>1 DEF TickUnsubscribes
  <2>4. CASE IdleRemoves(g)
    <3> DEFINE r == sync[g].rec
               file == IF recorder[r].file \in {"open", "closed"} THEN "dropped" ELSE recorder[r].file
    <3>1. r \in Starts
      BY <2>4 DEF IdleRemoves, FilesAreMade, HasFile
    <3>2. file \in {"none", "open", "closed", "delivered", "dropped"}
      BY <1>0, <3>1 DEF Recording
    <3>3. recorder' = [recorder EXCEPT ![r].file = file]
      BY <2>4 DEF IdleRemoves
    <3> HIDE DEF r, file
    <3>4. recorder' \in [Starts -> Recording]
      BY <1>0, <3>1, <3>2, <3>3, FileChanges
    <3>5. sync' \in [Starts -> SyncState]
      BY <1>0, <2>4 DEF IdleRemoves, SyncState
    <3> QED
      BY <1>0, <1>b, <2>4, <3>4, <3>5 DEF IdleRemoves
  <2>5. CASE IdleDeletes(g)
    BY <1>0, <1>b, <1>c, <2>5 DEF IdleDeletes
  <2> QED
    BY <1>5, <2>1, <2>2, <2>3, <2>4, <2>5 DEF syncFile
<1>6. ASSUME NEW u \in BagToSet(uploads), uploadFile(u) PROVE TypeOK'
  <2>0. u \in Upload /\ u.rec \in Starts /\ u.n \in 0 .. MaxMessages
    BY <1>0 DEF Upload
  <2>1. CASE OpenAndCopy(u)
    BY <1>0, <1>b, <2>0, <2>1, CopyIsMade DEF OpenAndCopy
  <2>2. CASE Send(u)
    BY <1>0, <1>b, <2>0, <2>2, SendChanges, BagRemoves DEF Send, Ended
  <2>3. CASE UploadFails(u)
    <3>1. recorder' \in [Starts -> Recording]
      BY <2>3, FailureChanges
    <3> QED
      BY <1>0, <1>b, <2>3, <3>1, BagRemoves DEF UploadFails, Ended
  <2> QED
    BY <1>6, <2>1, <2>2, <2>3 DEF uploadFile
<1>7. CASE ReceiveReads
  <2>1. broker' \in BrokerState
    BY <1>0, <1>7, <1>a DEF ReceiveReads, BrokerState
  <2>2. callback' \in CallbackState
    BY <1>0, <1>7, <1>c DEF ReceiveReads, CallbackState
  <2> QED
    BY <1>0, <1>7, <1>b, <2>1, <2>2 DEF ReceiveReads
<1>8. CASE Write
  <2>1. recorder' \in [Starts -> Recording]
    BY <1>8, WrittenChanges
  <2>2. callback' \in CallbackState
    BY <1>0, <1>8 DEF Write, CallbackState
  <2> QED
    BY <1>0, <1>8, <1>b, <2>1, <2>2 DEF Write
<1>12. CASE Update
  <2>1. recorders' \in MapState
    BY <1>0, <1>12 DEF Update, MapState
  <2> QED
    BY <1>0, <1>12, <1>b, <1>c, <2>1 DEF Update
<1>9. CASE TimePasses
  <2>1. recorders' \in MapState
    BY <1>0, <1>9 DEF TimePasses, MapState
  <2> QED
    BY <1>0, <1>9, <1>b, <2>1, TimeChanges DEF TimePasses
<1>10. CASE MapRace
  <2>1. handler' \in [Starts \cup Stops -> HandlerState] /\ sync' \in [Starts -> SyncState]
    BY <1>0, <1>10, <1>c DEF MapRace
  <2>2. broker' \in BrokerState
    BY <1>0, <1>10 DEF MapRace, BrokerState
  <2> QED
    BY <1>0, <1>10, <1>a, <1>b, <1>c, <2>1, <2>2, BagEmpty DEF MapRace
<1>11. CASE UNCHANGED vars
  BY <1>0, <1>11, <1>b DEF vars
<1> QED
  BY <1>1, <1>2, <1>3, <1>4, <1>5, <1>6, <1>7, <1>8, <1>9, <1>10, <1>11, <1>12 DEF Next

-----------------------------------------------------------------------------
(* What is removed was sent. *)

LEMMA DeliveryInit == Init => DeliveryInv
<1> SUFFICES ASSUME Init
             PROVE  /\ FilesAreMade /\ MessagesAreCounted
                    /\ UploadsAreTrue /\ ObjectsAreTrue /\ StoppedIsDelivered
  BY TypeInit DEF DeliveryInv
<1>1. None \notin Starts /\ Starts \cap Stops = {}
  BY RecorderAssumption DEF RecorderAssumption
<1>2. UploadsAreTrue
  BY BagEmpty DEF Init, UploadsAreTrue
<1> QED
  BY <1>1, <1>2 DEF Init, FilesAreMade, MessagesAreCounted, Writes, StoppedIsDelivered,
     ObjectsAreTrue, ObjectIsTrue, Recorded, NotRecorded, NoFile, NoObject, At

\* What no step does to a Recorder: take its file away, or open it again, or
\* change what is in it once it is closed.
FileGoesOn(r) ==
  /\ recorder[r].file # "none" => recorder'[r].file # "none"
  /\ IsOver(r) => IsOver(r)' /\ recorder'[r].written = recorder[r].written
  /\ recorder[r].written <= recorder'[r].written

\* What no step but one does: to send, and to deliver.
SentStays(r) ==
  /\ recorder'[r].sent = recorder[r].sent
  /\ recorder'[r].object = recorder[r].object
  /\ recorder'[r].file = "delivered" => recorder[r].file = "delivered"

LEMMA SameFileGoesOn ==
  ASSUME TypeOK, NEW r \in Starts, recorder'[r] = recorder[r]
  PROVE  FileGoesOn(r) /\ SentStays(r)
<1>1. recorder[r].written \in Nat
  BY RecorderAssumption DEF TypeOK, RecorderAssumption
<1> QED
  BY <1>1 DEF FileGoesOn, IsOver, SentStays

LEMMA FilesGoOn ==
  ASSUME DeliveryInv, [Next]_vars
  PROVE  /\ \A r \in Starts : FileGoesOn(r)
         /\ \A r \in Starts : handler'[r].at = "new" => handler[r].at = "new" /\ recorder'[r].file = recorder[r].file
         /\ (\A r \in Starts : recorder'[r].written = recorder[r].written) \/ Write
         /\ (\A r \in Starts : SentStays(r)) \/ \E u \in BagToSet(uploads) : Send(u)
<1>0. /\ TypeOK /\ FilesAreMade /\ MessagesAreCounted
      /\ handler \in [Starts \cup Stops -> HandlerState] /\ recorder \in [Starts -> Recording]
      /\ \A r \in Starts : recorder[r].written \in Nat
      /\ Starts \cap Stops = {}
  BY Types, RecorderAssumption DEF DeliveryInv, RecorderAssumption, Recording
<1> DEFINE Goal == /\ \A r \in Starts : FileGoesOn(r)
                   /\ \A r \in Starts : handler'[r].at = "new" => handler[r].at = "new" /\ recorder'[r].file = recorder[r].file
                   /\ (\A r \in Starts : recorder'[r].written = recorder[r].written) \/ Write
                   /\ (\A r \in Starts : SentStays(r)) \/ \E u \in BagToSet(uploads) : Send(u)
<1>1. ASSUME UNCHANGED recorder,
             \A r \in Starts : handler'[r].at = "new" => handler[r].at = "new"
      PROVE  Goal
  BY <1>0, <1>1, SameFileGoesOn
<1>2. ASSUME NEW r \in Starts, StartReads(r) PROVE Goal
  <2>1. /\ handler[r].at = "new" /\ handler'[r].at # "new"
        /\ \A p \in Starts : p # r => handler'[p] = handler[p]
    BY <1>0, <1>2, ReachMoves DEF StartReads
  <2>2. CASE UNCHANGED recorder
    BY <1>1, <2>1, <2>2
  <2>3. CASE recorder' = [recorder EXCEPT ![r].file = "open"]
    <3>1. /\ recorder[r].file = "none" /\ recorder'[r].file = "open"
          /\ \A s \in Starts : /\ recorder'[s].written = recorder[s].written
                               /\ recorder'[s].sent = recorder[s].sent
                               /\ recorder'[s].object = recorder[s].object
                               /\ s # r => recorder'[s] = recorder[s]
      BY <1>0, <2>1, <2>3, FileChanges DEF FilesAreMade
    <3>2. \A s \in Starts : FileGoesOn(s)
      BY <1>0, <3>1 DEF FileGoesOn, IsOver
    <3>3. \A s \in Starts : SentStays(s)
      BY <1>0, <3>1 DEF SentStays
    <3>4. \A s \in Starts : recorder'[s].written = recorder[s].written
      BY <3>1
    <3>5. \A s \in Starts : handler'[s].at = "new" => handler[s].at = "new" /\ recorder'[s].file = recorder[s].file
      BY <2>1, <3>1
    <3> QED
      BY <3>2, <3>3, <3>4, <3>5
  <2> QED
    BY <1>2, <2>2, <2>3 DEF StartReads
<1>3. ASSUME NEW r \in Starts, HandleStart(r) PROVE Goal
  <2>1. \A p \in Starts : handler'[p].at = "new" => handler[p].at = "new"
    BY <1>0, <1>3, ReachMoves DEF HandleStart, StartStores, Subscribe
  <2> QED
    BY <1>1, <1>3, <2>1 DEF HandleStart, StartStores, Subscribe
<1>4. ASSUME NEW e \in Stops, StopUnsubscribes(e) PROVE Goal
  <2>1. \A p \in Starts : handler'[p].at = "new" => handler[p].at = "new"
    BY <1>0, <1>4, ReachMoves DEF StopUnsubscribes
  <2> QED
    BY <1>1, <1>4, <2>1 DEF StopUnsubscribes
<1>5. ASSUME NEW e \in Stops, StopReads(e) \/ StopDeletes(e) PROVE Goal
  <2>1. \A p \in Starts : handler'[p] = handler[p]
    BY <1>0, <1>5 DEF StopReads, StopDeletes
  <2> QED
    BY <1>1, <1>5, <2>1 DEF StopReads, StopDeletes
<1>6. ASSUME NEW e \in Stops, StopCloses(e) PROVE Goal
  <2> DEFINE r == handler[e].rec
             file == IF recorder[r].file = "open" THEN "closed" ELSE recorder[r].file
  <2>1. r \in Starts /\ recorder[r].file # "none"
    BY <1>0, <1>6 DEF StopCloses, FilesAreMade, HasFile
  <2>2. file \in {"none", "open", "closed", "delivered", "dropped"}
    BY <1>0, <2>1 DEF Recording
  <2>3. recorder' = [recorder EXCEPT ![r].file = file] /\ Reach(e, "delete")
    BY <1>6 DEF StopCloses
  <2>4. \A p \in Starts : handler'[p] = handler[p]
    BY <1>0, <2>3, ReachMoves
  <2> HIDE DEF r, file
  <2>5. /\ recorder'[r].file = file
        /\ \A s \in Starts : /\ recorder'[s].written = recorder[s].written
                             /\ recorder'[s].sent = recorder[s].sent
                             /\ recorder'[s].object = recorder[s].object
                             /\ s # r => recorder'[s] = recorder[s]
    BY <1>0, <2>1, <2>2, <2>3, FileChanges
  <2>6. file # "none" /\ (IsOver(r) => file = recorder[r].file) /\ (file = "delivered" => IsOver(r))
    BY <2>1 DEF file, IsOver
  <2>7. \A s \in Starts : FileGoesOn(s)
    BY <1>0, <2>1, <2>5, <2>6 DEF FileGoesOn, IsOver
  <2>8. \A s \in Starts : handler[s].at = "new" => s # r
    BY <1>0, <2>1 DEF FilesAreMade
  <2>9. \A s \in Starts : handler'[s].at = "new" => handler[s].at = "new" /\ recorder'[s].file = recorder[s].file
    BY <2>4, <2>5, <2>8
  <2>10. \A s \in Starts : recorder'[s].written = recorder[s].written
    BY <2>5
  <2>11. \A s \in Starts : SentStays(s)
    BY <1>0, <2>1, <2>5, <2>6 DEF SentStays, IsOver
  <2> QED
    BY <2>7, <2>9, <2>10, <2>11
<1>7. ASSUME NEW g \in Starts, syncFile(g), ~IdleRemoves(g) PROVE Goal
  BY <1>1, <1>7 DEF syncFile, TickUploads, TickFindsNothing, TickUnsubscribes, IdleDeletes
<1>8. ASSUME NEW g \in Starts, IdleRemoves(g) PROVE Goal
  <2> DEFINE r == sync[g].rec
             file == IF recorder[r].file \in {"open", "closed"} THEN "dropped" ELSE recorder[r].file
  <2>1. r \in Starts /\ recorder[r].file # "none"
    BY <1>0, <1>8 DEF IdleRemoves, FilesAreMade, HasFile
  <2>2. file \in {"none", "open", "closed", "delivered", "dropped"}
    BY <1>0, <2>1 DEF Recording
  <2>3. recorder' = [recorder EXCEPT ![r].file = file] /\ handler' = handler
    BY <1>8 DEF IdleRemoves
  <2> HIDE DEF r, file
  <2>5. /\ recorder'[r].file = file
        /\ \A s \in Starts : /\ recorder'[s].written = recorder[s].written
                             /\ recorder'[s].sent = recorder[s].sent
                             /\ recorder'[s].object = recorder[s].object
                             /\ s # r => recorder'[s] = recorder[s]
    BY <1>0, <2>1, <2>2, <2>3, FileChanges
  <2>6. file # "none" /\ (IsOver(r) => file \in {"delivered", "dropped"})
        /\ (file = "delivered" => recorder[r].file = "delivered")
    BY <2>1 DEF file, IsOver
  <2>7. \A s \in Starts : FileGoesOn(s)
    BY <1>0, <2>1, <2>5, <2>6 DEF FileGoesOn, IsOver
  <2>8. \A s \in Starts : handler[s].at = "new" => s # r
    BY <1>0, <2>1 DEF FilesAreMade
  <2>9. \A s \in Starts : handler'[s].at = "new" => handler[s].at = "new" /\ recorder'[s].file = recorder[s].file
    BY <2>3, <2>5, <2>8
  <2>10. \A s \in Starts : recorder'[s].written = recorder[s].written
    BY <2>5
  <2>11. \A s \in Starts : SentStays(s)
    BY <1>0, <2>1, <2>5, <2>6 DEF SentStays, IsOver
  <2> QED
    BY <2>7, <2>9, <2>10, <2>11
<1>9. ASSUME NEW u \in BagToSet(uploads), uploadFile(u) PROVE Goal
  <2>0. u.rec \in Starts
    BY <1>0, Types DEF Upload
  <2>1. CASE OpenAndCopy(u)
    BY <1>1, <2>1 DEF OpenAndCopy
  <2>2. CASE Send(u)
    <3>1. /\ recorder'[u.rec].written = recorder[u.rec].written
          /\ recorder'[u.rec].file = Remove(u, recorder[u.rec].file)
          /\ \A s \in Starts : s # u.rec => recorder'[s] = recorder[s]
      BY <1>0, <2>2, SendChanges
    <3>2. u.removeFlag => IsOver(u.rec)
      BY DEF DeliveryInv, UploadsAreTrue, UploadIsTrue
    <3>3. \A s \in Starts : FileGoesOn(s) /\ recorder'[s].written = recorder[s].written
      BY <1>0, <2>0, <3>1 DEF FileGoesOn, IsOver, Remove
    <3>4. \A s \in Starts : handler[s].at = "new" => recorder'[s].file = recorder[s].file
      BY <1>0, <2>0, <3>1, <3>2 DEF FilesAreMade, IsOver, Remove
    <3>5. UNCHANGED handler
      BY <2>2 DEF Send
    <3> QED
      BY <2>2, <3>3, <3>4, <3>5
  <2>3. CASE UploadFails(u)
    <3>1. \A s \in Starts : /\ recorder'[s].file = recorder[s].file
                            /\ recorder'[s].written = recorder[s].written
                            /\ recorder'[s].sent = recorder[s].sent
                            /\ recorder'[s].object = recorder[s].object
      BY <1>0, <2>3, FailureChanges
    <3>2. \A s \in Starts : FileGoesOn(s) /\ SentStays(s)
      BY <1>0, <3>1 DEF FileGoesOn, IsOver, SentStays
    <3> QED
      BY <2>3, <3>1, <3>2 DEF UploadFails
  <2> QED
    BY <1>9, <2>1, <2>2, <2>3 DEF uploadFile
<1>10. ASSUME ReceiveReads \/ Update \/ UNCHANGED vars PROVE Goal
  BY <1>1, <1>10 DEF ReceiveReads, Update, vars
<1>16. ASSUME TimePasses PROVE Goal
  <2>1. /\ handler' = handler
        /\ \A s \in Starts : /\ recorder'[s].file = recorder[s].file
                             /\ recorder'[s].written = recorder[s].written
                             /\ recorder'[s].sent = recorder[s].sent
                             /\ recorder'[s].object = recorder[s].object
    BY <1>0, <1>16, TimeChanges DEF TimePasses
  <2>2. \A s \in Starts : FileGoesOn(s) /\ SentStays(s)
    BY <1>0, <2>1 DEF FileGoesOn, IsOver, SentStays
  <2> QED
    BY <2>1, <2>2
<1>11. ASSUME Write PROVE Goal
  <2>1. callback.rec \in Starts /\ handler' = handler
    BY <1>0, <1>11, WrittenChanges DEF Write
  <2>2. \A s \in Starts : /\ recorder'[s].file = recorder[s].file
                          /\ recorder'[s].sent = recorder[s].sent
                          /\ recorder'[s].object = recorder[s].object
                          /\ s # callback.rec => recorder'[s] = recorder[s]
    BY <1>0, <1>11, WrittenChanges
  <2>3. recorder'[callback.rec].written =
          IF recorder[callback.rec].file = "open" THEN recorder[callback.rec].written + 1
                                                  ELSE recorder[callback.rec].written
    BY <1>0, <1>11, WrittenChanges
  <2>4. \A s \in Starts : FileGoesOn(s) /\ SentStays(s)
    BY <1>0, <2>1, <2>2, <2>3 DEF FileGoesOn, IsOver, SentStays
  <2> QED
    BY <1>11, <2>1, <2>2, <2>4
<1>12. ASSUME MapRace PROVE Goal
  <2>1. \A r \in Starts : handler'[r].at # "new"
    BY <1>0, <1>12 DEF MapRace, At
  <2> QED
    BY <1>1, <1>12, <2>1 DEF MapRace
<1> HIDE DEF Goal
<1>13. \A g \in Starts : syncFile(g) => Goal
  BY <1>7, <1>8
<1>14. \A e \in Stops : HandleStop(e) => Goal
  BY <1>5, <1>6 DEF HandleStop
<1>15. Goal
  BY <1>2, <1>3, <1>4, <1>9, <1>10, <1>11, <1>12, <1>13, <1>14, <1>16 DEF Next
<1> QED
  BY <1>15 DEF Goal

LEMMA FilesNext == DeliveryInv /\ [Next]_vars => FilesAreMade'
<1> SUFFICES ASSUME DeliveryInv, [Next]_vars PROVE FilesAreMade'
  OBVIOUS
<1>0. /\ TypeOK /\ FilesAreMade
      /\ handler \in [Starts \cup Stops -> HandlerState] /\ sync \in [Starts -> SyncState]
      /\ recorder \in [Starts -> Recording] /\ recorders \in MapState
      /\ Starts \cap Stops = {} /\ None \notin Starts
  BY Types, RecorderAssumption DEF DeliveryInv, RecorderAssumption
<1> DEFINE Kept(x) == x \in Starts /\ recorder'[x].file # "none"
<1>a. /\ \A r \in Starts : handler'[r].at = "new" => recorder'[r].file = "none"
      /\ \A r \in Starts : HasFile(r) => Kept(r)
  BY <1>0, FilesGoOn DEF FilesAreMade, FileGoesOn, HasFile
<1>b. \A x : HasFile(x) => Kept(x)
  BY <1>a DEF HasFile
<1>c. /\ \A r \in Starts : handler[r].at = "store" => Kept(r)
      /\ Recorded => Kept(recorders.rec)
      /\ \A e \in Stops : handler[e].at = "close" => Kept(handler[e].rec)
      /\ \A g \in Starts : sync[g].at = "remove" => Kept(sync[g].rec)
  <2>1. \A r \in Starts : handler[r].at = "store" => HasFile(r)
    BY <1>0 DEF FilesAreMade, HasFile
  <2> QED
    BY <1>0, <1>b, <2>1 DEF FilesAreMade
<1> DEFINE Starting == \A r \in Starts : handler'[r].at = "store" => Kept(r)
           Stopping == \A e \in Stops : handler'[e].at = "close" => Kept(handler'[e].rec)
           InMap == Recorded' => Kept(recorders'.rec)
           Idling == \A g \in Starts : sync'[g].at = "remove" => Kept(sync'[g].rec)
<1>d. ASSUME Starting, Stopping, InMap, Idling PROVE FilesAreMade'
  BY <1>a, <1>d DEF FilesAreMade, HasFile
<1>e. /\ UNCHANGED handler => Starting /\ Stopping
      /\ recorders'.rec = recorders.rec \/ recorders'.rec = None => InMap
      /\ UNCHANGED sync => Idling
  BY <1>c DEF Recorded
<1>f. ASSUME NEW q \in Starts \cup Stops, handler'[q].at \notin {"store", "close"},
             \A p \in Starts \cup Stops : p # q => handler'[p] = handler[p]
      PROVE  Starting /\ Stopping
  BY <1>c, <1>f
<1> HIDE DEF Idling, InMap, Kept
<1>1. ASSUME NEW r \in Starts, StartReads(r) PROVE FilesAreMade'
  <2>1. /\ \A p \in Starts \cup Stops : p # r => handler'[p] = handler[p]
        /\ handler'[r].at = "store" => Kept(r)
    BY <1>0, <1>1, ReachMoves, FileChanges DEF StartReads, Kept
  <2>2. Starting /\ Stopping
    BY <1>0, <1>c, <2>1
  <2> QED
    BY <1>1, <1>d, <1>e, <2>2 DEF StartReads
<1>2. ASSUME NEW r \in Starts, StartStores(r) PROVE FilesAreMade'
  <2>1. Starting /\ Stopping
    BY <1>0, <1>2, <1>f, ReachMoves DEF StartStores
  <2>2. recorders'.rec = r /\ Kept(r)
    BY <1>c, <1>2 DEF StartStores
  <2>3. InMap
    BY <2>2 DEF InMap
  <2> QED
    BY <1>2, <1>d, <1>e, <2>1, <2>3 DEF StartStores
<1>3. ASSUME NEW r \in Starts, Subscribe(r) PROVE FilesAreMade'
  <2>1. Starting /\ Stopping
    BY <1>0, <1>3, <1>f, ReachMoves DEF Subscribe
  <2>2. Idling
    BY <1>0, <1>c, <1>3 DEF Subscribe, At, Idling
  <2> QED
    BY <1>3, <1>d, <1>e, <2>1, <2>2 DEF Subscribe
<1>4. ASSUME NEW e \in Stops, StopUnsubscribes(e) PROVE FilesAreMade'
  BY <1>0, <1>4, <1>d, <1>e, <1>f, ReachMoves DEF StopUnsubscribes
<1>5. ASSUME NEW e \in Stops, StopReads(e) PROVE FilesAreMade'
  <2>1. /\ handler'[e].at = "close" => Kept(handler'[e].rec)
        /\ handler'[e].at # "store"
        /\ \A p \in Starts \cup Stops : p # e => handler'[p] = handler[p]
    BY <1>0, <1>c, <1>5 DEF StopReads, At
  <2>2. Starting /\ Stopping
    BY <1>0, <1>c, <2>1
  <2> QED
    BY <1>5, <1>d, <1>e, <2>2 DEF StopReads
<1>6. ASSUME NEW e \in Stops, StopCloses(e) PROVE FilesAreMade'
  <2>1. Starting /\ Stopping
    BY <1>0, <1>6, <1>f, ReachMoves DEF StopCloses
  <2> QED
    BY <1>6, <1>d, <1>e, <2>1 DEF StopCloses
<1>7. ASSUME NEW e \in Stops, StopDeletes(e) PROVE FilesAreMade'
  <2>1. Starting /\ Stopping
    BY <1>0, <1>7, <1>f DEF StopDeletes, At
  <2> QED
    BY <1>7, <1>d, <1>e, <2>1 DEF StopDeletes, NotRecorded
<1>8. ASSUME NEW g \in Starts, syncFile(g) PROVE FilesAreMade'
  <2>1. UNCHANGED handler
    BY <1>8 DEF syncFile, TickUploads, TickFindsNothing, TickUnsubscribes, IdleRemoves, IdleDeletes
  <2>2. CASE TickUploads(g)
    <3>1. recorders'.rec = recorders.rec /\ UNCHANGED sync
      BY <1>0, <2>2 DEF TickUploads, MapState
    <3> QED
      BY <1>d, <1>e, <2>1, <3>1
  <2>3. CASE TickFindsNothing(g) \/ IdleRemoves(g) \/ IdleDeletes(g)
    <3>1. recorders' = recorders \/ recorders' = NotRecorded
      BY <2>3 DEF TickFindsNothing, IdleRemoves, IdleDeletes
    <3>2. recorders'.rec = recorders.rec \/ recorders'.rec = None
      BY <3>1 DEF NotRecorded
    <3>3. /\ sync'[g].at # "remove"
          /\ \A f \in Starts : f # g => sync'[f] = sync[f]
      BY <1>0, <2>3 DEF TickFindsNothing, IdleRemoves, IdleDeletes, At, SyncState
    <3>4. Idling
      BY <1>c, <3>3 DEF Idling
    <3> QED
      BY <1>d, <1>e, <2>1, <3>2, <3>4
  <2>4. CASE TickUnsubscribes(g)
    <3>1. /\ recorders' = recorders /\ Recorded
          /\ sync' = [sync EXCEPT ![g] = [at |-> "remove", rec |-> recorders.rec]]
      BY <2>4 DEF TickUnsubscribes
    <3>2. /\ sync'[g].rec = recorders.rec
          /\ \A f \in Starts : f # g => sync'[f] = sync[f]
      BY <1>0, <3>1
    <3>3. Idling
      BY <1>c, <3>1, <3>2 DEF Idling
    <3> QED
      BY <1>d, <1>e, <2>1, <3>1, <3>3
  <2> QED
    BY <1>8, <2>2, <2>3, <2>4 DEF syncFile
<1>9. ASSUME NEW u \in BagToSet(uploads), uploadFile(u) PROVE FilesAreMade'
  BY <1>9, <1>d, <1>e DEF uploadFile, OpenAndCopy, Send, UploadFails
<1>10. CASE ReceiveReads \/ Write \/ Update \/ TimePasses
  <2>1. UNCHANGED <<handler, sync>> /\ recorders'.rec = recorders.rec
    BY <1>0, <1>10 DEF ReceiveReads, Write, Update, TimePasses, MapState
  <2> QED
    BY <1>d, <1>e, <2>1
<1>11. CASE MapRace
  <2>1. Starting /\ Stopping
    BY <1>0, <1>11 DEF MapRace, At
  <2>2. InMap
    BY <1>11, <1>e DEF MapRace, NotRecorded
  <2>3. Idling
    BY <1>11 DEF MapRace, At, Idling
  <2> QED
    BY <1>d, <2>1, <2>2, <2>3
<1>12. CASE UNCHANGED vars
  BY <1>12, <1>d, <1>e DEF vars
<1> QED
  BY <1>1, <1>2, <1>3, <1>4, <1>5, <1>6, <1>7, <1>8, <1>9, <1>10, <1>11, <1>12
  DEF Next, HandleStart, HandleStop

\* An upload that runs on stays true, since files go on.
LEMMA UploadStaysTrue ==
  ASSUME TypeOK, TypeOK', NEW u \in Upload, UploadIsTrue(u), FileGoesOn(u.rec)
  PROVE  UploadIsTrue(u)'
<1>1. u.rec \in Starts /\ u.n \in Nat /\ recorder[u.rec].written \in Nat /\ recorder'[u.rec].written \in Nat
  BY RecorderAssumption DEF Upload, TypeOK, RecorderAssumption
<1>2. u.n <= recorder'[u.rec].written
  BY <1>1 DEF UploadIsTrue, FileGoesOn
<1>3. u.last => IsOver(u.rec)' /\ recorder'[u.rec].written = recorder[u.rec].written
  BY DEF UploadIsTrue, FileGoesOn
<1> QED
  BY <1>2, <1>3 DEF UploadIsTrue

LEMMA UploadsNext == DeliveryInv /\ [Next]_vars => UploadsAreTrue'
<1> SUFFICES ASSUME DeliveryInv, [Next]_vars PROVE UploadsAreTrue'
  OBVIOUS
<1>0. /\ TypeOK /\ TypeOK' /\ FilesAreMade /\ UploadsAreTrue
      /\ IsABag(uploads) /\ BagToSet(uploads) \subseteq Upload
      /\ handler \in [Starts \cup Stops -> HandlerState]
      /\ recorder \in [Starts -> Recording] /\ recorders \in MapState
  BY Types, TypeNext DEF DeliveryInv
<1>a. \A r \in Starts : FileGoesOn(r) /\ recorder'[r].written \in Nat
  BY <1>0, FilesGoOn, RecorderAssumption DEF TypeOK, RecorderAssumption
<1>b. \A u \in BagToSet(uploads) : UploadIsTrue(u)'
  BY <1>0, <1>a, UploadStaysTrue DEF UploadsAreTrue, Upload
<1>1. ASSUME BagToSet(uploads') \subseteq BagToSet(uploads) PROVE UploadsAreTrue'
  BY <1>1, <1>b DEF UploadsAreTrue
<1>2. ASSUME NEW v, BagToSet(uploads') \subseteq BagToSet(uploads) \cup {v}, UploadIsTrue(v)'
      PROVE  UploadsAreTrue'
  BY <1>2, <1>b DEF UploadsAreTrue
<1>3. ASSUME NEW r \in Starts, NEW removeFlag \in BOOLEAN, NEW last \in BOOLEAN,
             GoUpload(r, removeFlag, last), removeFlag => last, last => IsOver(r)'
      PROVE  UploadsAreTrue'
  <2> DEFINE v == [rec |-> r, removeFlag |-> removeFlag, last |-> last, at |-> "open", n |-> 0]
  <2>1. BagToSet(uploads') = BagToSet(uploads) \cup {v}
    BY <1>0, <1>3, UploadStarts, RecorderAssumption
  <2>2. v.rec = r /\ v.removeFlag = removeFlag /\ v.last = last /\ v.at = "open" /\ v.n = 0
    OBVIOUS
  <2> HIDE DEF v
  <2>3. UploadIsTrue(v)'
    BY <1>3, <1>a, <2>2 DEF UploadIsTrue, IsOver
  <2> QED
    BY <1>2, <2>1, <2>3
<1>4. ASSUME NEW r \in Starts, StartReads(r) \/ HandleStart(r) PROVE UploadsAreTrue'
  BY <1>1, <1>4 DEF StartReads, HandleStart, StartStores, Subscribe
<1>5. ASSUME NEW e \in Stops, StopUnsubscribes(e) \/ StopReads(e) \/ StopDeletes(e) PROVE UploadsAreTrue'
  BY <1>1, <1>5 DEF StopUnsubscribes, StopReads, StopDeletes
<1>6. ASSUME NEW e \in Stops, StopCloses(e) PROVE UploadsAreTrue'
  <2>1. PICK r \in Starts : r = handler[e].rec /\ recorder[r].file # "none"
    BY <1>0, <1>6 DEF StopCloses, FilesAreMade, HasFile
  <2> DEFINE file == IF recorder[r].file = "open" THEN "closed" ELSE recorder[r].file
  <2>2. recorder[r].file \in {"none", "open", "closed", "delivered", "dropped"}
    BY <1>0, <2>1 DEF Recording
  <2>3. recorder' = [recorder EXCEPT ![r].file = file] /\ GoUpload(r, TRUE, TRUE)
    BY <1>6, <2>1 DEF StopCloses
  <2>4. file \in {"closed", "delivered", "dropped"}
    BY <2>1, <2>2
  <2> HIDE DEF file
  <2>5. IsOver(r)'
    BY <1>0, <2>1, <2>3, <2>4, FileChanges DEF IsOver
  <2> QED
    BY <1>3, <2>1, <2>3, <2>5
<1>7. ASSUME NEW g \in Starts, syncFile(g), ~TickUploads(g) PROVE UploadsAreTrue'
  BY <1>1, <1>7 DEF syncFile, TickFindsNothing, TickUnsubscribes, IdleRemoves, IdleDeletes
<1>8. ASSUME NEW g \in Starts, TickUploads(g) PROVE UploadsAreTrue'
  <2>1. PICK r \in Starts : r = recorders.rec
    BY <1>0, <1>8 DEF TickUploads, FilesAreMade, HasFile
  <2>2. PICK last \in BOOLEAN : last = (recorder[r].file = "closed")
    OBVIOUS
  <2>3. GoUpload(r, FALSE, last) /\ recorder' = recorder
    BY <1>8, <2>1, <2>2 DEF TickUploads
  <2>4. last => IsOver(r)'
    BY <2>2, <2>3 DEF IsOver
  <2> QED
    BY <1>3, <2>3, <2>4
<1>9. ASSUME NEW u \in BagToSet(uploads), OpenAndCopy(u) PROVE UploadsAreTrue'
  <2>1. PICK v : /\ BagToSet(uploads') \subseteq BagToSet(uploads) \cup {v}
                 /\ v.rec = u.rec /\ v.removeFlag = u.removeFlag /\ v.last = u.last
                 /\ v.n = recorder[u.rec].written
    BY <1>0, <1>9, CopyIsMade
  <2>2. recorder' = recorder /\ u.rec \in Starts
    BY <1>0, <1>9 DEF OpenAndCopy, Upload
  <2>3. UploadIsTrue(u)'
    BY <1>b
  <2>4. UploadIsTrue(v)'
    BY <1>a, <2>1, <2>2, <2>3 DEF UploadIsTrue, IsOver
  <2> QED
    BY <1>2, <2>1, <2>4
<1>10. ASSUME NEW u \in BagToSet(uploads), Send(u) \/ UploadFails(u) PROVE UploadsAreTrue'
  BY <1>0, <1>1, <1>10, BagRemoves DEF Send, UploadFails, Ended
<1>11. CASE ReceiveReads \/ Write \/ Update \/ TimePasses \/ UNCHANGED vars
  BY <1>1, <1>11 DEF ReceiveReads, Write, Update, TimePasses, vars
<1>12. CASE MapRace
  BY <1>1, <1>12, BagEmpty DEF MapRace
<1>13. ASSUME NEW g \in Starts, syncFile(g) PROVE UploadsAreTrue'
  BY <1>7, <1>8, <1>13
<1> QED
  BY <1>4, <1>5, <1>6, <1>9, <1>10, <1>11, <1>12, <1>13 DEF Next, HandleStop, uploadFile

\* Messages that are published stay published.
LEMMA PublishedGrows ==
  TypeOK /\ [Next]_vars => broker'.published \in Nat /\ broker.published <= broker'.published
<1> SUFFICES ASSUME TypeOK, [Next]_vars
             PROVE  broker'.published \in Nat /\ broker.published <= broker'.published
  OBVIOUS
<1> DEFINE Goal == broker'.published \in Nat /\ broker.published <= broker'.published
<1>0. broker \in BrokerState /\ broker.published \in Nat
  BY Types, RecorderAssumption DEF RecorderAssumption, BrokerState
<1>1. ASSUME UNCHANGED broker PROVE Goal
  BY <1>0, <1>1
<1>2. ASSUME NEW s, broker' = [broker EXCEPT !.subscribed = s] PROVE Goal
  BY <1>0, <1>2 DEF BrokerState
<1>3. ASSUME NEW r \in Starts, StartReads(r) \/ HandleStart(r) \/ syncFile(r) PROVE Goal
  BY <1>1, <1>2, <1>3 DEF StartReads, HandleStart, StartStores, Subscribe, syncFile, TickUploads,
     TickFindsNothing, TickUnsubscribes, Unsubscribe, IdleRemoves, IdleDeletes
<1>4. ASSUME NEW e \in Stops, StopUnsubscribes(e) \/ HandleStop(e) PROVE Goal
  BY <1>1, <1>2, <1>4 DEF StopUnsubscribes, Unsubscribe, HandleStop, StopReads, StopCloses, StopDeletes
<1>5. ASSUME NEW u \in BagToSet(uploads), uploadFile(u) PROVE Goal
  BY <1>1, <1>5 DEF uploadFile, OpenAndCopy, Send, UploadFails
<1>6. ASSUME ReceiveReads PROVE Goal
  BY <1>0, <1>6 DEF ReceiveReads, BrokerState
<1>7. ASSUME Write \/ Update \/ TimePasses \/ UNCHANGED vars PROVE Goal
  BY <1>1, <1>7 DEF Write, Update, TimePasses, vars
<1>8. ASSUME MapRace PROVE Goal
  BY <1>2, <1>8 DEF MapRace
<1> HIDE DEF Goal
<1>9. Goal
  BY <1>3, <1>4, <1>5, <1>6, <1>7, <1>8 DEF Next
<1> QED
  BY <1>9 DEF Goal

\* The callback takes a message when it is published, and has written it once.
LEMMA CallbackSteps ==
  TypeOK /\ [Next]_vars => callback' = callback \/ callback'.at # "write" \/ ReceiveReads
<1> SUFFICES ASSUME TypeOK, Next PROVE callback' = callback \/ callback'.at # "write" \/ ReceiveReads
  BY DEF vars
<1>1. ASSUME NEW r \in Starts, StartReads(r) \/ HandleStart(r) \/ syncFile(r) PROVE callback' = callback
  BY <1>1 DEF StartReads, HandleStart, StartStores, Subscribe, syncFile, TickUploads,
     TickFindsNothing, TickUnsubscribes, IdleRemoves, IdleDeletes
<1>2. ASSUME NEW e \in Stops, StopUnsubscribes(e) \/ HandleStop(e) PROVE callback' = callback
  BY <1>2 DEF StopUnsubscribes, HandleStop, StopReads, StopCloses, StopDeletes
<1>3. ASSUME NEW u \in BagToSet(uploads), uploadFile(u) PROVE callback' = callback
  BY <1>3 DEF uploadFile, OpenAndCopy, Send, UploadFails
<1>4. CASE Write
  BY <1>4, Types DEF Write, CallbackState
<1>5. CASE Update \/ TimePasses \/ MapRace
  BY <1>5 DEF Update, TimePasses, MapRace, At
<1> QED
  BY <1>1, <1>2, <1>3, <1>4, <1>5 DEF Next

\* Only Send adds to what was sent, and only Write to what is written.
LEMMA MessagesNext == DeliveryInv /\ [Next]_vars => MessagesAreCounted'
<1> SUFFICES ASSUME DeliveryInv, [Next]_vars PROVE MessagesAreCounted'
  OBVIOUS
<1>0. /\ TypeOK /\ MessagesAreCounted /\ UploadsAreTrue
      /\ \A r \in Starts : recorder[r].written \in Nat /\ recorder[r].sent \in Nat
      /\ broker \in BrokerState /\ broker.published \in Nat /\ callback \in CallbackState
      /\ BagToSet(uploads) \subseteq Upload /\ None \notin Starts
  BY Types, RecorderAssumption DEF DeliveryInv, RecorderAssumption, BrokerState, Recording
<1>a. broker'.published \in Nat /\ broker.published <= broker'.published
  BY <1>0, PublishedGrows
<1> DEFINE Sent == \A r \in Starts : recorder'[r].sent <= recorder'[r].written
           Known == callback'.at = "write" => callback'.rec \in Starts
           Published == \A r \in Starts : /\ recorder'[r].written <= broker'.published
                                          /\ Writes(r)' => recorder'[r].written + 1 <= broker'.published
<1>1. ASSUME \A r \in Starts : recorder'[r].written = recorder[r].written PROVE Published
  <2>1. CASE callback' = callback \/ callback'.at # "write"
    BY <1>0, <1>1, <1>a, <2>1 DEF MessagesAreCounted, Writes
  <2>2. CASE ReceiveReads
    <3>1. broker'.published = broker.published + 1
      BY <1>0, <2>2 DEF ReceiveReads, BrokerState
    <3> QED
      BY <1>0, <1>1, <3>1 DEF MessagesAreCounted
  <2> QED
    BY <1>0, <2>1, <2>2, CallbackSteps
<1>2. ASSUME Write PROVE Published /\ Sent
  <2>1. callback.rec \in Starts /\ Writes(callback.rec) /\ callback'.at # "write" /\ broker' = broker
    BY <1>0, <1>2, WrittenChanges DEF Write, CallbackState, Writes
  <2>2. /\ recorder'[callback.rec].written =
             IF recorder[callback.rec].file = "open" THEN recorder[callback.rec].written + 1
                                                     ELSE recorder[callback.rec].written
        /\ \A s \in Starts : /\ recorder'[s].sent = recorder[s].sent
                             /\ s # callback.rec => recorder'[s] = recorder[s]
    BY <1>0, <1>2, WrittenChanges
  <2>3. ASSUME NEW s \in Starts
        PROVE  /\ recorder'[s].written <= broker'.published
               /\ recorder'[s].sent <= recorder'[s].written
    <3>1. /\ recorder[s].sent <= recorder[s].written /\ recorder[s].written <= broker.published
          /\ Writes(s) => recorder[s].written + 1 <= broker.published
      BY <1>0 DEF MessagesAreCounted
    <3> QED
      BY <1>0, <2>1, <2>2, <3>1
  <2> QED
    BY <1>0, <2>1, <2>3 DEF Writes
<1>3. ASSUME \A r \in Starts : recorder'[r].written = recorder[r].written PROVE Sent
  <2>1. CASE \A r \in Starts : SentStays(r)
    BY <1>0, <1>3, <2>1 DEF MessagesAreCounted, SentStays
  <2>2. ASSUME NEW u \in BagToSet(uploads), Send(u) PROVE Sent
    <3>1. /\ recorder'[u.rec].sent = IF u.n > recorder[u.rec].sent THEN u.n ELSE recorder[u.rec].sent
          /\ \A s \in Starts : s # u.rec => recorder'[s] = recorder[s]
      BY <1>0, <2>2, SendChanges
    <3>2. u.n <= recorder[u.rec].written
      BY <1>0 DEF UploadsAreTrue, UploadIsTrue
    <3> QED
      BY <1>0, <1>3, <3>1, <3>2 DEF MessagesAreCounted
  <2> QED
    BY <2>1, <2>2, FilesGoOn
<1>4. Published /\ Sent
  BY <1>1, <1>2, <1>3, FilesGoOn
<1>5. Known
  <2>1. ReceiveReads => Known
    BY DEF ReceiveReads, DeliveryInv, FilesAreMade, HasFile
  <2> QED
    BY <1>0, <2>1, CallbackSteps DEF MessagesAreCounted
<1> QED
  BY <1>4, <1>5 DEF MessagesAreCounted

\* Send delivers a file only when it sends all of it.
LEMMA StoppedNext == DeliveryInv /\ [Next]_vars => StoppedIsDelivered'
<1> SUFFICES ASSUME DeliveryInv, [Next]_vars, NEW r \in Starts, recorder'[r].file = "delivered"
             PROVE  recorder'[r].sent = recorder'[r].written
  BY DEF StoppedIsDelivered
<1>0. /\ TypeOK /\ MessagesAreCounted /\ UploadsAreTrue /\ StoppedIsDelivered
      /\ \A s \in Starts : recorder[s].written \in Nat /\ recorder[s].sent \in Nat
      /\ BagToSet(uploads) \subseteq Upload
  BY Types, RecorderAssumption DEF DeliveryInv, RecorderAssumption, Recording
<1>1. CASE \A s \in Starts : SentStays(s)
  BY <1>0, <1>1, FilesGoOn DEF StoppedIsDelivered, SentStays, FileGoesOn, IsOver
<1>2. ASSUME NEW u \in BagToSet(uploads), Send(u) PROVE recorder'[r].sent = recorder'[r].written
  <2>1. /\ recorder'[u.rec].written = recorder[u.rec].written
        /\ recorder'[u.rec].sent = IF u.n > recorder[u.rec].sent THEN u.n ELSE recorder[u.rec].sent
        /\ recorder'[u.rec].file = Remove(u, recorder[u.rec].file)
        /\ \A s \in Starts : s # u.rec => recorder'[s] = recorder[s]
    BY <1>0, <1>2, SendChanges
  <2>2. /\ u.n <= recorder[u.rec].written /\ u.n \in Nat
        /\ u.removeFlag => u.n = recorder[u.rec].written
        /\ recorder[r].sent <= recorder[r].written
    BY <1>0, <1>2, RecorderAssumption DEF UploadsAreTrue, UploadIsTrue, MessagesAreCounted, Send, Upload, RecorderAssumption
  <2>3. CASE recorder[r].file = "delivered"
    BY <1>0, <2>1, <2>2, <2>3 DEF StoppedIsDelivered
  <2>4. CASE recorder[r].file # "delivered"
    BY <1>0, <2>1, <2>2, <2>4 DEF Remove
  <2> QED
    BY <2>3, <2>4
<1> QED
  BY <1>1, <1>2, FilesGoOn

\* What an upload that is the last leaves in the bucket is what it holds.
LEMMA ObjectsNext == DeliveryInv /\ [Next]_vars => ObjectsAreTrue'
<1> SUFFICES ASSUME DeliveryInv, [Next]_vars, NEW r \in Starts PROVE ObjectIsTrue(r)'
  BY DEF ObjectsAreTrue
<1>0. /\ TypeOK /\ UploadsAreTrue /\ ObjectIsTrue(r) /\ FileGoesOn(r)
      /\ BagToSet(uploads) \subseteq Upload
  BY Types, FilesGoOn DEF DeliveryInv, ObjectsAreTrue
<1>1. ASSUME recorder'[r].object = recorder[r].object PROVE ObjectIsTrue(r)'
  BY <1>0, <1>1 DEF ObjectIsTrue, FileGoesOn
<1>2. ASSUME NEW u \in BagToSet(uploads), Send(u) PROVE ObjectIsTrue(r)'
  <2>1. /\ recorder'[u.rec].object = [n |-> u.n, last |-> u.last]
        /\ recorder'[u.rec].written = recorder[u.rec].written
        /\ \A s \in Starts : s # u.rec => recorder'[s] = recorder[s]
    BY <1>0, <1>2, SendChanges
  <2>2. u.last => IsOver(u.rec) /\ u.n = recorder[u.rec].written
    BY <1>0, <1>2 DEF UploadsAreTrue, UploadIsTrue, Send
  <2>3. CASE r = u.rec
    BY <1>0, <2>1, <2>2, <2>3 DEF ObjectIsTrue, FileGoesOn
  <2>4. CASE r # u.rec
    BY <1>1, <2>1, <2>4
  <2> QED
    BY <2>3, <2>4
<1> QED
  BY <1>1, <1>2, FilesGoOn DEF SentStays

LEMMA DeliveryNext == DeliveryInv /\ [Next]_vars => DeliveryInv'
  BY TypeNext, FilesNext, MessagesNext, UploadsNext, ObjectsNext, StoppedNext DEF DeliveryInv

LEMMA DeliveryInvariance == Spec => []DeliveryInv
  BY DeliveryInit, DeliveryNext, PTL DEF Spec

\* Every variable keeps its type; in particular no more is written or sent than
\* there are messages.
THEOREM TypeCorrect == Spec => []TypeOK
<1>1. DeliveryInv => TypeOK
  BY DEF DeliveryInv
<1> QED
  BY <1>1, DeliveryInvariance, PTL

\* A file that the end of its recording removed was sent to the last message.
THEOREM StoppedIsAlwaysDelivered == Spec => []StoppedIsDelivered
<1>1. DeliveryInv => StoppedIsDelivered
  BY DEF DeliveryInv
<1> QED
  BY <1>1, DeliveryInvariance, PTL

\* An upload that began when the file was closed sends all that is ever written,
\* and what it leaves in the bucket is whole.
THEOREM LastUploadIsAlwaysWhole == Spec => []LastUploadIsWhole
<1>1. DeliveryInv => LastUploadIsWhole
  BY DEF DeliveryInv, UploadsAreTrue, UploadIsTrue, ObjectsAreTrue, ObjectIsTrue, LastUploadIsWhole
<1> QED
  BY <1>1, DeliveryInvariance, PTL

-----------------------------------------------------------------------------
(* No recording is forgotten while requests and idle ends do not overlap. *)

LEMMA KnownInit == Init => KnownInv
<1> SUFFICES ASSUME Init PROVE NothingForgotten
  BY DEF KnownInv
<1>1. /\ \A q \in Starts \cup Stops : handler[q].at = "new"
      /\ \A g \in Starts : sync[g].at = "none"
      /\ \A r \in Starts : recorder[r].file = "none"
  BY DEF Init, At, NoFile
<1> QED
  BY <1>1 DEF NothingForgotten, OneIsBusy, BusyKnows, BusyHandler, BusySync, OpensAreKnown

\* Steps that move no request and no idle end, and open no file.
LEMMA OthersForgetNothing ==
  ASSUME NothingForgotten, UNCHANGED <<handler, sync>>, recorders'.rec = recorders.rec,
         \A r \in Starts : recorder'[r].file = "open" => recorder[r].file = "open"
  PROVE  NothingForgotten'
<1>1. OneIsBusy'
  BY DEF NothingForgotten, OneIsBusy, BusyHandler, BusySync
<1>2. BusyKnows'
  BY DEF NothingForgotten, BusyKnows, Recorded, NoneIsOpen
<1>3. OpensAreKnown'
  BY DEF NothingForgotten, OpensAreKnown
<1> QED
  BY <1>1, <1>2, <1>3 DEF NothingForgotten

\* The requests and idle ends that are busy after a step were so before, but for
\* the one that begins when nobody is.
LEMMA StillOneIsBusy ==
  ASSUME OneIsBusy,
         \A q \in Starts \cup Stops : BusyHandler(q)' => BusyHandler(q),
         \A g \in Starts : BusySync(g)' => BusySync(g)
  PROVE  OneIsBusy'
BY DEF OneIsBusy, BusyHandler, BusySync

LEMMA OneBegins ==
  ASSUME TypeOK, ~Busy,
         \/ \E q \in Starts \cup Stops :
              UNCHANGED sync /\ \A p \in Starts \cup Stops : p # q => handler'[p] = handler[p]
         \/ \E g \in Starts :
              UNCHANGED handler /\ \A f \in Starts : f # g => sync'[f] = sync[f]
  PROVE  OneIsBusy'
<1>1. \A q \in Starts \cup Stops : ~BusyHandler(q)
  BY DEF TypeOK, Busy, BusyHandler
<1>2. \A g \in Starts : ~BusySync(g)
  BY DEF Busy, BusySync
<1> QED
  BY <1>1, <1>2 DEF OneIsBusy, BusyHandler, BusySync

LEMMA KnownNext == DeliveryInv /\ KnownInv /\ [Next]_vars => KnownInv'
<1> SUFFICES ASSUME DeliveryInv, KnownInv, [Next]_vars, ~overlap', ~crashed'
             PROVE  NothingForgotten'
  BY DEF KnownInv
<1>0. /\ TypeOK /\ FilesAreMade
      /\ handler \in [Starts \cup Stops -> HandlerState] /\ sync \in [Starts -> SyncState]
      /\ recorder \in [Starts -> Recording] /\ recorders \in MapState
      /\ Starts \cap Stops = {} /\ None \notin Starts
      /\ \A r \in Starts : r \in Starts \cup Stops
      /\ \A e \in Stops : e \in Starts \cup Stops /\ e \notin Starts
  BY Types, RecorderAssumption DEF DeliveryInv, RecorderAssumption
<1>a. ASSUME UNCHANGED <<overlap, crashed>> PROVE NothingForgotten
  BY <1>a DEF KnownInv
<1>b. ASSUME Begin, UNCHANGED crashed PROVE NothingForgotten /\ ~Busy
  BY <1>b DEF KnownInv, Begin
<1>c. ASSUME NothingForgotten PROVE OneIsBusy /\ BusyKnows /\ OpensAreKnown
  BY <1>c DEF NothingForgotten
<1>d. ~Busy => /\ \A q \in Starts \cup Stops : handler[q].at \in {"new", "done"}
               /\ \A g \in Starts : sync[g].at \notin {"remove", "delete"}
  BY <1>0 DEF Busy
<1>1. ASSUME NEW r \in Starts, StartReads(r) PROVE NothingForgotten'
  <2>1. NothingForgotten /\ ~Busy
    BY <1>1, <1>b DEF StartReads
  <2>2. /\ handler'[r].at \in {"store", "done"}
        /\ handler'[r].at = "store" => ~Recorded /\ recorder'[r].file = "open"
        /\ \A q \in Starts \cup Stops : q # r => handler'[q] = handler[q]
        /\ \A s \in Starts : s # r => recorder'[s] = recorder[s]
        /\ handler'[r].at # "store" => recorder' = recorder
        /\ UNCHANGED <<recorders, sync>>
    BY <1>0, <1>1, ReachMoves, FileChanges DEF StartReads
  <2>3. OneIsBusy'
    BY <1>0, <2>1, <2>2, OneBegins
  <2>4. BusyKnows'
    BY <1>0, <1>d, <2>1, <2>2 DEF BusyKnows, Recorded
  <2>5. OpensAreKnown'
    BY <1>0, <1>c, <1>d, <2>1, <2>2 DEF OpensAreKnown
  <2> QED
    BY <2>3, <2>4, <2>5 DEF NothingForgotten
<1>2. ASSUME NEW r \in Starts, StartStores(r) PROVE NothingForgotten'
  <2>1. OneIsBusy /\ BusyKnows /\ OpensAreKnown
    BY <1>2, <1>a, <1>c DEF StartStores
  <2>2. /\ handler[r].at = "store" /\ handler'[r].at = "subscribe"
        /\ \A q \in Starts \cup Stops : q # r => handler'[q] = handler[q]
        /\ recorders'.rec = r /\ UNCHANGED <<recorder, sync>>
    BY <1>0, <1>2, ReachMoves DEF StartStores
  <2>3. OneIsBusy'
    BY <1>0, <2>1, <2>2, StillOneIsBusy DEF BusyHandler, BusySync
  <2>4. /\ \A q \in Starts \cup Stops : q # r => handler'[q].at \in {"new", "done"}
        /\ \A g \in Starts : sync'[g].at \notin {"remove", "delete"}
    BY <1>0, <2>1, <2>2 DEF OneIsBusy, BusyHandler, BusySync
  <2>5. BusyKnows'
    BY <1>0, <2>2, <2>4 DEF BusyKnows
  <2>6. OpensAreKnown'
    BY <1>0, <2>1, <2>2, <2>4 DEF OpensAreKnown, BusyKnows, Recorded
  <2> QED
    BY <2>3, <2>5, <2>6 DEF NothingForgotten
<1>3. ASSUME NEW r \in Starts, Subscribe(r) PROVE NothingForgotten'
  <2>1. OneIsBusy /\ BusyKnows /\ OpensAreKnown
    BY <1>3, <1>a, <1>c DEF Subscribe
  <2>2. /\ handler[r].at = "subscribe" /\ handler'[r].at = "done"
        /\ \A q \in Starts \cup Stops : q # r => handler'[q] = handler[q]
        /\ UNCHANGED <<recorders, recorder>>
        /\ \A g \in Starts : sync'[g] = sync[g] \/ sync'[g].at = "tick"
    BY <1>0, <1>3, ReachMoves DEF Subscribe, At
  <2>3. OneIsBusy'
    BY <1>0, <2>1, <2>2, StillOneIsBusy DEF BusyHandler, BusySync
  <2>4. BusyKnows'
    BY <1>0, <2>1, <2>2 DEF BusyKnows, Recorded, NoneIsOpen
  <2>5. OpensAreKnown'
    BY <1>0, <2>1, <2>2 DEF OpensAreKnown
  <2> QED
    BY <2>3, <2>4, <2>5 DEF NothingForgotten
<1>4. ASSUME NEW e \in Stops, StopUnsubscribes(e) PROVE NothingForgotten'
  <2>1. NothingForgotten /\ ~Busy
    BY <1>4, <1>b DEF StopUnsubscribes
  <2>2. /\ handler'[e].at = "read"
        /\ \A q \in Starts \cup Stops : q # e => handler'[q] = handler[q]
        /\ UNCHANGED <<recorders, recorder, sync>>
    BY <1>0, <1>4, ReachMoves DEF StopUnsubscribes
  <2>3. OneIsBusy'
    BY <1>0, <2>1, <2>2, OneBegins
  <2>4. BusyKnows'
    BY <1>0, <1>d, <2>1, <2>2 DEF BusyKnows
  <2>5. OpensAreKnown'
    BY <1>0, <1>c, <2>1, <2>2 DEF OpensAreKnown
  <2> QED
    BY <2>3, <2>4, <2>5 DEF NothingForgotten
<1>5. ASSUME NEW e \in Stops, StopReads(e) PROVE NothingForgotten'
  <2>1. OneIsBusy /\ BusyKnows /\ OpensAreKnown
    BY <1>5, <1>a, <1>c DEF StopReads
  <2>2. /\ handler[e].at = "read" /\ handler'[e].at \in {"close", "done"}
        /\ handler'[e].at = "close" => handler'[e].rec = recorders.rec
        /\ \A q \in Starts \cup Stops : q # e => handler'[q] = handler[q]
        /\ UNCHANGED <<recorders, recorder, sync>>
    BY <1>0, <1>5 DEF StopReads, At
  <2>3. OneIsBusy'
    BY <1>0, <2>1, <2>2, StillOneIsBusy DEF BusyHandler, BusySync
  <2>4. BusyKnows'
    BY <1>0, <2>1, <2>2 DEF BusyKnows, Recorded, NoneIsOpen
  <2>5. OpensAreKnown'
    BY <1>0, <2>1, <2>2 DEF OpensAreKnown
  <2> QED
    BY <2>3, <2>4, <2>5 DEF NothingForgotten
<1>6. ASSUME NEW e \in Stops, StopCloses(e) PROVE NothingForgotten'
  <2>1. OneIsBusy /\ BusyKnows /\ OpensAreKnown
    BY <1>6, <1>a, <1>c DEF StopCloses
  <2>2. PICK r \in Starts : r = handler[e].rec
    BY <1>0, <1>6 DEF StopCloses, FilesAreMade, HasFile
  <2> DEFINE file == IF recorder[r].file = "open" THEN "closed" ELSE recorder[r].file
  <2>3. file \in {"none", "open", "closed", "delivered", "dropped"} /\ file # "open"
    BY <1>0 DEF Recording
  <2>4. recorder' = [recorder EXCEPT ![r].file = file]
    BY <1>6, <2>2 DEF StopCloses
  <2> HIDE DEF file
  <2>5. recorder'[r].file # "open" /\ \A s \in Starts : s # r => recorder'[s] = recorder[s]
    BY <1>0, <2>3, <2>4, FileChanges
  <2>6. /\ handler[e].at = "close" /\ handler'[e].at = "delete"
        /\ \A q \in Starts \cup Stops : q # e => handler'[q] = handler[q]
        /\ UNCHANGED <<recorders, sync>>
    BY <1>0, <1>6, ReachMoves DEF StopCloses
  <2>7. /\ \A q \in Starts \cup Stops : q # e => handler'[q].at \in {"new", "done"}
        /\ \A g \in Starts : sync'[g].at \notin {"remove", "delete"}
    BY <1>0, <2>1, <2>6 DEF OneIsBusy, BusyHandler, BusySync
  <2>8. recorders.rec = r
    BY <2>1, <2>2, <2>6 DEF BusyKnows
  <2>9. NoneIsOpen'
    BY <1>0, <2>1, <2>5, <2>6, <2>7, <2>8 DEF NoneIsOpen, OpensAreKnown
  <2>10. OneIsBusy'
    BY <1>0, <2>1, <2>6, StillOneIsBusy DEF BusyHandler, BusySync
  <2>11. BusyKnows'
    BY <1>0, <2>6, <2>7, <2>9 DEF BusyKnows
  <2> QED
    BY <2>9, <2>10, <2>11 DEF NothingForgotten, NoneIsOpen, OpensAreKnown
<1>7. ASSUME NEW e \in Stops, StopDeletes(e) PROVE NothingForgotten'
  <2>1. OneIsBusy /\ BusyKnows /\ OpensAreKnown
    BY <1>7, <1>a, <1>c DEF StopDeletes
  <2>2. /\ handler[e].at = "delete" /\ handler'[e].at = "done"
        /\ \A q \in Starts \cup Stops : q # e => handler'[q] = handler[q]
        /\ UNCHANGED <<recorder, sync>>
    BY <1>0, <1>7 DEF StopDeletes, At
  <2>3. NoneIsOpen'
    BY <2>1, <2>2 DEF BusyKnows, NoneIsOpen
  <2>4. /\ \A q \in Starts \cup Stops : handler'[q].at \in {"new", "done"}
        /\ \A g \in Starts : sync'[g].at \notin {"remove", "delete"}
    BY <1>0, <2>1, <2>2 DEF OneIsBusy, BusyHandler, BusySync
  <2>5. OneIsBusy' /\ BusyKnows'
    BY <1>0, <2>4 DEF OneIsBusy, BusyHandler, BusySync, BusyKnows
  <2> QED
    BY <2>3, <2>5 DEF NothingForgotten, NoneIsOpen, OpensAreKnown
<1>8. ASSUME NEW g \in Starts, TickUploads(g) PROVE NothingForgotten'
  <2>1. NothingForgotten
    BY <1>8, <1>a DEF TickUploads
  <2>2. UNCHANGED <<handler, sync, recorder>> /\ recorders'.rec = recorders.rec
    BY <1>0, <1>8 DEF TickUploads, MapState
  <2> QED
    BY <2>1, <2>2, OthersForgetNothing
<1>9. ASSUME NEW g \in Starts, TickFindsNothing(g) PROVE NothingForgotten'
  <2>1. OneIsBusy /\ BusyKnows /\ OpensAreKnown
    BY <1>9, <1>a, <1>c DEF TickFindsNothing
  <2>2. /\ sync'[g].at = "done" /\ \A f \in Starts : f # g => sync'[f] = sync[f]
        /\ UNCHANGED <<recorders, recorder, handler>>
    BY <1>0, <1>9 DEF TickFindsNothing, At
  <2>3. OneIsBusy'
    BY <2>1, <2>2, StillOneIsBusy DEF BusyHandler, BusySync
  <2>4. BusyKnows'
    BY <2>1, <2>2 DEF BusyKnows, Recorded, NoneIsOpen
  <2>5. OpensAreKnown'
    BY <2>1, <2>2 DEF OpensAreKnown
  <2> QED
    BY <2>3, <2>4, <2>5 DEF NothingForgotten
<1>10. ASSUME NEW g \in Starts, TickUnsubscribes(g) PROVE NothingForgotten'
  <2>1. NothingForgotten /\ ~Busy
    BY <1>10, <1>b DEF TickUnsubscribes
  <2>2. /\ sync'[g].at = "remove" /\ sync'[g].rec = recorders.rec
        /\ \A f \in Starts : f # g => sync'[f] = sync[f]
        /\ UNCHANGED <<recorders, recorder, handler>>
    BY <1>0, <1>10 DEF TickUnsubscribes
  <2>3. OneIsBusy'
    BY <1>0, <2>1, <2>2, OneBegins
  <2>4. BusyKnows'
    BY <1>0, <1>d, <2>1, <2>2 DEF BusyKnows
  <2>5. OpensAreKnown'
    BY <1>c, <2>1, <2>2 DEF OpensAreKnown
  <2> QED
    BY <2>3, <2>4, <2>5 DEF NothingForgotten
<1>11. ASSUME NEW g \in Starts, IdleRemoves(g) PROVE NothingForgotten'
  <2>1. OneIsBusy /\ BusyKnows /\ OpensAreKnown
    BY <1>11, <1>a, <1>c DEF IdleRemoves
  <2>2. PICK r \in Starts : r = sync[g].rec
    BY <1>0, <1>11 DEF IdleRemoves, FilesAreMade, HasFile
  <2> DEFINE file == IF recorder[r].file \in {"open", "closed"} THEN "dropped" ELSE recorder[r].file
  <2>3. file \in {"none", "open", "closed", "delivered", "dropped"} /\ file # "open"
    BY <1>0 DEF Recording
  <2>4. recorder' = [recorder EXCEPT ![r].file = file]
    BY <1>11, <2>2 DEF IdleRemoves
  <2> HIDE DEF file
  <2>5. recorder'[r].file # "open" /\ \A s \in Starts : s # r => recorder'[s] = recorder[s]
    BY <1>0, <2>3, <2>4, FileChanges
  <2>6. /\ sync[g].at = "remove" /\ sync'[g].at = "delete"
        /\ \A f \in Starts : f # g => sync'[f] = sync[f]
        /\ UNCHANGED <<recorders, handler>>
    BY <1>0, <1>11 DEF IdleRemoves, SyncState
  <2>7. /\ \A q \in Starts \cup Stops : handler'[q].at \in {"new", "done"}
        /\ \A f \in Starts : f # g => sync'[f].at \notin {"remove", "delete"}
    BY <1>0, <2>1, <2>6 DEF OneIsBusy, BusyHandler, BusySync
  <2>8. recorders.rec = r
    BY <2>1, <2>2, <2>6 DEF BusyKnows
  <2>9. NoneIsOpen'
    BY <1>0, <2>1, <2>5, <2>6, <2>7, <2>8 DEF NoneIsOpen, OpensAreKnown
  <2>10. OneIsBusy'
    BY <1>0, <2>1, <2>6, StillOneIsBusy DEF BusyHandler, BusySync
  <2>11. BusyKnows'
    BY <1>0, <2>6, <2>7, <2>9 DEF BusyKnows
  <2> QED
    BY <2>9, <2>10, <2>11 DEF NothingForgotten, NoneIsOpen, OpensAreKnown
<1>12. ASSUME NEW g \in Starts, IdleDeletes(g) PROVE NothingForgotten'
  <2>1. OneIsBusy /\ BusyKnows /\ OpensAreKnown
    BY <1>12, <1>a, <1>c DEF IdleDeletes
  <2>2. /\ sync[g].at = "delete" /\ sync'[g].at = "done"
        /\ \A f \in Starts : f # g => sync'[f] = sync[f]
        /\ UNCHANGED <<recorder, handler>>
    BY <1>0, <1>12 DEF IdleDeletes, At
  <2>3. NoneIsOpen'
    BY <2>1, <2>2 DEF BusyKnows, NoneIsOpen
  <2>4. /\ \A q \in Starts \cup Stops : handler'[q].at \in {"new", "done"}
        /\ \A f \in Starts : sync'[f].at \notin {"remove", "delete"}
    BY <1>0, <2>1, <2>2 DEF OneIsBusy, BusyHandler, BusySync
  <2>5. OneIsBusy' /\ BusyKnows'
    BY <1>0, <2>4 DEF OneIsBusy, BusyHandler, BusySync, BusyKnows
  <2> QED
    BY <2>3, <2>5 DEF NothingForgotten, NoneIsOpen, OpensAreKnown
<1>13. ASSUME NEW u \in BagToSet(uploads), uploadFile(u) PROVE NothingForgotten'
  <2>1. NothingForgotten
    BY <1>13, <1>a DEF uploadFile, OpenAndCopy, Send, UploadFails
  <2>2. UNCHANGED <<handler, sync, recorders>>
    BY <1>13 DEF uploadFile, OpenAndCopy, Send, UploadFails
  <2>3. \A r \in Starts : recorder'[r].file = "open" => recorder[r].file = "open"
    <3>1. CASE OpenAndCopy(u)
      BY <3>1 DEF OpenAndCopy
    <3>2. CASE Send(u)
      BY <1>0, <3>2, SendChanges DEF Remove
    <3>3. CASE UploadFails(u)
      BY <1>0, <3>3, FailureChanges
    <3> QED
      BY <1>13, <3>1, <3>2, <3>3 DEF uploadFile
  <2> QED
    BY <2>1, <2>2, <2>3, OthersForgetNothing
<1>14. CASE ReceiveReads \/ Update \/ UNCHANGED vars
  <2>1. NothingForgotten
    BY <1>14, <1>a DEF ReceiveReads, Update, vars
  <2>2. UNCHANGED <<handler, sync, recorder>> /\ recorders'.rec = recorders.rec
    BY <1>0, <1>14 DEF ReceiveReads, Update, vars, MapState
  <2> QED
    BY <2>1, <2>2, OthersForgetNothing
<1>15. CASE Write \/ TimePasses
  <2>1. NothingForgotten
    BY <1>15, <1>a DEF Write, TimePasses
  <2>2. UNCHANGED <<handler, sync>> /\ recorders'.rec = recorders.rec
    BY <1>0, <1>15 DEF Write, TimePasses, MapState
  <2>3. MessagesAreCounted
    BY DEF DeliveryInv
  <2>4. \A r \in Starts : recorder'[r].file = recorder[r].file
    BY <1>0, <1>15, <2>3, WrittenChanges, TimeChanges
  <2> QED
    BY <2>1, <2>2, <2>4, OthersForgetNothing
<1>16. CASE MapRace
  BY <1>16 DEF MapRace
<1> QED
  BY <1>1, <1>2, <1>3, <1>4, <1>5, <1>6, <1>7, <1>8, <1>9, <1>10, <1>11, <1>12, <1>13, <1>14, <1>15, <1>16
  DEF Next, HandleStart, HandleStop, syncFile

\* A file that is open is in the map, or its start is about to put it there, for
\* as long as requests and idle ends do not overlap and the process lives.
THEOREM OpenIsAlwaysKnown == Spec => []OpenIsKnown
<1>1. KnownInv => OpenIsKnown
  BY DEF KnownInv, NothingForgotten, OpensAreKnown, OpenIsKnown
<1> QED
  BY <1>1, KnownInit, KnownNext, DeliveryInvariance, PTL DEF Spec
=============================================================================

------------------------------ MODULE Recorder ------------------------------
(***************************************************************************)
(* worker/recorder writes the messages of an MQTT topic to a file and      *)
(* uploads the file to a bucket: every five minutes by a goroutine of the  *)
(* recording (syncFile), and at its end (stopRecorder).  HTTP handlers,    *)
(* the MQTT callback and the sync goroutines share the map recorders       *)
(* without a lock.                                                         *)
(*                                                                         *)
(* One topic is modelled: topics share nothing but the map.  A Recorder    *)
(* and its file are named by the start request that made them.  A file is  *)
(* its number of messages, since it only grows; the newlines are layout.   *)
(* The MQTT client calls back for one message at a time.  A file that is   *)
(* there can be read to its end: uploadFile, which ignores the error of    *)
(* its io.Copy, would take part of it for all.  Each recording has an      *)
(* object of its own; starts that name one key would overwrite each        *)
(* other's.                                                                *)
(*                                                                         *)
(* Time is what syncFile sees of it: a Recorder is fresh for five minutes  *)
(* after its UpdateAt and idle after two hours.  The ticker has the same   *)
(* five minutes, so that a tick a little late comes after them: ticks in   *)
(* between the two ages do nothing, and what was written waits.            *)
(***************************************************************************)
EXTENDS Naturals, FiniteSets, Bags

CONSTANTS
  Starts,      \* the calls of recorder/start
  Stops,       \* the calls of recorder/end
  MaxMessages, \* how many messages the topic has
  MaxUploads   \* a tick starts an upload while fewer than these are running

None == "none"

ASSUME RecorderAssumption ==
  /\ Starts \cap Stops = {}
  /\ None \notin Starts
  /\ MaxMessages \in Nat /\ MaxUploads \in Nat

VARIABLES
  recorders,   \* the topic's entry in the map, and the age of its UpdateAt:
               \* "fresh", "ticked" when a tick has seen it so, then "idle"
  recorder,    \* per start: the file of its Recorder, its object in the bucket
               \* and, as history, the most that was sent of it and how much
               \* was written when an upload of it failed or when its fresh time
               \* went by without a tick
  handler,     \* per request: where its handler is, and the Recorder it read
  sync,        \* per start: where its syncFile goroutine is
  uploads,     \* the running calls of uploadFile, a bag
  broker,      \* the subscription, and how many messages were published
  callback,    \* where onMessageReceived is, and the Recorder it read
  overlap,     \* history: a request or an idle end began during another
  crashed      \* the process died

vars == <<recorders, recorder, handler, sync, uploads, broker, callback, overlap, crashed>>

Entry == Starts \cup {None}
NotRecorded == [rec |-> None, age |-> "fresh"]
\* What an object holds: n messages, from an upload that is "last" if it was
\* started when the file was closed already.
NoObject == [n |-> 0, last |-> FALSE]
NoFile == [file |-> "none", written |-> 0, object |-> NoObject,
           sent |-> 0, missed |-> 0]
Upload == [rec : Starts, removeFlag : BOOLEAN, last : BOOLEAN,
           at : {"open", "send"}, n : 0 .. MaxMessages]
At(pc) == [at |-> pc, rec |-> None]

TypeOK ==
  /\ recorders \in [rec : Entry, age : {"fresh", "ticked", "idle"}] 
  /\ callback \in [at : {"none", "write", "update"}, rec : Entry]
  /\ recorder \in [Starts -> [file : {"none", "open", "closed", "delivered", "dropped"},
                              written : 0 .. MaxMessages,
                              object : [n : 0 .. MaxMessages, last : BOOLEAN],
                              sent : 0 .. MaxMessages, missed : 0 .. MaxMessages]]
  /\ handler \in [Starts \cup Stops -> [at : {"new", "store", "subscribe", "read",
                                              "close", "delete", "done"}, rec : Entry]]
  /\ sync \in [Starts -> [at : {"none", "tick", "remove", "delete", "done"}, rec : Entry]]
  /\ IsABag(uploads) /\ BagToSet(uploads) \subseteq Upload
  /\ broker \in [subscribed : BOOLEAN, published : 0 .. MaxMessages]
  /\ overlap \in BOOLEAN /\ crashed \in BOOLEAN

Init ==
  /\ recorders = NotRecorded
  /\ recorder = [r \in Starts |-> NoFile]
  /\ handler = [q \in Starts \cup Stops |-> At("new")]
  /\ sync = [r \in Starts |-> At("none")]
  /\ uploads = EmptyBag
  /\ broker = [subscribed |-> FALSE, published |-> 0]
  /\ callback = At("none")
  /\ overlap = FALSE
  /\ crashed = FALSE

Recorded == recorders.rec # None

\* A request, or an idle end, begins.
Busy ==
  \/ \E q \in DOMAIN handler : handler[q].at \notin {"new", "done"}
  \/ \E g \in Starts : sync[g].at \in {"remove", "delete"}
Begin == overlap' = (overlap \/ Busy)

Reach(q, pc) == handler' = [handler EXCEPT ![q].at = pc]

\* go uploadFile(...)
GoUpload(r, removeFlag, last) ==
  uploads' = uploads (+) SetToBag({[rec |-> r, removeFlag |-> removeFlag, last |-> last,
                                    at |-> "open", n |-> 0]})

\* A call of Unsubscribe succeeds, fails, or is not waited for any longer.
Unsubscribe ==
  \E s \in {FALSE, broker.subscribed} : broker' = [broker EXCEPT !.subscribed = s]

-----------------------------------------------------------------------------
(* startRecorder. *)

\* Mutant of StartReads: a topic that is recorded already is recorded again.
StartAlways(r) ==
  /\ handler[r].at = "new"
  /\ recorder' = [recorder EXCEPT ![r].file = "open"]
  /\ Reach(r, "store")
  /\ Begin
  /\ UNCHANGED <<recorders, sync, uploads, broker, callback, crashed>>

\* A topic that is recorded already is left alone; otherwise there is a file,
\* unless it cannot be made.
StartReads(r) ==
  /\ handler[r].at = "new"
  /\ \/ /\ ~Recorded
        /\ recorder' = [recorder EXCEPT ![r].file = "open"]
        /\ Reach(r, "store")
     \/ Reach(r, "done") /\ UNCHANGED recorder
  /\ Begin
  /\ UNCHANGED <<recorders, sync, uploads, broker, callback, crashed>>

StartStores(r) ==
  /\ handler[r].at = "store"
  /\ recorders' = [rec |-> r, age |-> "fresh"]
  /\ Reach(r, "subscribe")
  /\ UNCHANGED <<recorder, sync, uploads, broker, callback, overlap, crashed>>

\* Subscribing fails, and there is no sync goroutine; or it succeeds; or it was
\* not answered in twenty seconds, which counts as a success.
Subscribe(r) ==
  /\ handler[r].at = "subscribe"
  /\ Reach(r, "done")
  /\ \/ UNCHANGED <<broker, sync>>
     \/ /\ \E s \in {TRUE, broker.subscribed} : broker' = [broker EXCEPT !.subscribed = s]
        /\ sync' = [sync EXCEPT ![r] = At("tick")]
  /\ UNCHANGED <<recorders, recorder, uploads, callback, overlap, crashed>>

-----------------------------------------------------------------------------
(* stopRecorder. *)

StopUnsubscribes(e) ==
  /\ handler[e].at = "new"
  /\ Unsubscribe
  /\ Reach(e, "read")
  /\ Begin
  /\ UNCHANGED <<recorders, recorder, sync, uploads, callback, crashed>>

StopReads(e) ==
  /\ handler[e].at = "read"
  /\ handler' = [handler EXCEPT ![e] =
       IF Recorded THEN [at |-> "close", rec |-> recorders.rec] ELSE At("done")]
  /\ UNCHANGED <<recorders, recorder, sync, uploads, broker, callback, overlap, crashed>>

\* Mutant of StopCloses: the file is left open while it is uploaded.
StopUploadsOpenFile(e) ==
  /\ handler[e].at = "close"
  /\ GoUpload(handler[e].rec, TRUE, TRUE)
  /\ Reach(e, "delete")
  /\ UNCHANGED <<recorders, recorder, sync, broker, callback, overlap, crashed>>

\* The file is closed and its last upload started.
StopCloses(e) ==
  /\ handler[e].at = "close"
  /\ LET r == handler[e].rec
     IN /\ recorder' = [recorder EXCEPT ![r].file = IF @ = "open" THEN "closed" ELSE @]
        /\ GoUpload(r, TRUE, TRUE)
  /\ Reach(e, "delete")
  /\ UNCHANGED <<recorders, sync, broker, callback, overlap, crashed>>

\* Whatever is in the map by now.
StopDeletes(e) ==
  /\ handler[e].at = "delete"
  /\ recorders' = NotRecorded
  /\ handler' = [handler EXCEPT ![e] = At("done")]
  /\ UNCHANGED <<recorder, sync, uploads, broker, callback, overlap, crashed>>

-----------------------------------------------------------------------------
(* syncFile of start g: what a tick does. *)

Ticks(g) == sync[g].at = "tick"

TickUploads(g) ==
  /\ Ticks(g)
  /\ Recorded /\ recorders.age # "idle"
  /\ BagCardinality(uploads) < MaxUploads
  /\ recorders' = [recorders EXCEPT !.age = "ticked"]
  /\ GoUpload(recorders.rec, FALSE, recorder[recorders.rec].file = "closed")
  /\ UNCHANGED <<recorder, handler, sync, broker, callback, overlap, crashed>>

TickFindsNothing(g) ==
  /\ Ticks(g)
  /\ ~Recorded
  /\ sync' = [sync EXCEPT ![g] = At("done")]
  /\ UNCHANGED <<recorders, recorder, handler, uploads, broker, callback, overlap, crashed>>

TickUnsubscribes(g) ==
  /\ Ticks(g)
  /\ Recorded /\ recorders.age = "idle"
  /\ Unsubscribe
  /\ sync' = [sync EXCEPT ![g] = [at |-> "remove", rec |-> recorders.rec]]
  /\ Begin
  /\ UNCHANGED <<recorders, recorder, handler, uploads, callback, crashed>>

\* The idle file is closed and removed, and not uploaded.
IdleRemoves(g) ==
  /\ sync[g].at = "remove"
  /\ sync' = [sync EXCEPT ![g].at = "delete"]
  /\ recorder' = [recorder EXCEPT ![sync[g].rec].file =
       IF @ \in {"open", "closed"} THEN "dropped" ELSE @]
  /\ UNCHANGED <<recorders, handler, uploads, broker, callback, overlap, crashed>>

IdleDeletes(g) ==
  /\ sync[g].at = "delete"
  /\ recorders' = NotRecorded
  /\ sync' = [sync EXCEPT ![g] = At("done")]
  /\ UNCHANGED <<recorder, handler, uploads, broker, callback, overlap, crashed>>

-----------------------------------------------------------------------------
(* A call of uploadFile. *)

Ended(u) == uploads' = uploads (-) SetToBag({u})
File(u) == recorder[u.rec].file

\* The file is opened and copied to its end; opening it earlier shows no more.
OpenAndCopy(u) ==
  /\ u.at = "open"
  /\ File(u) \in {"open", "closed"}
  /\ uploads' = (uploads (-) SetToBag({u})) (+)
       SetToBag({[u EXCEPT !.at = "send", !.n = recorder[u.rec].written]})
  /\ UNCHANGED <<recorders, recorder, handler, sync, broker, callback, overlap, crashed>>

\* The file is removed when that was asked for.
Remove(u, file) == IF u.removeFlag /\ file # "dropped" THEN "delivered" ELSE file

\* The object is what the upload that ends last has sent.
Send(u) ==
  /\ u.at = "send"
  /\ Ended(u)
  /\ recorder' = [recorder EXCEPT ![u.rec].object = [n |-> u.n, last |-> u.last],
                                  ![u.rec].sent = IF u.n > @ THEN u.n ELSE @,
                                  ![u.rec].file = Remove(u, @)]
  /\ UNCHANGED <<recorders, handler, sync, broker, callback, overlap, crashed>>

\* There is no such file any more, or S3 refuses it.
UploadFails(u) ==
  /\ u.at = "open" => File(u) \notin {"open", "closed"}
  /\ Ended(u)
  /\ recorder' = [recorder EXCEPT ![u.rec].missed = recorder[u.rec].written]
  /\ UNCHANGED <<recorders, handler, sync, broker, callback, overlap, crashed>>

-----------------------------------------------------------------------------
(* The broker and onMessageReceived. *)

ReceiveReads ==
  /\ broker.subscribed
  /\ broker.published < MaxMessages
  /\ callback.at = "none"
  /\ callback' = IF Recorded THEN [at |-> "write", rec |-> recorders.rec] ELSE callback
  /\ broker' = [broker EXCEPT !.published = @ + 1]
  /\ UNCHANGED <<recorders, recorder, handler, sync, uploads, overlap, crashed>>

\* Mutant of Write: a message is written twice.
WriteTwice ==
  /\ callback.at = "write"
  /\ recorder' = [recorder EXCEPT ![callback.rec].written =
       IF recorder[callback.rec].file = "open" THEN @ + 2 ELSE @]
  /\ callback' = [callback EXCEPT !.at = "update"]
  /\ UNCHANGED <<recorders, handler, sync, uploads, broker, overlap, crashed>>

\* A write to a closed file is an error that is logged.
Write ==
  /\ callback.at = "write"
  /\ recorder' = [recorder EXCEPT ![callback.rec].written =
       IF recorder[callback.rec].file = "open" THEN @ + 1 ELSE @]
  /\ callback' = [callback EXCEPT !.at = "update"]
  /\ UNCHANGED <<recorders, handler, sync, uploads, broker, overlap, crashed>>

\* Mutant of Update: UpdateAt is not set.
UpdateNothing ==
  /\ callback.at = "update"
  /\ callback' = At("none")
  /\ UNCHANGED <<recorders, recorder, handler, sync, uploads, broker, overlap, crashed>>

\* UpdateAt is set after the file was written to: a tick in between sees the old one.
Update ==
  /\ callback.at = "update"
  /\ recorders' = IF recorders.rec = callback.rec THEN [recorders EXCEPT !.age = "fresh"]
                                                  ELSE recorders
  /\ callback' = At("none")
  /\ UNCHANGED <<recorder, handler, sync, uploads, broker, overlap, crashed>>

-----------------------------------------------------------------------------
(* Time passes for the recording in the map, and the unlocked map. *)

\* Subscribing takes twenty seconds at most. The five minutes may go by without
\* a tick: what was written by then is not uploaded by the ticks that follow.
TimePasses ==
  /\ Recorded /\ recorders.age # "idle"
  /\ handler[recorders.rec].at # "subscribe"
  /\ recorders' = [recorders EXCEPT !.age = "idle"]
  /\ recorder' = [recorder EXCEPT ![recorders.rec].missed =
       IF recorders.age = "fresh" THEN recorder[recorders.rec].written ELSE @]
  /\ UNCHANGED <<handler, sync, uploads, broker, callback, overlap, crashed>>

\* The goroutines whose next step writes the map, and those whose next reads it.
Writers ==
  {<<"handler", q>> : q \in {p \in DOMAIN handler : handler[p].at \in {"store", "delete"}}}
    \cup {<<"sync", g>> : g \in {f \in Starts : sync[f].at = "delete"}}
Readers ==
  {<<"handler", q>> : q \in {p \in DOMAIN handler : handler[p].at \in {"new", "read"}}}
    \cup {<<"sync", g>> : g \in {f \in Starts : Ticks(f)}}
    \cup (IF broker.subscribed /\ callback.at = "none" THEN {<<"callback", None>>} ELSE {})

\* The runtime may end a program that writes a map while another goroutine uses
\* it: its files stay, the rest is gone.
MapRace ==
  /\ Writers # {} /\ Cardinality(Writers \cup Readers) > 1
  /\ crashed' = TRUE
  /\ recorders' = NotRecorded /\ callback' = At("none")
  /\ handler' = [q \in DOMAIN handler |-> At("done")]
  /\ sync' = [g \in Starts |-> At("done")]
  /\ uploads' = EmptyBag
  /\ broker' = [broker EXCEPT !.subscribed = FALSE]
  /\ UNCHANGED <<recorder, overlap>>

-----------------------------------------------------------------------------
HandleStart(r) == StartStores(r) \/ Subscribe(r)
HandleStop(e) == StopReads(e) \/ StopCloses(e) \/ StopDeletes(e)
syncFile(g) ==
  TickUploads(g) \/ TickFindsNothing(g) \/ TickUnsubscribes(g) \/ IdleRemoves(g) \/ IdleDeletes(g)
uploadFile(u) == OpenAndCopy(u) \/ Send(u) \/ UploadFails(u)

Next ==
  /\ ~crashed
  /\ \/ \E r \in Starts : StartReads(r) \/ HandleStart(r) \/ syncFile(r)
     \/ \E e \in Stops : StopUnsubscribes(e) \/ HandleStop(e)
     \/ \E u \in BagToSet(uploads) : uploadFile(u)
     \/ ReceiveReads \/ Write \/ Update \/ TimePasses \/ MapRace

Spec == Init /\ [][Next]_vars

\* Goroutines are scheduled, tickers tick, calls of S3 and of the broker return.
\* The handlers have no loop, so that they may be fair together; whichever sync
\* goroutine of the topic ticks looks after what is recorded.
FairSpec ==
  /\ Spec
  /\ WF_vars(~crashed /\ ((\E r \in Starts : HandleStart(r)) \/ \E e \in Stops : HandleStop(e)))
  /\ WF_vars(~crashed /\ \E g \in Starts : syncFile(g))
  /\ WF_vars(~crashed /\ \E u \in BagToSet(uploads) : uploadFile(u))
  /\ WF_vars(~crashed /\ (Write \/ Update))

-----------------------------------------------------------------------------
(* Properties. *)

\* When the end of a recording removes the file, all of it was sent, whatever
\* handlers, callback, ticks and idle ends do meanwhile (main.go:112-143, 244-247).
StoppedIsDelivered ==
  \A r \in Starts : recorder[r].file = "delivered" => recorder[r].sent = recorder[r].written

\* Only an upload that was started before the end of the recording can leave less
\* than all of it in the bucket, by ending after the last one (the question of
\* main.go:91): one that is started when the file is closed sends all that is ever
\* written, and the object it leaves holds all of it (main.go:112-143, 240-247).
LastUploadIsWhole ==
  /\ \A u \in BagToSet(uploads) : u.last /\ u.at = "send" => u.n = recorder[u.rec].written
  /\ \A r \in Starts : recorder[r].object.last => recorder[r].object.n = recorder[r].written

\* As long as requests and idle ends do not overlap, no recording is forgotten:
\* an open file is in the map, or about to be (main.go:200-212, 240-248, 96-103).
OpenIsKnown ==
  ~overlap /\ ~crashed =>
    \A r \in Starts : recorder[r].file = "open" => recorders.rec = r \/ handler[r].at = "store"

\* Nobody looks after the recording r: its subscription failed, so there is no
\* sync goroutine, or overlapping requests or a dead process forgot it.
Neglected(r) == overlap \/ crashed \/ (handler[r].at = "done" /\ sync[r].at = "none")
IdleEnd(r) == \E g \in Starts : sync[g] = [at |-> "remove", rec |-> r]
\* The message that was written last has not set UpdateAt yet.
Undated(r) == callback = [at |-> "update", rec |-> r]

\* What was written and dated gets to the bucket, by a tick or by the end of the
\* recording, however messages, ticks and the end interleave, unless an upload
\* fails, for which the code has no retry, or no tick comes in the five minutes
\* that the message is fresh, the period of the ticker (main.go:80, 88-92). A
\* message that is dated after an idle end has begun is not promised anything: the
\* file goes with it, though it was written before (main.go:51, 58, 93-102).
WrittenIsDelivered ==
  \A r \in Starts : \A n \in 1 .. MaxMessages :
    recorder[r].written = n /\ recorder[r].file = "open" /\ ~IdleEnd(r) /\ ~Undated(r)
      ~> \/ recorder[r].sent >= n
         \/ recorder[r].missed >= n \/ Neglected(r)
=============================================================================

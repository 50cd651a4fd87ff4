------------------------------ MODULE Resource ------------------------------
(***************************************************************************)
(* worker/resource: a job names items, each a file in a bucket; for each   *)
(* item the handler downloads the file, derives others from it (a tree of  *)
(* jobNodes, walked in preorder) and uploads each file to its buckets, one *)
(* goroutine per bucket.  An upload error makes the pipeline call the      *)
(* handler again for the whole job, at most MaxRetry times; a file that    *)
(* cannot be made does not.  In the end the results are stored under the   *)
(* items' keys and posted to the client.                                   *)
(*                                                                         *)
(* A job with one item stands for handleRequest too: it differs from a     *)
(* batch of one in the shape of the callback only.  Jobs run concurrently  *)
(* (worker.go:66) and meet in the buckets and in the table of results.     *)
(* isProcessing is left out: one goroutine sets and resets it, and a tree  *)
(* in which it stays set, after an upload error, is discarded.             *)
(***************************************************************************)
EXTENDS Naturals, Sequences, SequencesExt

CONSTANTS
  Jobs,      \* the jobs accepted
  items,     \* per job: its requests, with Key, Type, FromBucket and ToBucket
  Buckets,   \* the buckets of bucketPool
  MaxRetry   \* worker.go:15

ASSUME ResourceAssumption ==
  /\ \A j \in Jobs : Len(items[j]) > 0 /\ items[j] \in Seq({items[j][i] : i \in DOMAIN items[j]})
  /\ MaxRetry \in Nat

VARIABLES
  job,       \* per job: where its handler is, and its local state
  remote,    \* the objects in the buckets: key, what is appended to it, bucket
  stored,    \* the rows of the table resources, by key: the result, and whose it is
  callback,  \* per job: the callbacks posted, each with an entry per item
  crashed    \* the process died

vars == <<job, remote, stored, callback, crashed>>

\* A result is a map from buckets to bits; nil claims nothing.
NoResult == <<>>

\* The file that is downloaded has the key as its name.
NoSuffix == ""

\* The jobNodes of a request in preorder: what is appended to the key, the
\* parent, and the bit set in the result. The root is the download.
Node(suffix, parent, bit) == [suffix |-> suffix, parent |-> parent, bit |-> bit]

Tree(type) ==
  CASE type = "msg_video" ->
         <<Node(NoSuffix, 0, 8), Node("cover", 1, 1), Node("blur", 2, 2), Node("webp", 1, 4)>>
    [] type = "msg_image" -> <<Node(NoSuffix, 0, 8), Node("cover", 1, 1), Node("blur", 2, 2)>>
    [] type = "user_avatar" -> <<Node(NoSuffix, 0, 1), Node("thumb", 1, 2)>>
    [] type = "msg_url_only" -> <<Node(NoSuffix, 0, 8)>>
    [] type = "msg_c" -> <<Node(NoSuffix, 0, 16)>>
    [] type = "user_cover" -> <<Node(NoSuffix, 0, 4)>>
    [] OTHER -> <<>>

\* The handler of a job at an item: the node it is doing, the nodes that have
\* an outFile, the <<node, bucket>> pairs that are true in a resultMap, the
\* buckets the range loop has not visited, those an upload to which is running,
\* and those whose upload sent an error; the results of the items before.
Handler(at, item, retry, results) ==
  [at |-> at, item |-> item, retry |-> retry, results |-> results, node |-> 1, outFile |-> {},
   resultMap |-> {}, range |-> {}, uploading |-> {}, errChan |-> {}]

Init ==
  /\ job = [j \in Jobs |-> Handler("waiting", 1, 0, <<>>)]
  /\ remote = {}
  /\ stored = <<>>
  /\ callback = [j \in Jobs |-> <<>>]
  /\ crashed = FALSE

Item(j) == items[j][job[j].item]
Nodes(j) == Tree(Item(j).Type)

At(j, at) == ~crashed /\ job[j].at = at
Goto(j, at) == job' = [job EXCEPT ![j].at = at]

-----------------------------------------------------------------------------
(* Handle is called, and the tree of an item is made. *)

\* Mutant of Handle: one call more than MaxRetry.
HandleOnceMore(j) ==
  /\ At(j, "waiting")
  /\ Goto(j, IF job[j].retry <= MaxRetry THEN "make" ELSE "dropped")
  /\ UNCHANGED <<remote, stored, callback, crashed>>

Handle(j) ==
  /\ At(j, "waiting")
  /\ Goto(j, IF job[j].retry < MaxRetry THEN "make" ELSE "dropped")
  /\ UNCHANGED <<remote, stored, callback, crashed>>

\* An unknown type is an error that ends the job.
NoSuchType(j) ==
  /\ At(j, "make")
  /\ Nodes(j) = <<>>
  /\ Goto(j, "failed")
  /\ UNCHANGED <<remote, stored, callback, crashed>>

\* The root is nil for an unknown FromBucket: appending its children panics,
\* and when it has none doJobs returns no result and an error that is ignored.
NoSuchBucket(j) ==
  /\ At(j, "make")
  /\ Nodes(j) # <<>> /\ Item(j).FromBucket \notin Buckets
  /\ IF Len(Nodes(j)) > 1
     THEN crashed' = TRUE /\ UNCHANGED job
     ELSE /\ job' = [job EXCEPT ![j].at = "store", ![j].results = Append(@, NoResult)]
          /\ UNCHANGED crashed
  /\ UNCHANGED <<remote, stored, callback>>

\* The file is taken to be in the bucket it comes from.
MakeTree(j) ==
  /\ At(j, "make")
  /\ Nodes(j) # <<>> /\ Item(j).FromBucket \in Buckets
  /\ job' = [job EXCEPT ![j].at = "node", ![j].resultMap = {<<1, Item(j).FromBucket>>}]
  /\ UNCHANGED <<remote, stored, callback, crashed>>

-----------------------------------------------------------------------------
(* doJob. *)

\* The walk goes on with the next node, or the tree is done.
NodeDone(j) ==
  job' = IF job[j].node = Len(Nodes(j)) THEN [job EXCEPT ![j].at = "result"]
         ELSE [job EXCEPT ![j].at = "node", ![j].node = @ + 1]

\* A node has an inFile when it is the root or its parent has an outFile.
HasInFile(j) ==
  LET parent == Nodes(j)[job[j].node].parent
  IN parent = 0 \/ parent \in job[j].outFile

SkipNode(j) ==
  /\ At(j, "node")
  /\ ~HasInFile(j)
  /\ NodeDone(j)
  /\ UNCHANGED <<remote, stored, callback, crashed>>

CreateFileFails(j) ==
  /\ At(j, "node")
  /\ HasInFile(j)
  /\ NodeDone(j)
  /\ UNCHANGED <<remote, stored, callback, crashed>>

\* A command that leaves an empty file makes runOneCmd return no file name and
\* no error, so the uploads start without a file; a download does not do so.
CreateFile(j) ==
  /\ At(j, "node")
  /\ HasInFile(j)
  /\ LET n == job[j].node
     IN \E files \in {{n}} \cup (IF n = 1 THEN {} ELSE {{}}) :
          job' = [job EXCEPT ![j].at = "range", ![j].outFile = @ \cup files, ![j].errChan = {},
                             ![j].range = {Item(j).FromBucket, Item(j).ToBucket}]
  /\ UNCHANGED <<remote, stored, callback, crashed>>

\* The range loop visits a bucket: an upload to it is started unless it has the
\* file; for an unknown bucket that goroutine only logs.
RangeVisits(j) ==
  /\ At(j, "range")
  /\ \E b \in job[j].range :
       job' = [job EXCEPT ![j].range = @ \ {b},
                 ![j].uploading = IF <<job[j].node, b>> \in job[j].resultMap \/ b \notin Buckets
                                  THEN @ ELSE @ \cup {b}]
  /\ UNCHANGED <<remote, stored, callback, crashed>>

RangeEnds(j) ==
  /\ At(j, "range")
  /\ job[j].range = {}
  /\ Goto(j, "wait")
  /\ UNCHANGED <<remote, stored, callback, crashed>>

-----------------------------------------------------------------------------
(* The goroutine that uploads a node's file to bucket b. *)

Object(j, b) == <<Item(j).Key, Nodes(j)[job[j].node].suffix, b>>
HasOutFile(j) == job[j].node \in job[j].outFile

\* Upload does nothing when the object exists; otherwise it needs the file.
\* Writing resultMap while the range loop reads it may also kill the process.
Uploaded(j, b) ==
  /\ ~crashed
  /\ b \in job[j].uploading
  /\ Object(j, b) \in remote \/ HasOutFile(j)
  /\ remote' = remote \cup {Object(j, b)}
  /\ \/ /\ job' = [job EXCEPT ![j].uploading = @ \ {b},
                              ![j].resultMap = @ \cup {<<job[j].node, b>>}]
        /\ UNCHANGED crashed
     \/ /\ job[j].at = "range"
        /\ crashed' = TRUE
        /\ UNCHANGED job
  /\ UNCHANGED <<stored, callback>>

\* Mutants of UploadFails: the error is not sent, or errChan is unbuffered and
\* nobody receives from it.
UploadFailsSilently(j, b) ==
  /\ ~crashed
  /\ b \in job[j].uploading
  /\ job' = [job EXCEPT ![j].uploading = @ \ {b}]
  /\ UNCHANGED <<remote, stored, callback, crashed>>

UploadFailsBlocks(j, b) ==
  /\ ~crashed
  /\ b \in job[j].uploading
  /\ job' = [job EXCEPT ![j].errChan = @ \cup {b}]
  /\ UNCHANGED <<remote, stored, callback, crashed>>

\* An upload of a file may fail after the object came into being.
UploadFails(j, b) ==
  /\ ~crashed
  /\ b \in job[j].uploading
  /\ job' = [job EXCEPT ![j].uploading = @ \ {b}, ![j].errChan = @ \cup {b}]
  /\ \/ UNCHANGED remote
     \/ HasOutFile(j) /\ remote' = remote \cup {Object(j, b)}
  /\ UNCHANGED <<stored, callback, crashed>>

\* Mutants of Wait: the goroutines are not waited for, or the results so far are
\* posted before a retry.
WaitForNobody(j) ==
  /\ At(j, "wait")
  /\ IF job[j].errChan = {} THEN NodeDone(j)
     ELSE job' = [job EXCEPT ![j] = [Handler("waiting", 1, @.retry + 1, <<>>)
                                       EXCEPT !.uploading = job[j].uploading]]
  /\ UNCHANGED <<remote, stored, callback, crashed>>

WaitAnswers(j) ==
  /\ At(j, "wait")
  /\ job[j].uploading = {}
  /\ IF job[j].errChan = {} THEN NodeDone(j) /\ UNCHANGED callback
     ELSE /\ job' = [job EXCEPT ![j] = Handler("waiting", 1, @.retry + 1, <<>>)]
          /\ callback' = [callback EXCEPT ![j] = Append(@, <<>>)]
  /\ UNCHANGED <<remote, stored, crashed>>

\* gWait.Wait. After an error Handle asks for a retry of the whole job, which
\* the worker goroutine passes on.
Wait(j) ==
  /\ At(j, "wait")
  /\ job[j].uploading = {}
  /\ IF job[j].errChan = {} THEN NodeDone(j)
     ELSE job' = [job EXCEPT ![j] = Handler("waiting", 1, @.retry + 1, <<>>)]
  /\ UNCHANGED <<remote, stored, callback, crashed>>

-----------------------------------------------------------------------------
(* The result of an item, and of the job. *)

\* getResult: per bucket, the bits of the nodes uploaded to it.
getResult(j) ==
  LET trues == {p[2] : p \in job[j].resultMap}
  IN [b \in trues |-> {Nodes(j)[p[1]].bit : p \in {q \in job[j].resultMap : q[2] = b}}]

Result(j) ==
  /\ At(j, "result")
  /\ job' = [job EXCEPT ![j].at = "store", ![j].results = Append(@, getResult(j))]
  /\ UNCHANGED <<remote, stored, callback, crashed>>

\* store, whose error is ignored, and the step to the next item. A row has no
\* column for the item a result is of: "of" is a history variable.
Store(j) ==
  /\ At(j, "store")
  /\ \/ stored' = [k \in DOMAIN stored \cup {Item(j).Key} |->
                    IF k = Item(j).Key
                    THEN [of |-> <<j, job[j].item>>, result |-> Last(job[j].results)]
                    ELSE stored[k]]
     \/ UNCHANGED stored
  /\ IF job[j].item = Len(items[j]) THEN Goto(j, "callback")
     ELSE job' = [job EXCEPT ![j] = Handler("make", @.item + 1, @.retry, @.results)]
  /\ UNCHANGED <<remote, callback, crashed>>

\* Mutant of Callback: the entries name the first item of the batch.
CallbackOfFirst(j) ==
  /\ At(j, "callback")
  /\ callback' = [callback EXCEPT ![j] = Append(@,
       [i \in DOMAIN items[j] |-> [request |-> Head(items[j]), result |-> job[j].results[i]]])]
  /\ Goto(j, "done")
  /\ UNCHANGED <<remote, stored, crashed>>

\* The callback is posted once, whatever becomes of it. Its entries point to one
\* loop variable (request.go:149), so each has the last item as its request.
Callback(j) ==
  /\ At(j, "callback")
  /\ callback' = [callback EXCEPT ![j] = Append(@,
       [i \in DOMAIN items[j] |-> [request |-> Last(items[j]), result |-> job[j].results[i]]])]
  /\ Goto(j, "done")
  /\ UNCHANGED <<remote, stored, crashed>>

-----------------------------------------------------------------------------
MakeJobs(j) == NoSuchType(j) \/ NoSuchBucket(j) \/ MakeTree(j)

DoJob(j) ==
  \/ SkipNode(j) \/ CreateFileFails(j) \/ CreateFile(j)
  \/ RangeVisits(j) \/ RangeEnds(j) \/ Wait(j)

Goroutine(j, b) == Uploaded(j, b) \/ UploadFails(j, b)

Run(j) == Handle(j) \/ MakeJobs(j) \/ DoJob(j) \/ Result(j) \/ Store(j) \/ Callback(j)

Next ==
  \E j \in Jobs : Run(j) \/ \E b \in Buckets : Goroutine(j, b)

Spec == Init /\ [][Next]_vars

\* The handlers' goroutines are scheduled, and commands and uploads end.
FairSpec ==
  /\ Spec
  /\ \A j \in Jobs : WF_vars(Run(j)) /\ \A b \in Buckets : WF_vars(Goroutine(j, b))

-----------------------------------------------------------------------------
(* Properties. *)

\* The types of the state: a job's nodes are those of its item's tree, its uploads
\* go to known buckets, and Handle is called for at most MaxRetry retries
\* (job.go:33-49, 125, worker.go:84).
TypeOK ==
  /\ \A j \in Jobs :
       /\ job[j].at \in {"waiting", "make", "node", "range", "wait", "result", "store",
                         "callback", "done", "failed", "dropped"}
       /\ job[j].item \in DOMAIN items[j]
       /\ job[j].retry \in 0 .. MaxRetry
       /\ job[j].outFile \subseteq DOMAIN Nodes(j)
       /\ job[j].uploading \cup job[j].errChan \subseteq Buckets
  /\ DOMAIN stored \subseteq UNION {{items[j][i].Key : i \in DOMAIN items[j]} : j \in Jobs}
  /\ crashed \in BOOLEAN

\* The pairs <<node, bucket>> a result claims.
Claimed(req, result) ==
  {p \in (DOMAIN Tree(req.Type)) \X DOMAIN result : Tree(req.Type)[p[1]].bit \in result[p[2]]}

\* The source is claimed without looking.
Source(req) == <<1, req.FromBucket>>

AllPresent(req, result) ==
  \A p \in Claimed(req, result) \ {Source(req)} :
    <<req.Key, Tree(req.Type)[p[1]].suffix, p[2]>> \in remote

\* Every result posted or stored is true of the item it was made of, over all
\* retries and beside other jobs on the same keys: what it claims is in the bucket
\* it is said to be in. A row has the key of that item. An entry of a callback says
\* itself which item that is, and cannot be taken at its word: request.go:149
\* leaves the last item in all of them. A client that goes by the position of an
\* entry is told the truth, and one that reads the pair is in the last entry, thus
\* in the only one of handleRequest too (job.go:118-170, request.go:104-109,
\* 145-153).
ClaimsAreTrue ==
  /\ \A j \in Jobs : \A c \in DOMAIN callback[j] :
       LET entry == callback[j][c]
           end == Len(items[j])
       IN /\ \A i \in DOMAIN items[j] : AllPresent(items[j][i], entry[i].result)
          /\ AllPresent(entry[end].request, entry[end].result)
  /\ \A k \in DOMAIN stored :
       LET of == stored[k].of
           req == items[of[1]][of[2]]
       IN req.Key = k /\ AllPresent(req, stored[k].result)

\* A posted result is complete: a derived file it claims in one of the two
\* buckets it claims in both, since an upload error never gets as far as the
\* callback (job.go:165-168, request.go:99-101).
ClaimsAreWhole ==
  \A j \in Jobs : \A c \in DOMAIN callback[j] : \A i \in DOMAIN items[j] :
    LET req == items[j][i]
        claimed == Claimed(req, callback[j][c][i].result)
    IN \A p \in claimed : p[1] > 1 =>
         \A b \in {req.FromBucket, req.ToBucket} \cap Buckets : <<p[1], b>> \in claimed

\* No upload goroutine outlives the call of doJob that started it: a retry never
\* runs beside uploads of the attempt before (job.go:120-123, 163).
UploadsEndFirst ==
  \A j \in Jobs : job[j].uploading # {} => job[j].at \in {"range", "wait"}

\* A job is answered by at most one callback, and only by one when it is done,
\* however often it was retried (request.go:99-101, 140-142, 153-159).
AnsweredOnce ==
  \A j \in Jobs : Len(callback[j]) = IF job[j].at = "done" THEN 1 ELSE 0

\* Unless the process dies every job ends: no goroutine waits for ever on
\* gWait or errChan (job.go:106, 143, 163-169).
EveryJobEnds ==
  \A j \in Jobs : <>(crashed \/ job[j].at \in {"done", "failed", "dropped"})
=============================================================================

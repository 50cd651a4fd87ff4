# Verification of bmw

TLA+ models of *bmw* ("Being Micro Worker"), a Go package that turns a handler
function into an HTTP service with a job queue and a pool of workers, and of
the services built on it. TLC checks the models on small instances; TLAPS
proves the main results for all values of the constants.

All paths below are relative to `src/`.

## The system

A service declares routes (`single.go`, `multiple.go`). Each route has a queue,
a dispatcher with its workers, and a handler; the routes share one HTTP API and
nothing else, so a route is modelled by itself.

| Component | State | Operations | Interacts by |
|---|---|---|---|
| HTTP API, `api.go` | a `sync.Pool` of `RetryJob` structs | one handler per request: fill a struct, marshal, put back, push, answer | `Pusher.Push` |
| GoChannel, `queue/go_chan.go` | a buffered channel of bytes | `Push` (five seconds at most), `Wait` | called by API and dispatcher |
| Dispatcher, `dispatcher.go` | the `WorkerPool`, a channel of the workers' `JobChannel`s | wait for a job, take a `JobChannel`, send the job on it | channels |
| Workers, `worker.go` | `JobChannel`, `quit`, a rate limiter | register, receive, `Limit`, handle, retry, quit | channels; a goroutine per job when asynchronous |
| Rate limiter, `lib/rate_limiter.go` | an atomic counter, an unbuffered channel | `Limit`, a ticker goroutine that resets the counter | atomics and the channel |
| Relation worker, `worker/relation` | users with accounts and contacts, the list of users of each app, a Bolt database, a channel of reverse checks | bind, unbind, reverse check, restore at a start | shared maps and slices under several locks |
| Resource worker, `worker/resource` | a tree of `jobNode`s per item, remote buckets, a MySQL table | download, derive, upload in parallel, store, call back | goroutines, a `WaitGroup`, an error channel |
| Recorder worker, `worker/recorder` | a map of topics to open files | start, stop, message received, periodic upload | HTTP handlers, MQTT callbacks, one goroutine per topic |
| Etcd publisher, `publisher` | an index, a quit channel, a key with a time to live | register, unregister, heartbeat | etcd |
| Cover and rsync workers, `worker/cover`, `worker/rsync` | temporary files; objects in a bucket | download, convert, upload, call back | external programs, S3, HTTP through `lib/http.go` |
| Beanstalk queue, `queue/beanstalk.go` | two connections | `Wait`, `Push` | a server |
| Sign-up, push, image, geo and MQTT workers | little or none | one handler each | external programs and services |

What is hard, and what correct means:

- **Rate limiter.** Ticker goroutine and caller race on the counter and on the
  channel. A call must be let through at about the configured rate, and a
  caller over the limit must be released.
- **Pipeline.** The dispatcher and any number of retrying goroutines compete
  for the workers' channels. A channel must have one holder, a send must find a
  receiver, a job must be neither lost nor doubled, handled at most `MaxRetry`
  times, and end.
- **API.** Structs are shared by concurrent requests. A job must carry its own
  client's id and body, and the answer must be true.
- **Relation.** Reads, searches and writes are separate critical sections, and a
  store that fails is only logged. The database must end up with what is in
  memory, the list of users must be exact, links must be true and mutual.
- **Resource.** Uploads run in parallel, any of them may fail, and the whole
  job is retried. What is reported must be true and complete, and reported once.
- **Recorder.** HTTP handlers, the MQTT callback and one goroutine per start use
  a map without a lock, and uploads of one file overlap. A file may only be
  removed when all of it was sent, and what was written must get to the bucket.
- **Publisher.** etcd answers late, out of order or never, refuses the refresh
  that `Heartbeat` sends, and the process may die. Those who look the service up
  must find it while it is in, and not after it left.
- **Cover and rsync.** Any of a handler's many steps may fail, and nobody tries
  again. The callback must be complete and true, no broken file may be
  published, and temporary files must go.

`PROJECT.json` lists the hazards one by one with their lines.

## Modules

| Module | Models | Correspondence |
|---|---|---|
| `RateLimiter` | `lib/rate_limiter.go` | one action per atomic operation, plain read and channel operation; `caller` and `ticker` are program counters |
| `JobService` | what the pipeline promises | abstract: a status and a number of attempts per job |
| `Dispatch` | one route: `Push`, dispatcher, workers, retries, `Stop` | a `JobChannel` is named by its worker; `handling` is the set of running calls of `handle`; an unbuffered send and its receive are one step |
| `DispatchProperties` | its properties, and the refinement `Service` of `JobService` | |
| `API` | the request handler and its `sync.Pool` | one action per access to the struct |
| `RelationWorker` | bind and unbind requests, the checking goroutine, store and restart | one action per critical section; a slice is a backing array and a length, so writes in place reach every holder of the array |
| `Resource` | `handleRequest`, `handleBatchRequest`, the trees, the uploads | the tree is walked in preorder; one action per step of `doJob`, per bucket the range loop visits and per end of an upload; a row of the table also has, as history, the item it is of |
| `Recorder` | one topic of `worker/recorder` | one action per access to the map, per call of the broker, per end of an upload; a file is its number of messages; writing a message and setting `UpdateAt` are two steps; an object holds what the upload that ended last has sent; time is what `syncFile` sees of it |
| `ServiceListing` | what publishing promises | abstract: whether the service is in, and whether a lookup finds it |
| `Publisher` | `publisher/etcd.go`, `service.go`, and the etcd they talk to | `net` holds the requests on their way: `set` is a first `Register`, `swap` one with a `PrevIndex`; an index is `current` or not; time passes in halves of the TTL |
| `HTTP` | `HTTPGetFile` and `HTTPPost` of `lib/http.go`, and an upload | the sets of what a call may end with |
| `Cover`, `Rsync` | the two handlers | one action per step; a file or an object is whole, empty, `short` (it arrived cut off), `missed` (it was cut off before its first byte) or `cut` (an upload read half of it) |
| `Media` | both workers on one bucket, and their properties | composes `Cover` and `Rsync`, which share `bucket`, with another program that puts files there |
| `RateLimiterProofs`, `DispatchProofs`, `APIProofs`, `PublisherProofs`, `MediaProofs`, `RecorderProofs`, `ResourceProofs`, `RelationProofs` | theorems about the module of that name | |
| `MC*` | instances for TLC | |

`Dispatch` sees the rate limiter from outside: a worker inside `Limit` returns
at some later step. `RateLimiter` says when it does. `Resource` sees the
pipeline from outside: a job that asks for a retry is handled again at some
later step, which is what `JobService` promises. `Cover` and `Rsync` need less
of it: their handlers never ask for a retry, so each job is handled once.

`unsaved`, in `RelationWorker`, is the history of stores that failed: the users
whose last store did.

Two refinements are stated with `INSTANCE ... WITH`. `DispatchProperties!Service`
maps a job's place and outcome to a status of `JobService`. `Publisher!Listing`
maps the key's time to live to `listed`; `standing` is a history variable of
`Publisher` that steps when `Register` returns, when the key is deleted and when
the process dies or starts.

Operators whose comment calls them mutants are not part of any specification: each is a plausible
mistake in the definition below it, and replacing the definition by it must
make TLC find the property violated that `PROJECT.json` names.

## Runs

| Run | Shows | Bounds and why they are enough |
|---|---|---|
| `limiter` | how far counter and granted calls exceed the limit, who is released, that a lost wake-up is permanent, that the counter is always cleared | limit 10, the smallest a worker can have; one caller, because each worker has a limiter of its own |
| `limiter_returns` | **violated**: a call of `Limit` may never return | limit 3, the value of the test |
| `dispatch` | one holder per channel, each job in one place, with a worker that may be stopped and a synchronous one | 3 jobs, 3 workers, 2 retries, a queue of 2: dispatcher and two retries compete for a pool of three, and the queue fills |
| `dispatch_live` | refinement of `JobService`, sends never block, jobs end, workers come back | 2 jobs, `MaxRetry` 3 as in the code, a queue of 1; two synchronous workers, which retry inside their loop, and an asynchronous one. One worker more than jobs: with as many, all synchronous workers may wait for each other |
| `api` | jobs are not mixed up, answers are true | 3 requests, 2 structs: structs are reused and handlers wait for one |
| `relation` | what is in memory is stored in the end, but for users whose last store failed; links are true, in every interleaving of two binds, an unbind and the checks | two users that know each other, one of which has a contact without an account too; stores of both may fail (`MaxUnsaved` 2) |
| `relation_serial` | exact lists, no double contacts, mutual links where no third user had the account, with a restart at any point | six requests of three users in any order: shared accounts, changed accounts, users that come back, a contact without an account; one user at a time may have a store that failed (`MaxUnsaved` 1) |
| `relation_race` | **violated**: a user that is bound is listed | two strangers that bind at once |
| `resource` | claims true of their own items and whole, the last pair true as it reads, uploads end with their attempt, one callback, every job ends | two batches that meet in one object, every outcome of commands and uploads, 2 retries; trees of depth 3; unknown type and unknown bucket |
| `recorder` | a file is removed only when it was sent, the last upload is whole, nothing but a slow periodic upload leaves less in the bucket, no recording is forgotten while requests do not overlap, what is written and dated gets to the bucket | two starts and an end of one topic, a message, a periodic upload beside the last: each pair of the racing parties meets, an end meets the start that follows, and one message is enough to be lost |
| `publisher` | refinement of `ServiceListing`, a dead process vanishes from the registry, `Heartbeat` ends without a panic once `Unregister` has returned between two ticks | all of it: the model is finite without bounds |
| `media` | answers are complete and true, no part of a file that arrived cut off is published, no temporary file is left behind where the code means to remove it | two cover jobs and an rsync job of at most two resources, one key, and another program that may bring in the file while it is not there: jobs overwrite each other's objects, an object comes into being between check and upload; every step may fail |

Deadlock checking is off where the system may stop: when all requests have been
made and handled, or when a worker was stopped. It is on for the limiter, whose
ticker never ends, and for the publisher, whose process can always start again.

### What the violations show

- *A call of `Limit` may never return.* The ticker goroutine receives from
  `lockCh` only when it reads a counter over the limit. When it resets the
  counter between the test (line 46) and the send (line 48), or by line 35
  before the caller parks, the caller parks under a small counter. It is the only
  one that could count further, so it is never released: `StuckForGood`,
  proved as `LostWakeupIsPermanent`. Its worker takes no more jobs.
- *Two users that bind at once can leave one of them out of the app's list*, for
  good: later contacts are then not linked to that user.

### What a reader should know besides

These are things the code does, which the models do as well and the properties
do not deny.

- *No heartbeat is ever applied.* `Heartbeat` sends the service's value with
  `Refresh: true` (`etcd.go:95-98, 105`). etcd takes a refresh without a value
  only and answers with an error; the answer is then nil and line 109 panics, at
  the first tick, half a TTL after `Register`. The comments of lines 56 ("keep it,
  refresh it") and 91 ("refresh TTL every {ttl} seconds until the service is
  Unregistered") say otherwise. `ImplementsListing` therefore says that the
  process dies before its key lapses, not that the key is kept.
- *A store that fails is lost in a restart.* `storeUser` logs the error and goes
  on (`storage.go:66-76`). `StoredWhenQuiet` leaves such users out.
- *Contacts without an account are linked.* A contact with an empty `tp_id` is
  accepted, `getTpID` gives an empty account for a listed user that has none
  (`relation.go:119`), and line 254 links the two. `LinksWereTrue` speaks of
  contacts that have an account.
- *Contacts are lost and wiped.* A bind and a reverse check that overlap write
  back what they read before, and `checkFriend` empties the contacts of a user
  that unbound meanwhile (`relation.go:285-304`). No property says otherwise.
- *A batch's callback names the last request in every entry*
  (`request.go:149`). `ClaimsAreTrue` says what a client can rely on: results are
  in the order of the items, and the pair in the last entry is right.
- *Two equal periods.* The ticker of `syncFile` and the age it asks for are both
  five minutes (`recorder/main.go:80, 88`): a tick a little late uploads nothing
  of the last message, and nothing later does unless there is another message
  or an end.
- *`UpdateAt` is set after the message was written* (`main.go:51, 58`): an idle end
  between the two removes the file with the message.
- *A periodic upload that is slow overwrites the last one* (`main.go:91`).
  `LastUploadIsWhole` says that nothing else can.
- *A file cut off before its first byte is published as an empty one*, with status
  1, when it has no Content-Length (`http.go:137-142`, `rsync/main.go:119`).

## Fairness

- `RateLimiter`: weak fairness of the two goroutines and of the ticker. Calling
  `Limit` again is the worker's choice and is not assumed.
- `Dispatch`: weak fairness of each goroutine: a Go channel serves its waiting
  senders and receivers, and the scheduler runs every goroutine that can go on.
  The timer of `Push` fires. Handlers return, and so does `Limit`. The last is an
  assumption the limiter does not always meet (above); it does while a worker
  has had no more than `minConcurrency` (10) jobs since the last reset, and in
  the live runs a worker gets at most 6 (2 jobs, 3 attempts each).
- `Resource`: weak fairness of handlers and uploads: commands and uploads end.
- `Recorder`: weak fairness of the handlers, of the topic's sync goroutines taken
  together, of the uploads and of the callback: calls of S3 and of the broker end. Nothing makes
  messages or requests come. `TimePasses` is not fair: an open recording that
  receives messages for ever is never idle.
- `Publisher`: time passes, the goroutine that calls `Register` and `Heartbeat`
  runs, and no call waits for ever: its client has a timeout. Requests need not
  arrive, and the service need not be registered again.
- `RelationWorker` and `Media` state safety only: what `Cover` and `Rsync` run
  ends because their handlers have no loop but over a list.

## Proofs

| Theorem | Says | Argument |
|---|---|---|
| `RateLimiterProofs!TypeCorrect` | types | inductive by itself |
| `RateIsBounded`, `CountIsBounded` | at most `limit + 2` calls between resets, a counter of at most `limit + 3` | an invariant that relates the counter, the granted calls and both program counters: calls granted are counted, except one counted before a reset and one released; the caller can get past the test once, and be released once, between two resets |
| `LostWakeupIsPermanent` | a caller parked under a small counter stays parked | each action: the parked caller cannot count, and the select is reached only from a counter over the limit |
| `DispatchProofs!TypeCorrect` | types; a retry count stays within `MaxRetry` | inductive: a job is retried only when its count is below `MaxRetry` |
| `OneHolderAlways` | each `JobChannel` has one holder exactly while its worker listens or has stopped | `HolderInv`: types, `OneHolder`, and that a synchronous worker that has received a job is inside one call of `handle`. Without the last a call could end and register a worker that is already listening |
| `SendsNeverBlock` | with no stopped worker a send finds its receiver | from `OneHolder`: a channel held has a worker that is in its select or stopped |
| `RegisterNeverBlocks` | the pool has room for a worker that registers | from `OneHolder`: the pool holds distinct channels and not that worker's own, so fewer than all |
| `JobInOnePlaceAlways` | a live job is in one place, with its own retry count; any other is nowhere | `PlaceInv` beside `HolderInv`: every copy of a job, in queue, dispatcher, `Limit` or call, is of a live job and carries its count; there is one copy of each kind, and of one kind only; a live job has one. Without `HolderInv` a send could put a job on a worker that has one |
| `PipelineImplementsService` | `Dispatch` implements `JobService` | each action is a step of `JobService` or a stutter: only the last call of `handle` may end a job, and `PlaceInv` says that it is the only one and knows the count |
| `PublisherProofs!TypeCorrect`, `Invariance` | types, and `IInv` | `IInv`: where the process is tells its standing; a service that is in has its whole TTL when `Register` returns and half of it at a tick, and one that left has no key; a `set` on its way is alone there, at most one `swap` is awaited, only a goroutine that is there awaits an answer, and while `Register` has not returned nobody asks with the index of the current key. Without the last parts a `set` or a `swap` that is late could bring a removed key back |
| `Implements` | `Publisher` implements `ServiceListing` | each action of `Publisher` is a step of `ServiceListing` or a stutter, under `IInv` |
| `APIProofs!JobIsOwnAlways`, `AnswersAreTrue` | jobs and answers | structs held by handlers are distinct and outside the pool; what a handler has written stays until it puts the struct back |
| `MediaProofs!TypeCorrect`, `AnswersAreAlwaysTrue`, `ObjectsAreNeverShort`, `NothingIsLeftBehind` | the four invariants of `Media` | `IInv`: what a cover job's result and files are at each step, and that an rsync job's statuses so far are true and its other files are to be removed, and that no object is `short`. A step is shown to keep this for its own job and to take no object out of the bucket and put no short one in (`BucketGrows`), which is all the other jobs rely on (`CoverFrame`, `RsyncFrame`). Without what it says of files a picture could be made of a short one |
| `RecorderProofs!TypeCorrect`, `StoppedIsAlwaysDelivered`, `LastUploadIsAlwaysWhole` | the invariants about uploads | `DeliveryInv`: who holds a `Recorder` holds one with a file; nothing is sent that was not written; an upload that is the last began when the file was closed, so it sends all of it, only the last removes the file, and an object that it left holds all of it |
| `OpenIsAlwaysKnown` | no recording is forgotten while requests do not overlap | `KnownInv`: as long as nothing overlapped, one handler or one idle end is busy at most, it knows what the map holds, and an open file is in the map or about to be put there |
| `ResourceProofs!TypeCorrect`, `UploadsAlwaysEndFirst`, `AnsweredAtMostOnce`, `ClaimsAreAlwaysTrue`, `ClaimsAreAlwaysWhole` | the five invariants of `Resource` | `IInv`, for each job: how far it is in its list and its tree (`BatchOK`, `TreeOK`), which uploads run and that they stand for the node it is at, that what its result maps and its results so far claim is in the buckets, and whole where a node is done, that each row is of an item of its key, and that the entries of a callback have the last item as their request. A step keeps this for its own job and takes no object out of a bucket, which is all that others rely on |
| `RelationProofs!TypeCorrect` | types; a slice lies within its array | `TypeInv`: also the local variables at each label, and that a list once found never goes missing while the process lives. What the loop of `removeUID` does to an array is by induction on its length, through the least counterexample |
| `StoredAlwaysWhenQuiet` | the database ends up with what is in memory, but for users whose last store failed | `StoreInv`: a user that differs from its stored copy has a thread at work that will store it, or its last store failed |
| `LinksAlwaysWereTrue` | links of contacts that have an account were true, and none is to oneself | `LinkInv`: every copy of a contact, in memory, in the database and in each thread's local variables, is linked to a user that is not the owner and had its account if it has one; every reverse check, waiting or running, is of one user with another. Threads may write old copies over new ones: the history never shrinks |
| `ListedAlwaysWhenQuiet` | under `Serial`: a user with an account is in the list once | `OneAtWork`: of the requests one is at work at most, and while there are reverse checks it has done all but send and store, and none of them is of its own user. `ListInv`: the slice that request holds is the list, what it found there is still so, and each element is there once. That `remove` takes out just its user is by induction on the rounds of its loop (`RemoveLoopOnce`) |
| `ContactsNeverDouble` | under `Serial` and `ContactsDiffer`: no two contacts with one account | `ContactInv`: the accounts to merge are of the part of the request that was compared, and none of them is among the contacts as they are now, which the checks do not add to; copies in the database and in the checking goroutine have no doubles either |
| `MutualContactsAlwaysLinked` | under `Serial`: mutual contacts are linked in the end | `MutualInv`: for each two users the links of the one to the other are as they should be, or a scan of either, a check to be sent, one that waits or one that runs is going to see to it (`Pending`). Each step keeps the links or hands the duty on: the scan finds its matches by `ListInv`, and their sole owner by `LinkInv`; a check reads contacts and account that stay as they are until it writes (`CheckInv`); a restart while nothing goes on reads what was in memory, by `StoreInv` and `KnownUsers` |

Assumptions are those named in the modules: the limit is positive, there are
finitely many workers, the queue has a place, the length of a list of resources
has a bound, there are finitely many users, a batch is a sequence that is not
empty (an empty one would only post an empty callback), and values that stand
for absence are none of those that are there. Jobs, workers, requests,
structs, keys, users and accounts are arbitrary sets otherwise. Two more are
hypotheses of the theorems that need them, as they restrict the requests:
`Serial`, which the run `relation_serial` sets and without which `relation_race`
refutes `ListedWhenQuiet`; and `ContactsDiffer`, that no request names an account
twice, as the code compares the contacts of a request with those in memory but not
with each other. `Publisher` has no constants; what it
assumes of time is in its header.

Only model-checked: the liveness properties (leads-to under fairness is out of
the prover's reach, as is ENABLED). Every invariant, action property and refinement that a
passing run checks is stated by a theorem as well.

What the theorems do not need and the runs bound: `MaxUnsaved` and `MaxRestarts`
are arbitrary in the proofs, and so are `MaxMessages`, `MaxUploads` and
`MaxRetry`.

## What is left out

- Sizes that do not matter to control: the least buffer of 1000, the capacity
  of ten of a list of users, the thousand places of the channel of checks.
- What the Go runtime may do about an unsynchronised map is a crash in
  `Resource`; in `RelationWorker` such a read yields the entry that is there.
- `storeUser` goes on after a `json.Marshal` that failed and would write an empty
  value; marshalling a `User`, which is made of strings and maps of them, does not
  fail.
- In `Recorder`, two recordings that name one object, and an error of reading a
  local file: `uploadFile` ignores it, as in
  `Cover` and `Rsync`, where it is modelled as a `cut` object.
- Objects are never deleted from the bucket: no worker does so.

## Not modelled

- *Beanstalk queue*, *NSQ queue*: neither `NewSingleBMW` nor `NewMultiBMW`
  constructs them, so nothing says what they would be composed with. Of
  Beanstalk a reader should know that a connection made after an `EOF` does not
  watch the tube, that `Wait` then answers nil, which becomes an empty job, and
  that a job is deleted before it is handled.
- *Sign-up*: a goroutine per job that sleeps and posts; goroutines share nothing.
  A job with one item panics at its first tick (`auto_msg.go:96`).
- *Push*, *image*, *geo*: handlers without state around one external call.
- *MQTT worker*: does not compile with the sources beside it.
- *Assembly*, *shared API package*: construction and HTTP plumbing.
- *Library*, but for `lib/http.go` and the rate limiter: wrappers, helpers and
  generated code; no worker uses the spin lock or the sleeping limiter.
- *Parts of modelled components*: the gin engine and bodies that break off (API),
  the reload on SIGHUP and the reading handlers (relation), the key query and
  the clean-up of files that only a test calls (resource).

## Plan

1. Done: `RateLimiter`, `JobService`, `Dispatch`, `API`, `RelationWorker`,
   `Resource`; then `Recorder`, `ServiceListing`, `Publisher`, `HTTP`, `Cover`,
   `Rsync`, `Media`; and the proofs above.
2. Done: proofs of every safety property and refinement that the passing runs
   check.
3. The reload of the relation worker, with handlers that hold replaced users.

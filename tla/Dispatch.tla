------------------------------ MODULE Dispatch ------------------------------
(***************************************************************************)
(* One route of a MultiBMW: the API pushes jobs into a GoChannel, the      *)
(* dispatcher goroutine hands each to a worker whose JobChannel it takes   *)
(* from the WorkerPool, and the worker runs the handler, in a goroutine of *)
(* its own when async.  A job whose handler asks for a retry is handed on  *)
(* by the goroutine that ran it, which competes with the dispatcher for    *)
(* the WorkerPool (api.go, queue/go_chan.go, dispatcher.go, worker.go).    *)
(*                                                                         *)
(* A JobChannel is named by its worker.  It is unbuffered: a send on it    *)
(* and the worker's receive are one step.  The rate limiter is RateLimiter *)
(* seen from outside: a worker inside Limit returns at some later step.    *)
(***************************************************************************)
EXTENDS Naturals, Sequences, FiniteSets

CONSTANTS
  Jobs,       \* the requests clients make, one job each
  Workers,    \* the MaxWorkers workers Run starts
  MaxRetry,   \* worker.go:15
  buf,        \* the capacity of the GoChannel's jobQueue
  SyncWorkers, \* the workers made with async = false; Run makes none: {}
  Stoppable   \* the workers on which Stop is called; Run keeps no worker: {}

ASSUME DispatchAssumption ==
  /\ IsFiniteSet(Workers)
  /\ MaxRetry \in Nat
  /\ buf \in Nat \ {0}
  /\ SyncWorkers \subseteq Workers
  /\ Stoppable \subseteq Workers

VARIABLES
  request,       \* per job: where the API handler's Push is
  jobQueue,      \* GoChannel.jobQueue
  dispatcher,    \* where the dispatcher goroutine is, and what it holds
  WorkerPool,    \* the channel of JobChannels, in FIFO order
  worker,        \* per worker: where its loop is
  handling,      \* the running calls of handle
  quit,          \* the workers with a Stop signal waiting to be received
  attempts,      \* history: per job, calls of Handler.Handle
  outcome        \* history: per job, how its last call of handle ended

api == <<request, jobQueue>>
pool == <<dispatcher, WorkerPool, worker, handling, quit>>
history == <<attempts, outcome>>
vars == <<api, pool, history>>

\* A RetryJob without its payload. Its Retry, a uint8, stays within MaxRetry.
RetryJob == [id : Jobs, retry : 0 .. MaxRetry]

\* The dispatcher waits for a job, takes a JobChannel for it, sends on it.
DispatcherState ==
  [at : {"wait"}] \cup [at : {"take"}, job : RetryJob]
    \cup [at : {"send"}, job : RetryJob, jobChannel : Workers]

\* "register" sends the worker's JobChannel to the WorkerPool, "select" waits
\* for a job or a quit signal, "limit" is inside Limit, "busy" is a synchronous
\* worker inside handle.
WorkerState ==
  [at : {"register", "select", "busy", "stopped"}] \cup [at : {"limit"}, job : RetryJob]

\* A call of handle by worker w: before the test of job.Retry, and, when the
\* handler asked for a retry, before taking a JobChannel and before sending.
Handling ==
  [at : {"run", "take"}, job : RetryJob, w : Workers]
    \cup [at : {"send"}, job : RetryJob, w : Workers, jobChannel : Workers]

TypeOK ==
  /\ request \in [Jobs -> {"new", "pushing", "accepted", "refused"}]
  /\ jobQueue \in Seq(RetryJob)
  /\ dispatcher \in DispatcherState
  /\ WorkerPool \in Seq(Workers)
  /\ worker \in [Workers -> WorkerState]
  /\ handling \subseteq Handling
  /\ quit \subseteq Stoppable
  /\ attempts \in [Jobs -> Nat]
  /\ outcome \in [Jobs -> {"none", "done", "failed", "dropped"}]

Init ==
  /\ request = [j \in Jobs |-> "new"]
  /\ jobQueue = <<>>
  /\ dispatcher = [at |-> "wait"]
  /\ WorkerPool = <<>>
  /\ worker = [w \in Workers |-> [at |-> "register"]]
  /\ handling = {}
  /\ quit = {}
  /\ attempts = [j \in Jobs |-> 0]
  /\ outcome = [j \in Jobs |-> "none"]

-----------------------------------------------------------------------------
(* The API handler (api.go:55-84) and GoChannel.Push (go_chan.go:23-35). *)

Request(j) ==
  /\ request[j] = "new"
  /\ request' = [request EXCEPT ![j] = "pushing"]
  /\ UNCHANGED <<jobQueue, pool, history>>

Push(j) ==
  /\ request[j] = "pushing"
  /\ Len(jobQueue) < buf
  /\ jobQueue' = Append(jobQueue, [id |-> j, retry |-> 0])
  /\ request' = [request EXCEPT ![j] = "accepted"]
  /\ UNCHANGED <<pool, history>>

\* Mutant of PushTimeout: the payload is in the queue although Push gave up.
PushTimeoutAfterSend(j) ==
  /\ request[j] = "pushing"
  /\ Len(jobQueue) < buf
  /\ jobQueue' = Append(jobQueue, [id |-> j, retry |-> 0])
  /\ request' = [request EXCEPT ![j] = "refused"]
  /\ UNCHANGED <<pool, history>>

\* The five seconds are up. select may take this branch even when the queue has
\* room again at that moment.
PushTimeout(j) ==
  /\ request[j] = "pushing"
  /\ request' = [request EXCEPT ![j] = "refused"]
  /\ UNCHANGED <<jobQueue, pool, history>>

-----------------------------------------------------------------------------
(* The dispatcher goroutine (dispatcher.go:64-82). *)

Wait ==
  /\ dispatcher.at = "wait"
  /\ jobQueue # <<>>
  /\ dispatcher' = [at |-> "take", job |-> Head(jobQueue)]
  /\ jobQueue' = Tail(jobQueue)
  /\ UNCHANGED <<request, WorkerPool, worker, handling, quit, history>>

TakeJobChannel ==
  /\ dispatcher.at = "take"
  /\ WorkerPool # <<>>
  /\ dispatcher' = [at |-> "send", job |-> dispatcher.job, jobChannel |-> Head(WorkerPool)]
  /\ WorkerPool' = Tail(WorkerPool)
  /\ UNCHANGED <<api, worker, handling, quit, history>>

-----------------------------------------------------------------------------
(* A worker's loop (worker.go:55-79). *)

Register(w) ==
  /\ worker[w].at = "register"
  /\ Len(WorkerPool) < Cardinality(Workers)
  /\ WorkerPool' = Append(WorkerPool, w)
  /\ worker' = [worker EXCEPT ![w] = [at |-> "select"]]
  /\ UNCHANGED <<api, dispatcher, handling, quit, history>>

\* The select of worker w receives a job: an asynchronous worker enters Limit,
\* a synchronous one calls handle itself.
Received(w, job) ==
  [worker EXCEPT ![w] = IF w \in SyncWorkers THEN [at |-> "busy"] ELSE [at |-> "limit", job |-> job]]

Run(w, job) == [at |-> "run", job |-> job, w |-> w]

RunNow(w, job) == IF w \in SyncWorkers THEN {Run(w, job)} ELSE {}

\* The dispatcher's send meets the receive of the worker whose channel it is.
DispatcherSends ==
  /\ dispatcher.at = "send"
  /\ worker[dispatcher.jobChannel].at = "select"
  /\ worker' = Received(dispatcher.jobChannel, dispatcher.job)
  /\ handling' = handling \cup RunNow(dispatcher.jobChannel, dispatcher.job)
  /\ dispatcher' = [at |-> "wait"]
  /\ UNCHANGED <<api, WorkerPool, quit, history>>

\* Mutant of LimitReturns: the worker registers once, before its loop.
LimitReturnsUnregistered(w) ==
  /\ worker[w].at = "limit"
  /\ handling' = handling \cup {Run(w, worker[w].job)}
  /\ worker' = [worker EXCEPT ![w] = [at |-> "select"]]
  /\ UNCHANGED <<api, dispatcher, WorkerPool, quit, history>>

\* Limit returns and the worker starts handle in a new goroutine.
LimitReturns(w) ==
  /\ worker[w].at = "limit"
  /\ handling' = handling \cup {Run(w, worker[w].job)}
  /\ worker' = [worker EXCEPT ![w] = [at |-> "register"]]
  /\ UNCHANGED <<api, dispatcher, WorkerPool, quit, history>>

\* Stop starts a goroutine that sends on quit.
Stop(w) ==
  /\ w \in Stoppable \ quit
  /\ quit' = quit \cup {w}
  /\ UNCHANGED <<api, dispatcher, WorkerPool, worker, handling, history>>

\* The worker's loop ends; its JobChannel stays where it is.
Quit(w) ==
  /\ worker[w].at = "select"
  /\ w \in quit
  /\ quit' = quit \ {w}
  /\ worker' = [worker EXCEPT ![w] = [at |-> "stopped"]]
  /\ UNCHANGED <<api, dispatcher, WorkerPool, handling, history>>

-----------------------------------------------------------------------------
(* handle (worker.go:81-96), in a goroutine or in the worker's loop. *)

\* Mutant of AfterHandle: a synchronous worker does not loop.
AfterHandleEnds(ws, w) == ws

\* The workers once a call of handle by worker w returned; they were ws before.
AfterHandle(ws, w) ==
  IF w \in SyncWorkers THEN [ws EXCEPT ![w] = [at |-> "register"]] ELSE ws

\* The handler succeeds, or fails with an error other than RetryError.
HandleOnce(h) ==
  /\ h.at = "run"
  /\ h.job.retry < MaxRetry
  /\ attempts' = [attempts EXCEPT ![h.job.id] = @ + 1]
  /\ \E result \in {"done", "failed"} : outcome' = [outcome EXCEPT ![h.job.id] = result]
  /\ handling' = handling \ {h}
  /\ worker' = AfterHandle(worker, h.w)
  /\ UNCHANGED <<api, dispatcher, WorkerPool, quit>>

\* Mutant of HandleRetries: one attempt too many.
HandleRetriesOnceMore(h) ==
  /\ h.at = "run"
  /\ h.job.retry <= MaxRetry
  /\ attempts' = [attempts EXCEPT ![h.job.id] = @ + 1]
  /\ handling' = (handling \ {h}) \cup
       {[at |-> "take", job |-> [h.job EXCEPT !.retry = @ + 1], w |-> h.w]}
  /\ UNCHANGED <<api, dispatcher, WorkerPool, worker, quit, outcome>>

\* The handler returns RetryError.
HandleRetries(h) ==
  /\ h.at = "run"
  /\ h.job.retry < MaxRetry
  /\ attempts' = [attempts EXCEPT ![h.job.id] = @ + 1]
  /\ handling' = (handling \ {h}) \cup
       {[at |-> "take", job |-> [h.job EXCEPT !.retry = @ + 1], w |-> h.w]}
  /\ UNCHANGED <<api, dispatcher, WorkerPool, worker, quit, outcome>>

\* The job used up its retries: a warning is logged and the job is gone.
ReachMaxRetry(h) ==
  /\ h.at = "run"
  /\ ~(h.job.retry < MaxRetry)
  /\ outcome' = [outcome EXCEPT ![h.job.id] = "dropped"]
  /\ handling' = handling \ {h}
  /\ worker' = AfterHandle(worker, h.w)
  /\ UNCHANGED <<api, dispatcher, WorkerPool, quit, attempts>>

RetryTakes(h) ==
  /\ h.at = "take"
  /\ WorkerPool # <<>>
  /\ handling' = (handling \ {h}) \cup
       {[at |-> "send", job |-> h.job, w |-> h.w, jobChannel |-> Head(WorkerPool)]}
  /\ WorkerPool' = Tail(WorkerPool)
  /\ UNCHANGED <<api, dispatcher, worker, quit, history>>

\* Mutant of RetrySends: the retrying call puts the JobChannel back itself.
RetrySendsAndPutsBack(h) ==
  /\ h.at = "send"
  /\ worker[h.jobChannel].at = "select"
  /\ worker' = AfterHandle(Received(h.jobChannel, h.job), h.w)
  /\ handling' = (handling \ {h}) \cup RunNow(h.jobChannel, h.job)
  /\ WorkerPool' = Append(WorkerPool, h.jobChannel)
  /\ UNCHANGED <<api, dispatcher, quit, history>>

\* The retry's send meets a worker's receive, and handle returns.
RetrySends(h) ==
  /\ h.at = "send"
  /\ worker[h.jobChannel].at = "select"
  /\ worker' = AfterHandle(Received(h.jobChannel, h.job), h.w)
  /\ handling' = (handling \ {h}) \cup RunNow(h.jobChannel, h.job)
  /\ UNCHANGED <<api, dispatcher, WorkerPool, quit, history>>

-----------------------------------------------------------------------------
Handle(h) ==
  HandleOnce(h) \/ HandleRetries(h) \/ ReachMaxRetry(h) \/ RetryTakes(h) \/ RetrySends(h)

Next ==
  \/ \E j \in Jobs : Request(j) \/ Push(j) \/ PushTimeout(j)
  \/ Wait \/ TakeJobChannel \/ DispatcherSends
  \/ \E w \in Workers : Register(w) \/ LimitReturns(w) \/ Stop(w) \/ Quit(w)
  \/ \E h \in handling : Handle(h)

Spec == Init /\ [][Next]_vars

\* Every goroutine that can go on is scheduled, the push timer fires, handlers
\* return, and so does Limit (see RateLimiter for when it does).
Fairness ==
  /\ \A j \in Jobs : WF_vars(Push(j) \/ PushTimeout(j))
  /\ WF_vars(Wait \/ TakeJobChannel \/ DispatcherSends)
  /\ \A w \in Workers : WF_vars(Register(w) \/ LimitReturns(w)) /\ WF_vars(Quit(w))
  /\ \A j \in Jobs : WF_vars(\E h \in handling : h.job.id = j /\ Handle(h))

FairSpec == Spec /\ Fairness
=============================================================================

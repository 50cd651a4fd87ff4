------------------------- MODULE DispatchProperties -------------------------
(***************************************************************************)
(* What makes the pipeline of Dispatch correct.                            *)
(***************************************************************************)
EXTENDS Dispatch, Functions

\* The JobChannel of worker w is in the pool, in the dispatcher's hands, or in
\* the hands of the retrying call h.
InPool(w) == w \in Range(WorkerPool)
WithDispatcher(w) == dispatcher.at = "send" /\ dispatcher.jobChannel = w
WithRetry(h, w) == h.at = "send" /\ h.jobChannel = w

\* A worker's JobChannel is out of the worker's hands exactly while the worker
\* listens on it (or has stopped doing so), and then in one place only, so two
\* senders never race for one worker (worker.go:59,89, dispatcher.go:76).
OneHolder ==
  /\ IsInjective(WorkerPool)
  /\ \A w \in Workers :
       /\ worker[w].at \in {"select", "stopped"} <=>
            InPool(w) \/ WithDispatcher(w) \/ \E h \in handling : WithRetry(h, w)
       /\ ~(InPool(w) /\ WithDispatcher(w))
       /\ \A h \in handling : WithRetry(h, w) =>
            /\ ~InPool(w) /\ ~WithDispatcher(w)
            /\ \A g \in handling : WithRetry(g, w) => g = h

\* A JobChannel taken from the pool belongs to a worker that is waiting on it:
\* neither the dispatcher nor a retrying call blocks in its send
\* (dispatcher.go:74-79, worker.go:89-90).
SendMeetsReceiver ==
  /\ dispatcher.at = "send" => worker[dispatcher.jobChannel].at = "select"
  /\ \A h \in handling : h.at = "send" => worker[h.jobChannel].at = "select"

\* The pool, of capacity MaxWorkers, always has room for the JobChannel of a
\* worker that registers: line 59 of worker.go never blocks.
RegisterFindsRoom ==
  \A w \in Workers : worker[w].at = "register" => Len(WorkerPool) < Cardinality(Workers)

\* The places a job can be in between its acceptance and its end, each with the
\* retry count the copy there carries.
Places(j) ==
  {<<"queued", i, jobQueue[i].retry>> : i \in {k \in DOMAIN jobQueue : jobQueue[k].id = j}}
    \cup {<<"dispatcher", d.at, d.job.retry>> :
            d \in {e \in {dispatcher} : e.at # "wait" /\ e.job.id = j}}
    \cup {<<"worker", w, worker[w].job.retry>> :
            w \in {v \in Workers : worker[v].at = "limit" /\ worker[v].job.id = j}}
    \cup {<<"handling", h, h.job.retry>> : h \in {g \in handling : g.job.id = j}}

\* An accepted job that has not ended is in exactly one place, with as many
\* retries as the handler was called for it; any other job is nowhere. So no job
\* is lost between two channels, or handled twice at a time.
JobInOnePlace ==
  \A j \in Jobs :
    IF request[j] = "accepted" /\ outcome[j] = "none"
    THEN \E p \in Places(j) : Places(j) = {p} /\ p[3] = attempts[j]
    ELSE Places(j) = {}

\* What JobService calls the status of a job.
jobStatus ==
  [j \in Jobs |-> IF outcome[j] # "none" THEN outcome[j]
                  ELSE IF request[j] = "pushing" THEN "new" ELSE request[j]]

\* The refinement mapping: a job's attempts are the calls of its handler.
Service == INSTANCE JobService WITH status <- jobStatus, attempts <- attempts

\* The pipeline does what JobService promises: at most MaxRetry calls of the
\* handler per job, one end per job (worker.go:84-95).
ImplementsService == Service!Spec

\* Every accepted job is handled, fails for good or is dropped, however the
\* retrying calls and the dispatcher compete for the pool (worker.go:89).
AcceptedJobEnds == Service!Liveness

\* Every worker is back in its select again and again, ready for a job.
WorkersComeBack == \A w \in Workers : []<>(worker[w].at = "select")
=============================================================================

--------------------------- MODULE DispatchProofs ---------------------------
(***************************************************************************)
(* Proofs about Dispatch, for any number of jobs and workers, any queue    *)
(* capacity and retry limit, both modes of a worker, and any set of        *)
(* workers that may be stopped.                                            *)
(***************************************************************************)
EXTENDS DispatchProperties, SequenceTheorems, FiniteSetTheorems, TLAPS

LEMMA TypeInit == Init => TypeOK
<1> SUFFICES ASSUME Init PROVE TypeOK
  OBVIOUS
<1> USE DEF Init
<1>1. dispatcher \in DispatcherState
  BY DEF DispatcherState
<1>2. worker \in [Workers -> WorkerState]
  BY DEF WorkerState
<1> QED
  BY <1>1, <1>2 DEF TypeOK

\* A job whose retry count is below MaxRetry is still a RetryJob once counted up.
LEMMA RetriedJob ==
  ASSUME NEW job \in RetryJob, job.retry < MaxRetry
  PROVE  [job EXCEPT !.retry = @ + 1] \in RetryJob
BY DispatchAssumption DEF DispatchAssumption, RetryJob

\* What a worker's receive makes of the workers and of the calls of handle.
LEMMA ReceivedType ==
  ASSUME TypeOK, NEW w \in Workers, NEW job \in RetryJob
  PROVE  /\ Received(w, job) \in [Workers -> WorkerState]
         /\ RunNow(w, job) \subseteq Handling
<1>1. [at |-> "limit", job |-> job] \in WorkerState /\ [at |-> "busy"] \in WorkerState
  BY DEF WorkerState
<1>2. Received(w, job) \in [Workers -> WorkerState]
  BY <1>1 DEF TypeOK, Received
<1>3. Run(w, job) \in Handling
  BY DEF Run, Handling
<1> QED
  BY <1>2, <1>3 DEF RunNow

LEMMA AfterHandleType ==
  ASSUME NEW ws \in [Workers -> WorkerState], NEW w \in Workers
  PROVE  AfterHandle(ws, w) \in [Workers -> WorkerState]
BY DEF AfterHandle, WorkerState

LEMMA TypeNext == TypeOK /\ [Next]_vars => TypeOK'
<1> SUFFICES ASSUME TypeOK, [Next]_vars PROVE TypeOK'
  OBVIOUS
<1> USE DEF TypeOK, api, pool, history
<1>1. ASSUME NEW j \in Jobs, Request(j) PROVE TypeOK'
  BY <1>1 DEF Request
<1>2. ASSUME NEW j \in Jobs, Push(j) PROVE TypeOK'
  <2>1. [id |-> j, retry |-> 0] \in RetryJob
    BY DispatchAssumption DEF DispatchAssumption, RetryJob
  <2> QED
    BY <1>2, <2>1 DEF Push
<1>3. ASSUME NEW j \in Jobs, PushTimeout(j) PROVE TypeOK'
  BY <1>3 DEF PushTimeout
<1>4. CASE Wait
  <2>1. Head(jobQueue) \in RetryJob /\ Tail(jobQueue) \in Seq(RetryJob)
    BY <1>4 DEF Wait
  <2>2. dispatcher' \in DispatcherState
    BY <1>4, <2>1 DEF Wait, DispatcherState
  <2> QED
    BY <1>4, <2>1, <2>2 DEF Wait
<1>5. CASE TakeJobChannel
  <2>1. Head(WorkerPool) \in Workers /\ Tail(WorkerPool) \in Seq(Workers)
    BY <1>5 DEF TakeJobChannel
  <2>2. dispatcher' \in DispatcherState
    BY <1>5, <2>1 DEF TakeJobChannel, DispatcherState
  <2> QED
    BY <1>5, <2>1, <2>2 DEF TakeJobChannel
<1>6. CASE DispatcherSends
  <2>1. dispatcher.job \in RetryJob /\ dispatcher.jobChannel \in Workers
    BY <1>6 DEF DispatcherSends, DispatcherState
  <2>2. dispatcher' \in DispatcherState
    BY <1>6 DEF DispatcherSends, DispatcherState
  <2> QED
    BY <1>6, <2>1, <2>2, ReceivedType DEF DispatcherSends
<1>7. ASSUME NEW w \in Workers, Register(w) PROVE TypeOK'
  <2>1. [at |-> "select"] \in WorkerState
    BY DEF WorkerState
  <2> QED
    BY <1>7, <2>1 DEF Register
<1>8. ASSUME NEW w \in Workers, LimitReturns(w) PROVE TypeOK'
  <2>1. [at |-> "register"] \in WorkerState
    BY DEF WorkerState
  <2>2. worker[w].job \in RetryJob
    BY <1>8 DEF LimitReturns, WorkerState
  <2>3. Run(w, worker[w].job) \in Handling
    BY <2>2 DEF Run, Handling
  <2> QED
    BY <1>8, <2>1, <2>3 DEF LimitReturns
<1>9. ASSUME NEW w \in Workers, Stop(w) PROVE TypeOK'
  BY <1>9 DEF Stop
<1>10. ASSUME NEW w \in Workers, Quit(w) PROVE TypeOK'
  <2>1. [at |-> "stopped"] \in WorkerState
    BY DEF WorkerState
  <2> QED
    BY <1>10, <2>1 DEF Quit
<1>11. ASSUME NEW h \in handling, Handle(h) PROVE TypeOK'
  <2>1. h.job \in RetryJob /\ h.w \in Workers /\ h.job.id \in Jobs
    BY DEF Handling, RetryJob
  <2>0. AfterHandle(worker, h.w) \in [Workers -> WorkerState]
    BY <2>1, AfterHandleType
  <2>2. CASE HandleOnce(h)
    BY <2>1, <2>0, <2>2 DEF HandleOnce
  <2>3. CASE HandleRetries(h)
    <3>1. [at |-> "take", job |-> [h.job EXCEPT !.retry = @ + 1], w |-> h.w] \in Handling
      BY <2>1, <2>3, RetriedJob DEF HandleRetries, Handling
    <3>2. attempts' \in [Jobs -> Nat]
      BY <2>1, <2>3 DEF HandleRetries
    <3>3. handling' \subseteq Handling
      BY <2>3, <3>1 DEF HandleRetries
    <3> QED
      BY <2>3, <3>2, <3>3 DEF HandleRetries
  <2>4. CASE ReachMaxRetry(h)
    BY <2>1, <2>0, <2>4 DEF ReachMaxRetry
  <2>5. CASE RetryTakes(h)
    <3>1. Head(WorkerPool) \in Workers /\ Tail(WorkerPool) \in Seq(Workers)
      BY <2>5 DEF RetryTakes
    <3>2. [at |-> "send", job |-> h.job, w |-> h.w, jobChannel |-> Head(WorkerPool)] \in Handling
      BY <2>1, <3>1 DEF Handling
    <3> QED
      BY <2>5, <3>1, <3>2 DEF RetryTakes
  <2>6. CASE RetrySends(h)
    <3>1. h.jobChannel \in Workers
      BY <2>6 DEF RetrySends, Handling
    <3>2. Received(h.jobChannel, h.job) \in [Workers -> WorkerState]
      BY <2>1, <3>1, ReceivedType
    <3>3. RunNow(h.jobChannel, h.job) \subseteq Handling
      BY <2>1, <3>1, ReceivedType
    <3> QED
      BY <2>1, <2>6, <3>2, <3>3, AfterHandleType DEF RetrySends
  <2> QED
    BY <1>11, <2>2, <2>3, <2>4, <2>5, <2>6 DEF Handle
<1>12. CASE UNCHANGED vars
  BY <1>12 DEF vars
<1> QED
  BY <1>1, <1>2, <1>3, <1>4, <1>5, <1>6, <1>7, <1>8, <1>9, <1>10, <1>11, <1>12 DEF Next

\* Every variable keeps its type; in particular a job's retry count, a uint8 in
\* the code, never exceeds MaxRetry.
THEOREM TypeCorrect == Spec => []TypeOK
  BY TypeInit, TypeNext, PTL DEF Spec

-----------------------------------------------------------------------------
(* Where a JobChannel is. *)

\* A JobChannel that is not in the pool is added at its end.
LEMMA PoolAppend ==
  ASSUME NEW s \in Seq(Workers), NEW x \in Workers
  PROVE  /\ Range(Append(s, x)) = Range(s) \cup {x}
         /\ IsInjective(s) /\ x \notin Range(s) => IsInjective(Append(s, x))
<1>1. /\ Append(s, x) \in Seq(Workers)
      /\ DOMAIN Append(s, x) = 1 .. Len(s) + 1
      /\ \A i \in 1 .. Len(s) : Append(s, x)[i] = s[i]
      /\ Append(s, x)[Len(s) + 1] = x
      /\ DOMAIN s = 1 .. Len(s) /\ Len(s) \in Nat
  OBVIOUS
<1>2. Range(Append(s, x)) = Range(s) \cup {x}
  BY <1>1 DEF Range
<1>3. IsInjective(s) /\ x \notin Range(s) => IsInjective(Append(s, x))
  BY <1>1 DEF Range, IsInjective
<1> QED
  BY <1>2, <1>3

\* The JobChannel taken from the pool is the only one that leaves it.
LEMMA PoolTail ==
  ASSUME NEW s \in Seq(Workers), s # <<>>, IsInjective(s)
  PROVE  /\ Range(Tail(s)) = Range(s) \ {Head(s)}
         /\ IsInjective(Tail(s))
         /\ Head(s) \in Range(s)
<1>1. /\ Tail(s) \in Seq(Workers)
      /\ DOMAIN Tail(s) = 1 .. Len(s) - 1
      /\ \A i \in 1 .. Len(s) - 1 : Tail(s)[i] = s[i + 1]
      /\ Head(s) = s[1]
      /\ DOMAIN s = 1 .. Len(s) /\ Len(s) \in Nat \ {0}
  OBVIOUS
<1>2. ASSUME NEW y \in Range(s), y # Head(s) PROVE y \in Range(Tail(s))
  <2>1. PICK i \in DOMAIN s : s[i] = y
    BY DEF Range
  <2>2. i - 1 \in 1 .. Len(s) - 1 /\ Tail(s)[i - 1] = y
    BY <1>1, <1>2, <2>1
  <2> QED
    BY <1>1, <2>2 DEF Range
<1>3. ASSUME NEW y \in Range(Tail(s)) PROVE y \in Range(s) /\ y # Head(s)
  <2>1. PICK i \in DOMAIN Tail(s) : Tail(s)[i] = y
    BY DEF Range
  <2>2. i + 1 \in DOMAIN s /\ s[i + 1] = y /\ i + 1 # 1 /\ 1 \in DOMAIN s
    BY <1>1, <2>1
  <2> QED
    BY <1>1, <2>2 DEF Range, IsInjective
<1>4. IsInjective(Tail(s))
  BY <1>1 DEF IsInjective
<1>5. Head(s) \in Range(s)
  BY <1>1 DEF Range
<1> QED
  BY <1>2, <1>3, <1>4, <1>5

\* A synchronous worker waits inside handle for as long as its call runs: the
\* call that ends is the one its loop is in (worker.go:69).
SyncWorkerWaits ==
  /\ \A w \in SyncWorkers : worker[w].at # "limit"
  /\ \A h \in handling : h.w \in SyncWorkers => worker[h.w].at = "busy"
  /\ \A g, h \in handling : g.w = h.w /\ h.w \in SyncWorkers => g = h

HolderInv == TypeOK /\ OneHolder /\ SyncWorkerWaits

LEMMA HolderInit == Init => HolderInv
<1> SUFFICES ASSUME Init PROVE OneHolder /\ SyncWorkerWaits
  BY TypeInit DEF HolderInv
<1>1. WorkerPool = <<>> /\ dispatcher.at = "wait" /\ handling = {}
  BY DEF Init
<1>2. Range(WorkerPool) = {} /\ IsInjective(WorkerPool)
  BY <1>1 DEF Range, IsInjective
<1>3. \A w \in Workers : worker[w].at = "register"
  BY DEF Init
<1>4. \A w \in SyncWorkers : w \in Workers
  BY DispatchAssumption DEF DispatchAssumption
<1>5. SyncWorkerWaits
  BY <1>1, <1>3, <1>4 DEF SyncWorkerWaits
<1> QED
  BY <1>1, <1>2, <1>3, <1>5 DEF OneHolder, InPool, WithDispatcher, WithRetry

\* Every step leaves each JobChannel with one holder: Register puts it in the
\* pool, the two takes move it out, and a send returns it to its worker.
LEMMA HolderNext == HolderInv /\ [Next]_vars => HolderInv'
<1> SUFFICES ASSUME HolderInv, [Next]_vars PROVE OneHolder' /\ SyncWorkerWaits'
  BY TypeNext DEF HolderInv
<1> USE DEF api, pool, history
<1>0. TypeOK /\ OneHolder /\ SyncWorkerWaits /\ TypeOK'
  BY TypeNext DEF HolderInv
<1>a. /\ WorkerPool \in Seq(Workers)
      /\ worker \in [Workers -> WorkerState]
      /\ \A h \in handling : h.w \in Workers
      /\ \A w \in SyncWorkers : w \in Workers
  BY <1>0, DispatchAssumption DEF DispatchAssumption, TypeOK, Handling
<1>1. ASSUME NEW j \in Jobs, Request(j) \/ Push(j) \/ PushTimeout(j)
      PROVE OneHolder' /\ SyncWorkerWaits'
  <2>1. UNCHANGED <<dispatcher, WorkerPool, worker, handling>>
    BY <1>1 DEF Request, Push, PushTimeout
  <2> QED
    BY <1>0, <2>1 DEF OneHolder, InPool, WithDispatcher, WithRetry, SyncWorkerWaits
<1>2. CASE Wait
  <2>1. UNCHANGED <<WorkerPool, worker, handling>> /\ dispatcher.at = "wait" /\ dispatcher'.at = "take"
    BY <1>2 DEF Wait
  <2> QED
    BY <1>0, <2>1 DEF OneHolder, InPool, WithDispatcher, WithRetry, SyncWorkerWaits
<1>3. CASE TakeJobChannel
  <2>1. /\ UNCHANGED <<worker, handling>>
        /\ dispatcher.at = "take" /\ dispatcher'.at = "send"
        /\ dispatcher'.jobChannel = Head(WorkerPool)
    BY <1>3 DEF TakeJobChannel
  <2>2. /\ Range(WorkerPool') = Range(WorkerPool) \ {Head(WorkerPool)}
        /\ IsInjective(WorkerPool')
        /\ Head(WorkerPool) \in Range(WorkerPool)
    BY <1>0, <1>3, <1>a, PoolTail DEF TakeJobChannel, OneHolder
  <2> QED
    BY <1>0, <2>1, <2>2 DEF OneHolder, InPool, WithDispatcher, WithRetry, SyncWorkerWaits
<1>4. CASE DispatcherSends
  <2> DEFINE w0 == dispatcher.jobChannel
  <2>1. w0 \in Workers /\ WithDispatcher(w0) /\ worker[w0].at = "select"
    BY <1>0, <1>4 DEF DispatcherSends, TypeOK, DispatcherState, WithDispatcher
  <2>2. /\ WorkerPool' = WorkerPool /\ dispatcher'.at = "wait"
        /\ \A w \in Workers : w # w0 => worker'[w] = worker[w]
        /\ worker'[w0].at = IF w0 \in SyncWorkers THEN "busy" ELSE "limit"
        /\ handling' = handling \cup RunNow(w0, dispatcher.job)
    BY <1>4, <1>a, <2>1 DEF DispatcherSends, Received
  <2>3. \A h \in RunNow(w0, dispatcher.job) : h.at = "run" /\ h.w = w0 /\ w0 \in SyncWorkers
    BY DEF RunNow, Run
  <2>4. \A w \in Workers : \A h : h \in handling' /\ WithRetry(h, w) <=> h \in handling /\ WithRetry(h, w)
    BY <2>2, <2>3 DEF WithRetry
  <2>5. OneHolder'
    BY <1>0, <2>1, <2>2, <2>4 DEF OneHolder, InPool, WithDispatcher, WithRetry
  <2>6. \A g, h \in RunNow(w0, dispatcher.job) : g = h
    BY DEF RunNow
  <2>7. SyncWorkerWaits'
    BY <1>0, <1>a, <2>1, <2>2, <2>3, <2>6 DEF SyncWorkerWaits
  <2> QED
    BY <2>5, <2>7
<1>5. ASSUME NEW w0 \in Workers, Register(w0) PROVE OneHolder' /\ SyncWorkerWaits'
  <2>1. /\ UNCHANGED <<dispatcher, handling>>
        /\ worker[w0].at = "register" /\ worker'[w0].at = "select"
        /\ \A w \in Workers : w # w0 => worker'[w] = worker[w]
    BY <1>5, <1>a DEF Register
  <2>2. w0 \notin Range(WorkerPool)
    BY <1>0, <2>1 DEF OneHolder, InPool
  <2>3. Range(WorkerPool') = Range(WorkerPool) \cup {w0} /\ IsInjective(WorkerPool')
    BY <1>0, <1>5, <1>a, <2>2, PoolAppend DEF Register, OneHolder
  <2> QED
    BY <1>0, <1>a, <2>1, <2>2, <2>3 DEF OneHolder, InPool, WithDispatcher, WithRetry, SyncWorkerWaits
<1>6. ASSUME NEW w0 \in Workers, LimitReturns(w0) PROVE OneHolder' /\ SyncWorkerWaits'
  <2>1. w0 \notin SyncWorkers
    BY <1>0, <1>6 DEF LimitReturns, SyncWorkerWaits
  <2>2. /\ UNCHANGED <<dispatcher, WorkerPool>>
        /\ worker[w0].at = "limit" /\ worker'[w0].at = "register"
        /\ \A w \in Workers : w # w0 => worker'[w] = worker[w]
        /\ handling' = handling \cup {Run(w0, worker[w0].job)}
    BY <1>6, <1>a DEF LimitReturns
  <2>3. \A w \in Workers : \A h : h \in handling' /\ WithRetry(h, w) <=> h \in handling /\ WithRetry(h, w)
    BY <2>2 DEF WithRetry, Run
  <2>4. OneHolder'
    BY <1>0, <2>2, <2>3 DEF OneHolder, InPool, WithDispatcher, WithRetry
  <2>5. SyncWorkerWaits'
    <3>1. \A h \in handling' : h.w \in SyncWorkers => h \in handling /\ h.w # w0
      BY <2>1, <2>2 DEF Run
    <3> QED
      BY <1>0, <1>a, <2>1, <2>2, <3>1 DEF SyncWorkerWaits
  <2> QED
    BY <2>4, <2>5
<1>7. ASSUME NEW w0 \in Workers, Stop(w0) PROVE OneHolder' /\ SyncWorkerWaits'
  <2>1. UNCHANGED <<dispatcher, WorkerPool, worker, handling>>
    BY <1>7 DEF Stop
  <2> QED
    BY <1>0, <2>1 DEF OneHolder, InPool, WithDispatcher, WithRetry, SyncWorkerWaits
<1>8. ASSUME NEW w0 \in Workers, Quit(w0) PROVE OneHolder' /\ SyncWorkerWaits'
  <2>1. /\ UNCHANGED <<dispatcher, WorkerPool, handling>>
        /\ worker[w0].at = "select" /\ worker'[w0].at = "stopped"
        /\ \A w \in Workers : w # w0 => worker'[w] = worker[w]
    BY <1>8, <1>a DEF Quit
  <2>2. \A w \in Workers : worker'[w].at \in {"select", "stopped"} <=> worker[w].at \in {"select", "stopped"}
    BY <2>1
  <2>3. OneHolder'
    BY <1>0, <2>1, <2>2 DEF OneHolder, InPool, WithDispatcher, WithRetry
  <2>4. SyncWorkerWaits'
    BY <1>0, <1>a, <2>1 DEF SyncWorkerWaits
  <2> QED
    BY <2>3, <2>4
<1>9. ASSUME NEW h \in handling, Handle(h) PROVE OneHolder' /\ SyncWorkerWaits'
  <2>0. h.w \in Workers
    BY <1>a
  <2>1. CASE HandleOnce(h) \/ ReachMaxRetry(h)
    <3>1. /\ UNCHANGED <<dispatcher, WorkerPool>> /\ h.at = "run"
          /\ handling' = handling \ {h}
          /\ worker' = AfterHandle(worker, h.w)
      BY <2>1 DEF HandleOnce, ReachMaxRetry
    <3>2. \A w \in Workers : \A g : g \in handling' /\ WithRetry(g, w) <=> g \in handling /\ WithRetry(g, w)
      BY <3>1 DEF WithRetry
    <3>3. CASE h.w \notin SyncWorkers
      BY <1>0, <3>1, <3>2, <3>3 DEF AfterHandle, OneHolder, InPool, WithDispatcher, WithRetry, SyncWorkerWaits
    <3>4. CASE h.w \in SyncWorkers
      <4>1. /\ worker[h.w].at = "busy" /\ worker'[h.w].at = "register"
            /\ \A w \in Workers : w # h.w => worker'[w] = worker[w]
        BY <1>0, <1>a, <2>0, <3>1, <3>4 DEF AfterHandle, SyncWorkerWaits
      <4>2. OneHolder'
        BY <1>0, <3>1, <3>2, <4>1 DEF OneHolder, InPool, WithDispatcher, WithRetry
      <4>3. SyncWorkerWaits'
        BY <1>0, <1>a, <3>1, <4>1, <3>4 DEF SyncWorkerWaits
      <4> QED
        BY <4>2, <4>3
    <3> QED
      BY <3>3, <3>4
  <2>2. CASE HandleRetries(h)
    <3> DEFINE k == [at |-> "take", job |-> [h.job EXCEPT !.retry = @ + 1], w |-> h.w]
    <3>1. /\ UNCHANGED <<dispatcher, WorkerPool, worker>> /\ h.at = "run"
          /\ handling' = (handling \ {h}) \cup {k}
      BY <2>2 DEF HandleRetries
    <3>2. k.at = "take" /\ k.w = h.w
      OBVIOUS
    <3> HIDE DEF k
    <3>3. \A w \in Workers : \A g : g \in handling' /\ WithRetry(g, w) <=> g \in handling /\ WithRetry(g, w)
      BY <3>1, <3>2 DEF WithRetry
    <3>4. OneHolder'
      BY <1>0, <3>1, <3>3 DEF OneHolder, InPool, WithDispatcher, WithRetry
    <3>5. SyncWorkerWaits'
      BY <1>0, <3>1, <3>2 DEF SyncWorkerWaits
    <3> QED
      BY <3>4, <3>5
  <2>3. CASE RetryTakes(h)
    <3> DEFINE k == [at |-> "send", job |-> h.job, w |-> h.w, jobChannel |-> Head(WorkerPool)]
    <3>1. /\ UNCHANGED <<dispatcher, worker>> /\ h.at = "take"
          /\ handling' = (handling \ {h}) \cup {k}
      BY <2>3 DEF RetryTakes
    <3>2. k.at = "send" /\ k.w = h.w /\ k.jobChannel = Head(WorkerPool)
      OBVIOUS
    <3> HIDE DEF k
    <3>3. /\ Range(WorkerPool') = Range(WorkerPool) \ {Head(WorkerPool)}
          /\ IsInjective(WorkerPool')
          /\ Head(WorkerPool) \in Range(WorkerPool)
      BY <1>0, <2>3, <1>a, PoolTail DEF RetryTakes, OneHolder
    <3>4. \A w \in Workers : \A g :
            g \in handling' /\ WithRetry(g, w) <=>
              (g \in handling /\ WithRetry(g, w)) \/ (g = k /\ w = Head(WorkerPool))
      BY <3>1, <3>2 DEF WithRetry
    <3>5. OneHolder'
      BY <1>0, <3>1, <3>3, <3>4 DEF OneHolder, InPool, WithDispatcher
    <3>6. SyncWorkerWaits'
      BY <1>0, <3>1, <3>2 DEF SyncWorkerWaits
    <3> QED
      BY <3>5, <3>6
  <2>4. CASE RetrySends(h)
    <3> DEFINE w0 == h.jobChannel
    <3>1. w0 \in Workers /\ WithRetry(h, w0) /\ worker[w0].at = "select"
      BY <1>0, <2>4 DEF RetrySends, TypeOK, Handling, WithRetry
    <3>2. /\ UNCHANGED <<dispatcher, WorkerPool>>
          /\ handling' = (handling \ {h}) \cup RunNow(w0, h.job)
          /\ worker' = AfterHandle(Received(w0, h.job), h.w)
      BY <2>4 DEF RetrySends
    <3>3. \A g \in RunNow(w0, h.job) : g.at = "run" /\ g.w = w0 /\ w0 \in SyncWorkers
      BY DEF RunNow, Run
    <3>4. h.w \in SyncWorkers => worker[h.w].at = "busy" /\ h.w # w0
      BY <1>0, <3>1 DEF SyncWorkerWaits
    <3>5. /\ worker'[w0].at = IF w0 \in SyncWorkers THEN "busy" ELSE "limit"
          /\ \A w \in Workers : w # w0 /\ w # h.w => worker'[w] = worker[w]
          /\ h.w \notin SyncWorkers /\ h.w # w0 => worker'[h.w] = worker[h.w]
          /\ h.w \in SyncWorkers => worker'[h.w].at = "register"
      BY <1>a, <2>0, <3>1, <3>2, <3>4 DEF AfterHandle, Received
    <3>6. \A w \in Workers : \A g :
            g \in handling' /\ WithRetry(g, w) <=> g \in handling /\ WithRetry(g, w) /\ g # h
      BY <3>2, <3>3 DEF WithRetry
    <3>7. \A w \in Workers : w # w0 => (worker'[w].at \in {"select", "stopped"} <=> worker[w].at \in {"select", "stopped"})
      BY <2>0, <3>4, <3>5
    <3>8. OneHolder'
      BY <1>0, <3>1, <3>2, <3>5, <3>6, <3>7 DEF OneHolder, InPool, WithDispatcher, WithRetry
    <3>9. \A f, g \in RunNow(w0, h.job) : f = g
      BY DEF RunNow
    <3>10. SyncWorkerWaits'
      BY <1>0, <1>a, <2>0, <3>1, <3>2, <3>3, <3>4, <3>5, <3>9 DEF SyncWorkerWaits
    <3> QED
      BY <3>8, <3>10
  <2> QED
    BY <1>9, <2>1, <2>2, <2>3, <2>4 DEF Handle
<1>10. CASE UNCHANGED vars
  BY <1>0, <1>10 DEF vars, OneHolder, InPool, WithDispatcher, WithRetry, SyncWorkerWaits
<1> QED
  BY <1>1, <1>2, <1>3, <1>4, <1>5, <1>6, <1>7, <1>8, <1>9, <1>10 DEF Next

LEMMA HolderInvariance == Spec => []HolderInv
  BY HolderInit, HolderNext, PTL DEF Spec

\* The JobChannel of every worker has one holder, whoever competes for it.
THEOREM OneHolderAlways == Spec => []OneHolder
<1>1. HolderInv => OneHolder
  BY DEF HolderInv
<1> QED
  BY <1>1, HolderInvariance, PTL

-----------------------------------------------------------------------------
(* Sends and registrations do not block. *)

\* No quit signal is received where Stop is never called.
LEMMA NobodyStops == Stoppable = {} /\ TypeOK => \A w \in Workers : ~Quit(w)
  BY DEF TypeOK, Quit

\* No worker is ever stopped when none is stoppable.
LEMMA NoneStopped ==
  ASSUME Stoppable = {}, TypeOK, \A w \in Workers : worker[w].at # "stopped", [Next]_vars
  PROVE  \A w \in Workers : worker'[w].at # "stopped"
<1> USE DEF api, pool, history
<1>1. worker \in [Workers -> WorkerState]
  BY DEF TypeOK
<1>2. ASSUME NEW w \in Workers, NEW job PROVE \A v \in Workers : Received(w, job)[v].at # "stopped"
  BY <1>1 DEF Received
<1>3. ASSUME NEW ws, ws \in [Workers -> WorkerState] \/ \E v, job : v \in Workers /\ ws = Received(v, job),
             NEW w \in Workers, \A v \in Workers : ws[v].at # "stopped"
      PROVE  \A v \in Workers : AfterHandle(ws, w)[v].at # "stopped"
  BY <1>1, <1>3 DEF AfterHandle, Received
<1>4. CASE \E j \in Jobs : Request(j) \/ Push(j) \/ PushTimeout(j)
  BY <1>4 DEF Request, Push, PushTimeout
<1>5. CASE Wait \/ TakeJobChannel
  BY <1>5 DEF Wait, TakeJobChannel
<1>6. CASE DispatcherSends
  <2>1. dispatcher.jobChannel \in Workers
    BY <1>6 DEF DispatcherSends, TypeOK, DispatcherState
  <2> QED
    BY <1>2, <1>6, <2>1 DEF DispatcherSends
<1>7. CASE \E w \in Workers : Register(w) \/ LimitReturns(w) \/ Stop(w) \/ Quit(w)
  BY <1>1, <1>7, NobodyStops DEF Register, LimitReturns, Stop
<1>8. ASSUME NEW h \in handling, Handle(h) PROVE \A w \in Workers : worker'[w].at # "stopped"
  <2>1. h.w \in Workers /\ (h.at = "send" => h.jobChannel \in Workers)
    BY DEF TypeOK, Handling
  <2>2. CASE HandleOnce(h) \/ ReachMaxRetry(h)
    BY <1>1, <1>3, <2>1, <2>2 DEF HandleOnce, ReachMaxRetry
  <2>3. CASE HandleRetries(h) \/ RetryTakes(h)
    BY <2>3 DEF HandleRetries, RetryTakes
  <2>4. CASE RetrySends(h)
    BY <1>2, <1>3, <2>1, <2>4 DEF RetrySends
  <2> QED
    BY <1>8, <2>2, <2>3, <2>4 DEF Handle
<1>9. CASE UNCHANGED vars
  BY <1>9 DEF vars
<1> QED
  BY <1>4, <1>5, <1>6, <1>7, <1>8, <1>9 DEF Next

\* With no worker stopped, as under Run, a send on a JobChannel taken from the
\* pool meets its receiver: neither line 79 of dispatcher.go nor line 90 of
\* worker.go ever blocks.
THEOREM SendsNeverBlock == Stoppable = {} /\ Spec => []SendMeetsReceiver
<1> SUFFICES ASSUME Stoppable = {} PROVE Spec => []SendMeetsReceiver
  OBVIOUS
<1> DEFINE NS == \A w \in Workers : worker[w].at # "stopped"
<1>1. Init => NS
  BY DEF Init
<1>2. TypeOK /\ NS /\ [Next]_vars => NS'
  BY NoneStopped
<1>3. HolderInv /\ NS => SendMeetsReceiver
  BY DEF HolderInv, TypeOK, DispatcherState, Handling, OneHolder, WithDispatcher, WithRetry, SendMeetsReceiver
<1> HIDE DEF NS
<1> QED
  BY <1>1, <1>2, <1>3, HolderInvariance, TypeCorrect, PTL DEF Spec

\* A worker whose JobChannel is not in the pool finds room for it there.
THEOREM RegisterNeverBlocks == Spec => []RegisterFindsRoom
<1>1. ASSUME HolderInv PROVE RegisterFindsRoom
  <2> SUFFICES ASSUME NEW w \in Workers, worker[w].at = "register"
               PROVE  Len(WorkerPool) < Cardinality(Workers)
    BY DEF RegisterFindsRoom
  <2> DEFINE Others == Workers \ {w}
  <2>1. WorkerPool \in Seq(Workers) /\ IsInjective(WorkerPool) /\ w \notin Range(WorkerPool)
    BY <1>1 DEF HolderInv, TypeOK, OneHolder, InPool
  <2>2. WorkerPool \in Injection(1 .. Len(WorkerPool), Others)
    BY <2>1 DEF Injection, Range
  <2>3. IsFiniteSet(Workers) /\ IsFiniteSet(Others)
    BY DispatchAssumption, FS_RemoveElement DEF DispatchAssumption
  <2>4. Cardinality(Others) = Cardinality(Workers) - 1 /\ Cardinality(Workers) \in Nat
    BY <2>3, FS_RemoveElement, FS_CardinalityType
  <2>5. Cardinality(1 .. Len(WorkerPool)) <= Cardinality(Others)
    BY <2>2, <2>3, FS_Injection
  <2>6. Len(WorkerPool) \in Nat
    BY <2>1
  <2>7. Cardinality(1 .. Len(WorkerPool)) = Len(WorkerPool)
    <3> DEFINE n == Len(WorkerPool)
    <3>1. n \in Int /\ 1 \in Int
      BY <2>6
    <3> HIDE DEF n
    <3>2. Cardinality(1 .. n) = IF 1 > n THEN 0 ELSE n - 1 + 1
      BY <3>1, FS_Interval
    <3> QED
      BY <2>6, <3>2 DEF n
  <2> QED
    BY <2>4, <2>5, <2>6, <2>7
<1> QED
  BY <1>1, HolderInvariance, PTL

-----------------------------------------------------------------------------
(* Where a job is. *)

\* The copy of a job that the queue, the dispatcher, a worker inside Limit or a
\* call of handle holds.
InQueue(j) == \E i \in DOMAIN jobQueue : jobQueue[i].id = j
InDispatcher(j) == dispatcher.at # "wait" /\ dispatcher.job.id = j
InLimit(j) == \E w \in Workers : worker[w].at = "limit" /\ worker[w].job.id = j
InHandle(j) == \E h \in handling : h.job.id = j

\* An accepted job that has not ended; a copy of one that counts its attempts.
Live(j) == request[j] = "accepted" /\ outcome[j] = "none"
IsTrue(job) == Live(job.id) /\ job.retry = attempts[job.id]

CopiesAreTrue ==
  /\ \A i \in DOMAIN jobQueue : IsTrue(jobQueue[i])
  /\ dispatcher.at # "wait" => IsTrue(dispatcher.job)
  /\ \A w \in Workers : worker[w].at = "limit" => IsTrue(worker[w].job)
  /\ \A h \in handling : IsTrue(h.job)

OneCopyOfAKind ==
  /\ \A i, k \in DOMAIN jobQueue : jobQueue[i].id = jobQueue[k].id => i = k
  /\ \A v, w \in Workers :
       worker[v].at = "limit" /\ worker[w].at = "limit" /\ worker[v].job.id = worker[w].job.id => v = w
  /\ \A g, h \in handling : g.job.id = h.job.id => g = h

OneKindOfCopy ==
  \A j \in Jobs :
    /\ InQueue(j) => ~InDispatcher(j) /\ ~InLimit(j) /\ ~InHandle(j)
    /\ InDispatcher(j) => ~InLimit(j) /\ ~InHandle(j)
    /\ InLimit(j) => ~InHandle(j)

LiveIsSomewhere ==
  \A j \in Jobs : Live(j) => InQueue(j) \/ InDispatcher(j) \/ InLimit(j) \/ InHandle(j)

\* Nothing happens to a job before it is accepted.
NothingBefore == \A j \in Jobs : request[j] # "accepted" => attempts[j] = 0 /\ outcome[j] = "none"

PlaceInv ==
  CopiesAreTrue /\ OneCopyOfAKind /\ OneKindOfCopy /\ LiveIsSomewhere /\ NothingBefore

LEMMA PlaceInit == Init => PlaceInv
<1> SUFFICES ASSUME Init PROVE PlaceInv
  OBVIOUS
<1>0. NothingBefore
  BY DEF Init, NothingBefore
<1>1. /\ jobQueue = <<>> /\ dispatcher.at = "wait" /\ handling = {}
      /\ \A w \in Workers : worker[w].at = "register"
      /\ \A j \in Jobs : ~Live(j)
  BY DEF Init, Live
<1>2. DOMAIN jobQueue = {}
  BY <1>1
<1> QED
  BY <1>0, <1>1, <1>2 DEF PlaceInv, CopiesAreTrue, OneCopyOfAKind, OneKindOfCopy, LiveIsSomewhere,
                    InQueue, InDispatcher, InLimit, InHandle

\* A job that is put at the end of the queue.
LEMMA QueueAppend ==
  ASSUME NEW s \in Seq(RetryJob), NEW x \in RetryJob
  PROVE  /\ DOMAIN s = 1 .. Len(s) /\ Len(s) \in Nat
         /\ DOMAIN Append(s, x) = 1 .. Len(s) + 1
         /\ \A i \in 1 .. Len(s) : Append(s, x)[i] = s[i]
         /\ Append(s, x)[Len(s) + 1] = x
OBVIOUS

\* A job that is taken from its front.
LEMMA QueueTail ==
  ASSUME NEW s \in Seq(RetryJob), s # <<>>
  PROVE  /\ DOMAIN s = 1 .. Len(s) /\ Len(s) \in Nat \ {0}
         /\ DOMAIN Tail(s) = 1 .. Len(s) - 1
         /\ \A i \in 1 .. Len(s) - 1 : Tail(s)[i] = s[i + 1]
         /\ Head(s) = s[1]
OBVIOUS

\* The jobs there are: PlaceInv can be read without the types.
LEMMA JobsOfCopies ==
  ASSUME TypeOK
  PROVE  /\ jobQueue \in Seq(RetryJob)
         /\ \A i \in DOMAIN jobQueue : jobQueue[i].id \in Jobs
         /\ dispatcher.at # "wait" => dispatcher.job \in RetryJob /\ dispatcher.job.id \in Jobs
         /\ \A w \in Workers : worker[w].at = "limit" => worker[w].job.id \in Jobs
         /\ \A h \in handling : h.job \in RetryJob /\ h.job.id \in Jobs /\ h.w \in Workers
<1> USE DEF TypeOK
<1>1. ASSUME NEW i \in DOMAIN jobQueue PROVE jobQueue[i].id \in Jobs
  <2>1. i \in 1 .. Len(jobQueue)
    OBVIOUS
  <2>2. jobQueue[i] \in RetryJob
    BY <2>1, ElementOfSeq
  <2> QED
    BY <2>2 DEF RetryJob
<1>2. dispatcher.at # "wait" => dispatcher.job \in RetryJob /\ dispatcher.job.id \in Jobs
  BY DEF DispatcherState, RetryJob
<1>3. \A w \in Workers : worker[w].at = "limit" => worker[w].job.id \in Jobs
  BY DEF WorkerState, RetryJob
<1>4. \A h \in handling : h.job \in RetryJob /\ h.job.id \in Jobs /\ h.w \in Workers
  BY DEF Handling, RetryJob
<1> QED
  BY <1>1, <1>2, <1>3, <1>4


LEMMA PushKeepsPlace ==
  ASSUME TypeOK, PlaceInv, NEW j0 \in Jobs, Push(j0)
  PROVE  PlaceInv'
<1> DEFINE x == [id |-> j0, retry |-> 0]
<1>1. /\ UNCHANGED <<dispatcher, worker, handling, attempts, outcome>>
      /\ request[j0] = "pushing"
      /\ jobQueue' = Append(jobQueue, x)
      /\ \A j \in Jobs : request'[j] = IF j = j0 THEN "accepted" ELSE request[j]
  BY DEF Push, pool, history, TypeOK
<1>2. /\ CopiesAreTrue /\ OneCopyOfAKind /\ OneKindOfCopy /\ LiveIsSomewhere /\ NothingBefore
      /\ attempts[j0] = 0 /\ outcome[j0] = "none"
  BY <1>1 DEF PlaceInv, NothingBefore
<1>3. x \in RetryJob /\ x.id = j0 /\ x.retry = 0
  BY DispatchAssumption DEF DispatchAssumption, RetryJob
<1> HIDE DEF x
<1>4. /\ DOMAIN jobQueue = 1 .. Len(jobQueue) /\ Len(jobQueue) \in Nat
      /\ DOMAIN jobQueue' = 1 .. Len(jobQueue) + 1
      /\ \A i \in 1 .. Len(jobQueue) : jobQueue'[i] = jobQueue[i]
      /\ jobQueue'[Len(jobQueue) + 1] = x
  BY <1>1, <1>3, JobsOfCopies, QueueAppend
<1>5. /\ ~InQueue(j0) /\ ~InDispatcher(j0) /\ ~InLimit(j0) /\ ~InHandle(j0)
  BY <1>1, <1>2 DEF CopiesAreTrue, IsTrue, Live, InQueue, InDispatcher, InLimit, InHandle
<1>6. \A j \in Jobs : /\ InQueue(j)' <=> InQueue(j) \/ j = j0
                      /\ InDispatcher(j)' <=> InDispatcher(j)
                      /\ InLimit(j)' <=> InLimit(j)
                      /\ InHandle(j)' <=> InHandle(j)
  BY <1>1, <1>3, <1>4 DEF InQueue, InDispatcher, InLimit, InHandle
<1>7. \A j \in Jobs : Live(j)' <=> Live(j) \/ j = j0
  BY <1>1, <1>2 DEF Live
<1>8. CopiesAreTrue'
  BY <1>1, <1>2, <1>3, <1>4, <1>7, JobsOfCopies DEF CopiesAreTrue, IsTrue
<1>9. OneCopyOfAKind'
  BY <1>1, <1>2, <1>3, <1>4, <1>5 DEF OneCopyOfAKind, InQueue
<1>10. OneKindOfCopy' /\ LiveIsSomewhere'
  BY <1>2, <1>5, <1>6, <1>7 DEF OneKindOfCopy, LiveIsSomewhere
<1>11. NothingBefore'
  BY <1>1, <1>2 DEF NothingBefore
<1> QED
  BY <1>8, <1>9, <1>10, <1>11 DEF PlaceInv

LEMMA WaitKeepsPlace ==
  ASSUME TypeOK, PlaceInv, Wait
  PROVE  PlaceInv'
<1> DEFINE x == Head(jobQueue)
<1>1. /\ UNCHANGED <<request, worker, handling, attempts, outcome>>
      /\ dispatcher.at = "wait" /\ jobQueue # <<>>
      /\ dispatcher'.at = "take" /\ dispatcher'.job = x
      /\ jobQueue' = Tail(jobQueue)
  BY DEF Wait, history
<1>2. CopiesAreTrue /\ OneCopyOfAKind /\ OneKindOfCopy /\ LiveIsSomewhere /\ NothingBefore
  BY DEF PlaceInv
<1>3. /\ DOMAIN jobQueue = 1 .. Len(jobQueue) /\ Len(jobQueue) \in Nat \ {0}
      /\ DOMAIN jobQueue' = 1 .. Len(jobQueue) - 1
      /\ \A i \in 1 .. Len(jobQueue) - 1 : jobQueue'[i] = jobQueue[i + 1]
      /\ x = jobQueue[1]
  BY <1>1, JobsOfCopies, QueueTail
<1> HIDE DEF x
<1>4. x.id \in Jobs /\ IsTrue(x) /\ InQueue(x.id) /\ 1 \in DOMAIN jobQueue
  BY <1>2, <1>3, JobsOfCopies DEF CopiesAreTrue, InQueue
<1>5. \A j \in Jobs : Live(j)' <=> Live(j)
  BY <1>1 DEF Live
<1>6. ASSUME NEW j \in Jobs PROVE InQueue(j)' <=> InQueue(j) /\ j # x.id
  <2>1. ASSUME NEW i \in DOMAIN jobQueue' PROVE i + 1 \in DOMAIN jobQueue /\ jobQueue'[i] = jobQueue[i + 1] /\ i + 1 # 1
    BY <1>3
  <2>2. ASSUME NEW i \in DOMAIN jobQueue, i # 1 PROVE i - 1 \in DOMAIN jobQueue' /\ jobQueue'[i - 1] = jobQueue[i]
    <3>1. i - 1 \in 1 .. Len(jobQueue) - 1 /\ (i - 1) + 1 = i
      BY <1>3, <2>2
    <3> QED
      BY <1>3, <3>1
  <2>3. ASSUME InQueue(j)' PROVE InQueue(j) /\ j # x.id
    BY <1>2, <1>3, <1>4, <2>1, <2>3 DEF InQueue, OneCopyOfAKind
  <2>4. ASSUME InQueue(j), j # x.id PROVE InQueue(j)'
    BY <1>3, <2>2, <2>4 DEF InQueue
  <2> QED
    BY <2>3, <2>4
<1>7. \A j \in Jobs : /\ ~InDispatcher(j) /\ (InDispatcher(j)' <=> j = x.id)
                      /\ InLimit(j)' <=> InLimit(j)
                      /\ InHandle(j)' <=> InHandle(j)
  BY <1>1 DEF InDispatcher, InLimit, InHandle
<1>8. CopiesAreTrue'
  <2>1. \A i \in DOMAIN jobQueue' : IsTrue(jobQueue'[i])
    BY <1>2, <1>3 DEF CopiesAreTrue
  <2>2. \A job : IsTrue(job) => IsTrue(job)'
    BY <1>1 DEF IsTrue, Live
  <2> QED
    BY <1>1, <1>2, <1>4, <2>1 DEF CopiesAreTrue, IsTrue, Live
<1>9. OneCopyOfAKind'
  BY <1>1, <1>2, <1>3 DEF OneCopyOfAKind
<1>10. OneKindOfCopy' /\ LiveIsSomewhere'
  BY <1>2, <1>4, <1>5, <1>6, <1>7 DEF OneKindOfCopy, LiveIsSomewhere
<1>11. NothingBefore'
  BY <1>1, <1>2 DEF NothingBefore
<1> QED
  BY <1>8, <1>9, <1>10, <1>11 DEF PlaceInv

\* A worker that was not inside Limit receives a job: it is inside Limit with it
\* exactly when it is asynchronous.
LEMMA ReceivedLimits ==
  ASSUME TypeOK, NEW w0 \in Workers, NEW x
  PROVE  /\ \A w \in Workers : w # w0 => Received(w0, x)[w] = worker[w]
         /\ Received(w0, x)[w0].at = IF w0 \in SyncWorkers THEN "busy" ELSE "limit"
         /\ w0 \notin SyncWorkers => Received(w0, x)[w0].job = x
BY DEF TypeOK, Received

\* The end of a call of handle takes no worker out of Limit.
LEMMA AfterHandleLimits ==
  ASSUME NEW ws, NEW w0 \in Workers, DOMAIN ws = Workers,
         w0 \in SyncWorkers => ws[w0].at # "limit"
  PROVE  \A w \in Workers : /\ AfterHandle(ws, w0)[w].at = "limit" <=> ws[w].at = "limit"
                            /\ ws[w].at = "limit" => AfterHandle(ws, w0)[w] = ws[w]
BY DEF AfterHandle

LEMMA TakeKeepsPlace ==
  ASSUME TypeOK, PlaceInv, TakeJobChannel
  PROVE  PlaceInv'
<1>1. /\ UNCHANGED <<jobQueue, request, worker, handling, attempts, outcome>>
      /\ dispatcher.at = "take" /\ dispatcher'.at = "send" /\ dispatcher'.job = dispatcher.job
  BY DEF TakeJobChannel, api, history
<1>2. CopiesAreTrue /\ OneCopyOfAKind /\ OneKindOfCopy /\ LiveIsSomewhere /\ NothingBefore
  BY DEF PlaceInv
<1>3. \A j : /\ InQueue(j)' <=> InQueue(j)
             /\ InDispatcher(j)' <=> InDispatcher(j)
             /\ InLimit(j)' <=> InLimit(j)
             /\ InHandle(j)' <=> InHandle(j)
             /\ Live(j)' <=> Live(j)
  BY <1>1 DEF InQueue, InDispatcher, InLimit, InHandle, Live
<1>4. CopiesAreTrue'
  BY <1>1, <1>2 DEF CopiesAreTrue, IsTrue, Live
<1>5. OneCopyOfAKind'
  BY <1>1, <1>2 DEF OneCopyOfAKind
<1>6. OneKindOfCopy' /\ LiveIsSomewhere'
  BY <1>2, <1>3 DEF OneKindOfCopy, LiveIsSomewhere
<1>7. NothingBefore'
  BY <1>1, <1>2 DEF NothingBefore
<1> QED
  BY <1>4, <1>5, <1>6, <1>7 DEF PlaceInv

LEMMA DispatcherSendsKeepsPlace ==
  ASSUME TypeOK, PlaceInv, DispatcherSends
  PROVE  PlaceInv'
<1> DEFINE x == dispatcher.job
           w0 == dispatcher.jobChannel
           run == Run(w0, x)
<1>1. /\ UNCHANGED <<jobQueue, request, attempts, outcome>>
      /\ dispatcher.at = "send" /\ dispatcher'.at = "wait"
      /\ w0 \in Workers /\ worker[w0].at = "select"
      /\ worker' = Received(w0, x)
      /\ handling' = handling \cup RunNow(w0, x)
  BY DEF DispatcherSends, api, history, TypeOK, DispatcherState
<1>2. CopiesAreTrue /\ OneCopyOfAKind /\ OneKindOfCopy /\ LiveIsSomewhere /\ NothingBefore
  BY DEF PlaceInv
<1>3. /\ x.id \in Jobs /\ IsTrue(x)
      /\ \A j \in Jobs : InDispatcher(j) <=> j = x.id
      /\ ~InQueue(x.id) /\ ~InLimit(x.id) /\ ~InHandle(x.id)
  BY <1>1, <1>2, JobsOfCopies DEF CopiesAreTrue, OneKindOfCopy, InDispatcher
<1>4. run.job = x /\ RunNow(w0, x) = IF w0 \in SyncWorkers THEN {run} ELSE {}
  BY DEF Run, RunNow
<1> HIDE DEF run
<1>5. /\ \A w \in Workers : w # w0 => worker'[w] = worker[w]
      /\ worker'[w0].at = IF w0 \in SyncWorkers THEN "busy" ELSE "limit"
      /\ w0 \notin SyncWorkers => worker'[w0].job = x
  BY <1>1, ReceivedLimits
<1> HIDE DEF x, w0
<1>6. \A j \in Jobs : /\ InQueue(j)' <=> InQueue(j)
                      /\ ~InDispatcher(j)'
                      /\ InLimit(j)' <=> InLimit(j) \/ (j = x.id /\ w0 \notin SyncWorkers)
                      /\ InHandle(j)' <=> InHandle(j) \/ (j = x.id /\ w0 \in SyncWorkers)
                      /\ Live(j)' <=> Live(j)
  BY <1>1, <1>4, <1>5 DEF InQueue, InDispatcher, InLimit, InHandle, Live
<1>7. CopiesAreTrue'
  BY <1>1, <1>2, <1>3, <1>4, <1>5 DEF CopiesAreTrue, IsTrue, Live
<1>8. OneCopyOfAKind'
  BY <1>1, <1>2, <1>3, <1>4, <1>5 DEF OneCopyOfAKind, InLimit, InHandle
<1>9. OneKindOfCopy' /\ LiveIsSomewhere'
  BY <1>2, <1>3, <1>6 DEF OneKindOfCopy, LiveIsSomewhere
<1>10. NothingBefore'
  BY <1>1, <1>2 DEF NothingBefore
<1> QED
  BY <1>7, <1>8, <1>9, <1>10 DEF PlaceInv

LEMMA LimitReturnsKeepsPlace ==
  ASSUME TypeOK, PlaceInv, NEW w0 \in Workers, LimitReturns(w0)
  PROVE  PlaceInv'
<1> DEFINE x == worker[w0].job
           run == Run(w0, x)
<1>1. /\ UNCHANGED <<jobQueue, dispatcher, request, attempts, outcome>>
      /\ worker[w0].at = "limit" /\ worker'[w0].at = "register"
      /\ \A w \in Workers : w # w0 => worker'[w] = worker[w]
      /\ handling' = handling \cup {run}
  BY DEF LimitReturns, api, history, TypeOK
<1>2. CopiesAreTrue /\ OneCopyOfAKind /\ OneKindOfCopy /\ LiveIsSomewhere /\ NothingBefore
  BY DEF PlaceInv
<1>3. /\ x.id \in Jobs /\ IsTrue(x) /\ InLimit(x.id)
      /\ ~InQueue(x.id) /\ ~InDispatcher(x.id) /\ ~InHandle(x.id)
      /\ \A w \in Workers : worker[w].at = "limit" /\ worker[w].job.id = x.id => w = w0
  BY <1>1, <1>2, JobsOfCopies DEF CopiesAreTrue, OneCopyOfAKind, OneKindOfCopy, InLimit
<1>4. run.job = x
  BY DEF Run
<1> HIDE DEF run, x
<1>5. \A j \in Jobs : /\ InQueue(j)' <=> InQueue(j)
                      /\ InDispatcher(j)' <=> InDispatcher(j)
                      /\ InLimit(j)' <=> InLimit(j) /\ j # x.id
                      /\ InHandle(j)' <=> InHandle(j) \/ j = x.id
                      /\ Live(j)' <=> Live(j)
  BY <1>1, <1>3, <1>4 DEF InQueue, InDispatcher, InLimit, InHandle, Live, x
<1>6. CopiesAreTrue'
  BY <1>1, <1>2, <1>3, <1>4 DEF CopiesAreTrue, IsTrue, Live
<1>7. OneCopyOfAKind'
  BY <1>1, <1>2, <1>3, <1>4 DEF OneCopyOfAKind, InHandle
<1>8. OneKindOfCopy' /\ LiveIsSomewhere'
  BY <1>2, <1>3, <1>5 DEF OneKindOfCopy, LiveIsSomewhere
<1>9. NothingBefore'
  BY <1>1, <1>2 DEF NothingBefore
<1> QED
  BY <1>6, <1>7, <1>8, <1>9 DEF PlaceInv

\* The call that ends its job takes the only copy with it.
LEMMA HandleEndsKeepsPlace ==
  ASSUME HolderInv, PlaceInv, NEW h \in handling, HandleOnce(h) \/ ReachMaxRetry(h)
  PROVE  PlaceInv'
<1> DEFINE x == h.job
<1>1. /\ UNCHANGED <<jobQueue, dispatcher, request>>
      /\ handling' = handling \ {h}
      /\ worker' = AfterHandle(worker, h.w)
  BY DEF HandleOnce, ReachMaxRetry, api
<1>2. CopiesAreTrue /\ OneCopyOfAKind /\ OneKindOfCopy /\ LiveIsSomewhere /\ NothingBefore
  BY DEF PlaceInv
<1>3. TypeOK /\ SyncWorkerWaits
  BY DEF HolderInv
<1>4. /\ x.id \in Jobs /\ IsTrue(x) /\ h.w \in Workers
      /\ ~InQueue(x.id) /\ ~InDispatcher(x.id) /\ ~InLimit(x.id)
      /\ \A g \in handling : g.job.id = x.id => g = h
  BY <1>2, <1>3, JobsOfCopies DEF CopiesAreTrue, OneCopyOfAKind, OneKindOfCopy, InHandle
<1>5. /\ \A j \in Jobs : j # x.id => attempts'[j] = attempts[j] /\ outcome'[j] = outcome[j]
      /\ outcome'[x.id] # "none"
  BY <1>3, <1>4 DEF HandleOnce, ReachMaxRetry, TypeOK
<1>6. DOMAIN worker = Workers /\ (h.w \in SyncWorkers => worker[h.w].at # "limit")
  BY <1>3 DEF TypeOK, SyncWorkerWaits
<1>7. \A w \in Workers : /\ worker'[w].at = "limit" <=> worker[w].at = "limit"
                         /\ worker[w].at = "limit" => worker'[w] = worker[w]
  BY <1>1, <1>4, <1>6, AfterHandleLimits
<1> HIDE DEF x
<1>8. \A j \in Jobs : /\ InQueue(j)' <=> InQueue(j)
                      /\ InDispatcher(j)' <=> InDispatcher(j)
                      /\ InLimit(j)' <=> InLimit(j)
                      /\ InHandle(j)' <=> InHandle(j) /\ j # x.id
                      /\ Live(j)' <=> Live(j) /\ j # x.id
  <2>1. \A j \in Jobs : /\ InQueue(j)' <=> InQueue(j)
                        /\ InDispatcher(j)' <=> InDispatcher(j)
                        /\ InLimit(j)' <=> InLimit(j)
    BY <1>1, <1>7 DEF InQueue, InDispatcher, InLimit
  <2>2. \A j \in Jobs : InHandle(j)' <=> InHandle(j) /\ j # x.id
    BY <1>1, <1>4 DEF InHandle, x
  <2>3. \A j \in Jobs : Live(j)' <=> Live(j) /\ j # x.id
    BY <1>1, <1>4, <1>5 DEF Live
  <2> QED
    BY <2>1, <2>2, <2>3
<1>9. CopiesAreTrue'
  <2>1. ASSUME NEW job, job.id \in Jobs, job.id # x.id, IsTrue(job)
        PROVE  Live(job.id)' /\ job.retry = attempts'[job.id]
    BY <1>5, <1>8, <2>1 DEF IsTrue
  <2>2. /\ \A i \in DOMAIN jobQueue : jobQueue[i].id \in Jobs /\ jobQueue[i].id # x.id
        /\ dispatcher.at # "wait" => dispatcher.job.id \in Jobs /\ dispatcher.job.id # x.id
        /\ \A w \in Workers : worker[w].at = "limit" => worker[w].job.id \in Jobs /\ worker[w].job.id # x.id
        /\ \A g \in handling' : g \in handling /\ g.job.id \in Jobs /\ g.job.id # x.id
    BY <1>1, <1>3, <1>4, JobsOfCopies DEF InQueue, InDispatcher, InLimit
  <2>3. \A i \in DOMAIN jobQueue : IsTrue(jobQueue[i])'
    BY <1>1, <1>2, <2>1, <2>2 DEF CopiesAreTrue, IsTrue
  <2>4. dispatcher.at # "wait" => IsTrue(dispatcher.job)'
    BY <1>1, <1>2, <2>1, <2>2 DEF CopiesAreTrue, IsTrue
  <2>5. \A w \in Workers : worker'[w].at = "limit" => IsTrue(worker[w].job)' /\ worker'[w] = worker[w]
    BY <1>2, <1>7, <2>1, <2>2 DEF CopiesAreTrue, IsTrue
  <2>6. \A g \in handling' : IsTrue(g.job)'
    BY <1>2, <2>1, <2>2 DEF CopiesAreTrue, IsTrue
  <2> QED
    BY <1>1, <2>3, <2>4, <2>5, <2>6 DEF CopiesAreTrue
<1>10. OneCopyOfAKind'
  BY <1>1, <1>2, <1>7 DEF OneCopyOfAKind
<1>11. OneKindOfCopy' /\ LiveIsSomewhere'
  BY <1>2, <1>8 DEF OneKindOfCopy, LiveIsSomewhere
<1>12. NothingBefore'
  BY <1>1, <1>2, <1>4, <1>5 DEF NothingBefore, IsTrue, Live
<1> QED
  BY <1>9, <1>10, <1>11, <1>12 DEF PlaceInv

\* The call that retries carries the count of the attempt it made.
LEMMA HandleRetriesKeepsPlace ==
  ASSUME TypeOK, PlaceInv, NEW h \in handling, HandleRetries(h)
  PROVE  PlaceInv'
<1> DEFINE x == h.job
           y == [h.job EXCEPT !.retry = @ + 1]
           k == [at |-> "take", job |-> y, w |-> h.w]
<1>1. /\ UNCHANGED <<jobQueue, dispatcher, request, worker, outcome>>
      /\ handling' = (handling \ {h}) \cup {k}
      /\ attempts' = [attempts EXCEPT ![x.id] = @ + 1]
  BY DEF HandleRetries, api
<1>2. CopiesAreTrue /\ OneCopyOfAKind /\ OneKindOfCopy /\ LiveIsSomewhere /\ NothingBefore
  BY DEF PlaceInv
<1>3. /\ x.id \in Jobs /\ IsTrue(x) /\ InHandle(x.id) /\ x \in RetryJob
      /\ ~InQueue(x.id) /\ ~InDispatcher(x.id) /\ ~InLimit(x.id)
      /\ \A g \in handling : g.job.id = x.id => g = h
  BY <1>2, JobsOfCopies DEF CopiesAreTrue, OneCopyOfAKind, OneKindOfCopy, InHandle
<1>4. k.job = y /\ y.id = x.id /\ y.retry = x.retry + 1
  BY <1>3 DEF RetryJob
<1>5. /\ \A j \in Jobs : j # x.id => attempts'[j] = attempts[j]
      /\ attempts'[x.id] = attempts[x.id] + 1
  BY <1>1, <1>3 DEF TypeOK
<1> HIDE DEF k, y
<1>6. \A j \in Jobs : /\ InQueue(j)' <=> InQueue(j)
                      /\ InDispatcher(j)' <=> InDispatcher(j)
                      /\ InLimit(j)' <=> InLimit(j)
                      /\ InHandle(j)' <=> InHandle(j)
                      /\ Live(j)' <=> Live(j)
  BY <1>1, <1>3, <1>4 DEF InQueue, InDispatcher, InLimit, InHandle, Live
<1> HIDE DEF x
<1>7. CopiesAreTrue'
  <2>1. ASSUME NEW job, job.id \in Jobs, job.id # x.id, IsTrue(job)
        PROVE  Live(job.id)' /\ job.retry = attempts'[job.id]
    BY <1>5, <1>6, <2>1 DEF IsTrue
  <2>2. /\ \A i \in DOMAIN jobQueue : jobQueue[i].id \in Jobs /\ jobQueue[i].id # x.id
        /\ dispatcher.at # "wait" => dispatcher.job.id \in Jobs /\ dispatcher.job.id # x.id
        /\ \A w \in Workers : worker[w].at = "limit" => worker[w].job.id \in Jobs /\ worker[w].job.id # x.id
        /\ \A g \in handling' : g = k \/ (g \in handling /\ g.job.id \in Jobs /\ g.job.id # x.id)
    BY <1>1, <1>3, JobsOfCopies DEF InQueue, InDispatcher, InLimit
  <2>3. IsTrue(k.job)'
    BY <1>3, <1>4, <1>5, <1>6 DEF IsTrue
  <2>4. \A i \in DOMAIN jobQueue : IsTrue(jobQueue[i])'
    BY <1>1, <1>2, <2>1, <2>2 DEF CopiesAreTrue, IsTrue
  <2>5. dispatcher.at # "wait" => IsTrue(dispatcher.job)'
    BY <1>1, <1>2, <2>1, <2>2 DEF CopiesAreTrue, IsTrue
  <2>6. \A w \in Workers : worker[w].at = "limit" => IsTrue(worker[w].job)'
    BY <1>1, <1>2, <2>1, <2>2 DEF CopiesAreTrue, IsTrue
  <2>7. \A g \in handling' : g # k => IsTrue(g.job)'
    BY <1>2, <2>1, <2>2 DEF CopiesAreTrue, IsTrue
  <2> QED
    BY <1>1, <2>3, <2>4, <2>5, <2>6, <2>7 DEF CopiesAreTrue
<1>8. OneCopyOfAKind'
  BY <1>1, <1>2, <1>3, <1>4 DEF OneCopyOfAKind
<1>9. OneKindOfCopy' /\ LiveIsSomewhere'
  BY <1>2, <1>6 DEF OneKindOfCopy, LiveIsSomewhere
<1>10. NothingBefore'
  BY <1>1, <1>2, <1>3, <1>5 DEF NothingBefore, IsTrue, Live
<1> QED
  BY <1>7, <1>8, <1>9, <1>10 DEF PlaceInv

LEMMA RetryTakesKeepsPlace ==
  ASSUME TypeOK, PlaceInv, NEW h \in handling, RetryTakes(h)
  PROVE  PlaceInv'
<1> DEFINE k == [at |-> "send", job |-> h.job, w |-> h.w, jobChannel |-> Head(WorkerPool)]
<1>1. /\ UNCHANGED <<jobQueue, dispatcher, request, worker, attempts, outcome>>
      /\ handling' = (handling \ {h}) \cup {k}
      /\ k.job = h.job
  BY DEF RetryTakes, api, history
<1> HIDE DEF k
<1>2. CopiesAreTrue /\ OneCopyOfAKind /\ OneKindOfCopy /\ LiveIsSomewhere /\ NothingBefore
  BY DEF PlaceInv
<1>3. \A j : /\ InQueue(j)' <=> InQueue(j)
             /\ InDispatcher(j)' <=> InDispatcher(j)
             /\ InLimit(j)' <=> InLimit(j)
             /\ InHandle(j)' <=> InHandle(j)
             /\ Live(j)' <=> Live(j)
  BY <1>1 DEF InQueue, InDispatcher, InLimit, InHandle, Live
<1>4. CopiesAreTrue'
  BY <1>1, <1>2 DEF CopiesAreTrue, IsTrue, Live
<1>5. OneCopyOfAKind'
  BY <1>1, <1>2 DEF OneCopyOfAKind
<1>6. OneKindOfCopy' /\ LiveIsSomewhere'
  BY <1>2, <1>3 DEF OneKindOfCopy, LiveIsSomewhere
<1>7. NothingBefore'
  BY <1>1, <1>2 DEF NothingBefore
<1> QED
  BY <1>4, <1>5, <1>6, <1>7 DEF PlaceInv

LEMMA RetrySendsKeepsPlace ==
  ASSUME HolderInv, PlaceInv, NEW h \in handling, RetrySends(h)
  PROVE  PlaceInv'
<1> DEFINE x == h.job
           w0 == h.jobChannel
           run == Run(w0, x)
           ws == Received(w0, x)
<1>1. TypeOK /\ SyncWorkerWaits
  BY DEF HolderInv
<1>2. CopiesAreTrue /\ OneCopyOfAKind /\ OneKindOfCopy /\ LiveIsSomewhere /\ NothingBefore
  BY DEF PlaceInv
<1>3. /\ UNCHANGED <<jobQueue, dispatcher, request, attempts, outcome>>
      /\ w0 \in Workers /\ worker[w0].at = "select" /\ h.w \in Workers
      /\ worker' = AfterHandle(ws, h.w)
      /\ handling' = (handling \ {h}) \cup RunNow(w0, x)
  BY <1>1 DEF RetrySends, api, history, TypeOK, Handling
<1>4. /\ x.id \in Jobs /\ IsTrue(x) /\ InHandle(x.id)
      /\ ~InQueue(x.id) /\ ~InDispatcher(x.id) /\ ~InLimit(x.id)
      /\ \A g \in handling : g.job.id = x.id => g = h
  BY <1>1, <1>2, JobsOfCopies DEF CopiesAreTrue, OneCopyOfAKind, OneKindOfCopy, InHandle
<1>5. run.job = x /\ RunNow(w0, x) = IF w0 \in SyncWorkers THEN {run} ELSE {}
  BY DEF Run, RunNow
<1>6. /\ DOMAIN ws = Workers
      /\ \A w \in Workers : w # w0 => ws[w] = worker[w]
      /\ ws[w0].at = IF w0 \in SyncWorkers THEN "busy" ELSE "limit"
      /\ w0 \notin SyncWorkers => ws[w0].job = x
  BY <1>1, <1>3, ReceivedLimits DEF Received, TypeOK
<1> HIDE DEF run, ws
<1>7. h.w \in SyncWorkers => ws[h.w].at # "limit"
  BY <1>1, <1>3, <1>6 DEF SyncWorkerWaits
<1>8. \A w \in Workers : /\ worker'[w].at = "limit" <=> ws[w].at = "limit"
                         /\ ws[w].at = "limit" => worker'[w] = ws[w]
  BY <1>3, <1>6, <1>7, AfterHandleLimits
<1> HIDE DEF w0
<1>9. /\ \A w \in Workers : worker'[w].at = "limit" <=> (w # w0 /\ worker[w].at = "limit") \/ (w = w0 /\ w0 \notin SyncWorkers)
      /\ \A w \in Workers : w # w0 /\ worker[w].at = "limit" => worker'[w] = worker[w]
      /\ w0 \notin SyncWorkers => worker'[w0].job = x
  BY <1>3, <1>6, <1>8
<1>10. \A j \in Jobs : /\ InQueue(j)' <=> InQueue(j)
                       /\ InDispatcher(j)' <=> InDispatcher(j)
                       /\ Live(j)' <=> Live(j)
  BY <1>3 DEF InQueue, InDispatcher, Live
<1>11. \A j \in Jobs : InLimit(j)' <=> InLimit(j) \/ (j = x.id /\ w0 \notin SyncWorkers)
  BY <1>3, <1>9 DEF InLimit
<1>12. \A j \in Jobs : InHandle(j)' <=> (InHandle(j) /\ j # x.id) \/ (j = x.id /\ w0 \in SyncWorkers)
  BY <1>3, <1>4, <1>5 DEF InHandle
<1> HIDE DEF x
<1>13. CopiesAreTrue'
  BY <1>2, <1>3, <1>4, <1>5, <1>9 DEF CopiesAreTrue, IsTrue, Live
<1>14. OneCopyOfAKind'
  BY <1>2, <1>3, <1>4, <1>5, <1>9 DEF OneCopyOfAKind, InLimit, x
<1>15. OneKindOfCopy' /\ LiveIsSomewhere'
  BY <1>2, <1>4, <1>10, <1>11, <1>12 DEF OneKindOfCopy, LiveIsSomewhere
<1>16. NothingBefore'
  BY <1>2, <1>3 DEF NothingBefore
<1> QED
  BY <1>13, <1>14, <1>15, <1>16 DEF PlaceInv

\* The other steps move no job: they leave alone what Limit and handle hold.
LEMMA OthersKeepPlace ==
  ASSUME PlaceInv, UNCHANGED <<jobQueue, dispatcher, handling, attempts, outcome>>,
         \A j \in Jobs : request'[j] = "accepted" <=> request[j] = "accepted",
         \A w \in Workers : /\ worker'[w].at = "limit" <=> worker[w].at = "limit"
                            /\ worker[w].at = "limit" => worker'[w] = worker[w],
         TypeOK
  PROVE  PlaceInv'
<1>1. CopiesAreTrue /\ OneCopyOfAKind /\ OneKindOfCopy /\ LiveIsSomewhere /\ NothingBefore
  BY DEF PlaceInv
<1>2. \A j \in Jobs : /\ InQueue(j)' <=> InQueue(j)
                      /\ InDispatcher(j)' <=> InDispatcher(j)
                      /\ InLimit(j)' <=> InLimit(j)
                      /\ InHandle(j)' <=> InHandle(j)
                      /\ Live(j)' <=> Live(j)
  BY DEF InQueue, InDispatcher, InLimit, InHandle, Live
<1>3. CopiesAreTrue'
  BY <1>1, JobsOfCopies DEF CopiesAreTrue, IsTrue, Live
<1>4. OneCopyOfAKind'
  BY <1>1 DEF OneCopyOfAKind
<1>5. OneKindOfCopy' /\ LiveIsSomewhere'
  BY <1>1, <1>2 DEF OneKindOfCopy, LiveIsSomewhere
<1>6. NothingBefore'
  BY <1>1 DEF NothingBefore
<1> QED
  BY <1>3, <1>4, <1>5, <1>6 DEF PlaceInv

LEMMA PlaceNext == HolderInv /\ PlaceInv /\ [Next]_vars => PlaceInv'
<1> SUFFICES ASSUME HolderInv, PlaceInv, [Next]_vars PROVE PlaceInv'
  OBVIOUS
<1>0. TypeOK
  BY DEF HolderInv
<1>1. ASSUME NEW j \in Jobs, Request(j) \/ PushTimeout(j) PROVE PlaceInv'
  <2>1. /\ UNCHANGED <<jobQueue, dispatcher, handling, attempts, outcome, worker>>
        /\ \A i \in Jobs : request'[i] = "accepted" <=> request[i] = "accepted"
    BY <1>0, <1>1 DEF Request, PushTimeout, pool, history, TypeOK
  <2> QED
    BY <1>0, <2>1, OthersKeepPlace
<1>2. ASSUME NEW w0 \in Workers, Register(w0) \/ Stop(w0) \/ Quit(w0) PROVE PlaceInv'
  <2>1. UNCHANGED <<jobQueue, dispatcher, handling, attempts, outcome, request>>
    BY <1>2 DEF Register, Stop, Quit, api, history
  <2>2. \A w \in Workers : /\ worker'[w].at = "limit" <=> worker[w].at = "limit"
                           /\ worker[w].at = "limit" => worker'[w] = worker[w]
    BY <1>0, <1>2 DEF Register, Stop, Quit, TypeOK
  <2> QED
    BY <1>0, <2>1, <2>2, OthersKeepPlace
<1>3. ASSUME NEW h \in handling, Handle(h) PROVE PlaceInv'
  BY <1>0, <1>3, HandleEndsKeepsPlace, HandleRetriesKeepsPlace, RetryTakesKeepsPlace,
     RetrySendsKeepsPlace DEF Handle
<1>4. CASE UNCHANGED vars
  <2>1. UNCHANGED <<jobQueue, dispatcher, handling, attempts, outcome, request, worker>>
    BY <1>4 DEF vars, api, pool, history
  <2> QED
    BY <1>0, <2>1, OthersKeepPlace
<1> QED
  BY <1>0, <1>1, <1>2, <1>3, <1>4, PushKeepsPlace, WaitKeepsPlace, TakeKeepsPlace,
     DispatcherSendsKeepsPlace, LimitReturnsKeepsPlace DEF Next

LEMMA PlaceInvariance == Spec => [](HolderInv /\ PlaceInv)
  BY HolderInit, PlaceInit, HolderNext, PlaceNext, PTL DEF Spec

\* An accepted job is in one place until it ends, and nowhere after.
THEOREM JobInOnePlaceAlways == Spec => []JobInOnePlace
<1>1. ASSUME TypeOK, PlaceInv PROVE JobInOnePlace
  <2> SUFFICES ASSUME NEW j \in Jobs
               PROVE  IF Live(j) THEN \E p \in Places(j) : Places(j) = {p} /\ p[3] = attempts[j]
                                 ELSE Places(j) = {}
    BY DEF JobInOnePlace, Live
  <2> DEFINE Q == {<<"queued", i, jobQueue[i].retry>> : i \in {k \in DOMAIN jobQueue : jobQueue[k].id = j}}
             D == {<<"dispatcher", d.at, d.job.retry>> :
                     d \in {e \in {dispatcher} : e.at # "wait" /\ e.job.id = j}}
             L == {<<"worker", w, worker[w].job.retry>> :
                     w \in {v \in Workers : worker[v].at = "limit" /\ worker[v].job.id = j}}
             H == {<<"handling", h, h.job.retry>> : h \in {g \in handling : g.job.id = j}}
  <2>1. Places(j) = Q \cup D \cup L \cup H
    BY DEF Places
  <2>2. CopiesAreTrue /\ OneCopyOfAKind /\ OneKindOfCopy /\ LiveIsSomewhere
    BY <1>1 DEF PlaceInv
  <2>3. /\ ~InQueue(j) => Q = {}
        /\ InQueue(j) => Live(j) /\ \E p : Q = {p} /\ p[3] = attempts[j]
    <3>1. ~InQueue(j) => Q = {}
      BY DEF InQueue
    <3>2. ASSUME InQueue(j) PROVE Live(j) /\ \E p : Q = {p} /\ p[3] = attempts[j]
      <4>1. PICK i \in DOMAIN jobQueue : jobQueue[i].id = j
        BY <3>2 DEF InQueue
      <4>2. {k \in DOMAIN jobQueue : jobQueue[k].id = j} = {i}
        BY <2>2, <4>1 DEF OneCopyOfAKind
      <4> DEFINE p0 == <<"queued", i, jobQueue[i].retry>>
      <4>3. Q = {p0} /\ p0[3] = jobQueue[i].retry
        BY <4>2
      <4>4. Live(j) /\ jobQueue[i].retry = attempts[j]
        BY <2>2, <4>1 DEF CopiesAreTrue, IsTrue
      <4> HIDE DEF Q, p0
      <4> QED
        BY <4>3, <4>4
    <3> QED
      BY <3>1, <3>2
  <2>4. /\ ~InDispatcher(j) => D = {}
        /\ InDispatcher(j) => Live(j) /\ \E p : D = {p} /\ p[3] = attempts[j]
    <3>1. ~InDispatcher(j) => D = {}
      BY DEF InDispatcher
    <3>2. ASSUME InDispatcher(j) PROVE Live(j) /\ \E p : D = {p} /\ p[3] = attempts[j]
      <4> DEFINE p0 == <<"dispatcher", dispatcher.at, dispatcher.job.retry>>
      <4>1. D = {p0} /\ p0[3] = dispatcher.job.retry
        BY <3>2 DEF InDispatcher
      <4>2. Live(j) /\ dispatcher.job.retry = attempts[j]
        BY <2>2, <3>2 DEF InDispatcher, CopiesAreTrue, IsTrue
      <4> HIDE DEF D, p0
      <4> QED
        BY <4>1, <4>2
    <3> QED
      BY <3>1, <3>2
  <2>5. /\ ~InLimit(j) => L = {}
        /\ InLimit(j) => Live(j) /\ \E p : L = {p} /\ p[3] = attempts[j]
    <3>1. ~InLimit(j) => L = {}
      BY DEF InLimit
    <3>2. ASSUME InLimit(j) PROVE Live(j) /\ \E p : L = {p} /\ p[3] = attempts[j]
      <4>1. PICK w \in Workers : worker[w].at = "limit" /\ worker[w].job.id = j
        BY <3>2 DEF InLimit
      <4>2. {v \in Workers : worker[v].at = "limit" /\ worker[v].job.id = j} = {w}
        BY <2>2, <4>1 DEF OneCopyOfAKind
      <4> DEFINE p0 == <<"worker", w, worker[w].job.retry>>
      <4>3. L = {p0} /\ p0[3] = worker[w].job.retry
        BY <4>2
      <4>4. Live(j) /\ worker[w].job.retry = attempts[j]
        BY <2>2, <4>1 DEF CopiesAreTrue, IsTrue
      <4> HIDE DEF L, p0
      <4> QED
        BY <4>3, <4>4
    <3> QED
      BY <3>1, <3>2
  <2>6. /\ ~InHandle(j) => H = {}
        /\ InHandle(j) => Live(j) /\ \E p : H = {p} /\ p[3] = attempts[j]
    <3>1. ~InHandle(j) => H = {}
      BY DEF InHandle
    <3>2. ASSUME InHandle(j) PROVE Live(j) /\ \E p : H = {p} /\ p[3] = attempts[j]
      <4>1. PICK h \in handling : h.job.id = j
        BY <3>2 DEF InHandle
      <4>2. {g \in handling : g.job.id = j} = {h}
        BY <2>2, <4>1 DEF OneCopyOfAKind
      <4> DEFINE p0 == <<"handling", h, h.job.retry>>
      <4>3. H = {p0} /\ p0[3] = h.job.retry
        BY <4>2
      <4>4. Live(j) /\ h.job.retry = attempts[j]
        BY <2>2, <4>1 DEF CopiesAreTrue, IsTrue
      <4> HIDE DEF H, p0
      <4> QED
        BY <4>3, <4>4
    <3> QED
      BY <3>1, <3>2
  <2> HIDE DEF Q, D, L, H
  <2>7. CASE ~Live(j)
    BY <2>1, <2>3, <2>4, <2>5, <2>6, <2>7
  <2>8. CASE Live(j)
    <3>1. \E p : Places(j) = {p} /\ p[3] = attempts[j]
      <4>1. CASE InQueue(j)
        BY <2>1, <2>2, <2>3, <2>4, <2>5, <2>6, <4>1 DEF OneKindOfCopy
      <4>2. CASE InDispatcher(j)
        BY <2>1, <2>2, <2>3, <2>4, <2>5, <2>6, <4>2 DEF OneKindOfCopy
      <4>3. CASE InLimit(j)
        BY <2>1, <2>2, <2>3, <2>4, <2>5, <2>6, <4>3 DEF OneKindOfCopy
      <4>4. CASE InHandle(j)
        BY <2>1, <2>2, <2>3, <2>4, <2>5, <2>6, <4>4 DEF OneKindOfCopy
      <4> QED
        BY <2>2, <2>8, <4>1, <4>2, <4>3, <4>4 DEF LiveIsSomewhere
    <3> QED
      BY <2>8, <3>1
  <2> QED
    BY <2>7, <2>8
<1> QED
  BY <1>1, PlaceInvariance, PTL DEF HolderInv

-----------------------------------------------------------------------------
(* The pipeline implements JobService: what a client sees of a job changes in *)
(* Push, PushTimeout and handle, and nowhere else.                            *)

LEMMA ServiceInit == Init => Service!Init
  BY DEF Init, Service!Init, jobStatus

\* What a step that changes the status of j0 does to the statuses.
LEMMA StatusChanges ==
  ASSUME NEW j0 \in Jobs, NEW s,
         \A j \in Jobs : j # j0 => request'[j] = request[j] /\ outcome'[j] = outcome[j],
         s = IF outcome'[j0] # "none" THEN outcome'[j0]
             ELSE IF request'[j0] = "pushing" THEN "new" ELSE request'[j0]
  PROVE  jobStatus' = [jobStatus EXCEPT ![j0] = s]
BY DEF jobStatus

\* A call of handle holds a job whose status is "accepted", with its attempts.
LEMMA HandledIsAccepted ==
  ASSUME TypeOK, PlaceInv, NEW h \in handling
  PROVE  /\ h.job.id \in Jobs /\ jobStatus[h.job.id] = "accepted"
         /\ request[h.job.id] = "accepted" /\ outcome[h.job.id] = "none"
         /\ h.job.retry = attempts[h.job.id] /\ h.job.retry \in 0 .. MaxRetry
<1>1. h.job.id \in Jobs /\ h.job.retry \in 0 .. MaxRetry
  BY JobsOfCopies DEF RetryJob
<1>2. IsTrue(h.job)
  BY DEF PlaceInv, CopiesAreTrue
<1> QED
  BY <1>1, <1>2 DEF IsTrue, Live, jobStatus

LEMMA ServiceNext == HolderInv /\ PlaceInv /\ [Next]_vars => [Service!Next]_Service!vars
<1> SUFFICES ASSUME HolderInv, PlaceInv, [Next]_vars PROVE [Service!Next]_Service!vars
  OBVIOUS
<1>0. TypeOK /\ NothingBefore
  BY DEF HolderInv, PlaceInv
<1>1. ASSUME UNCHANGED attempts, UNCHANGED outcome, jobStatus' = jobStatus
      PROVE  [Service!Next]_Service!vars
  BY <1>1 DEF Service!vars
<1>2. ASSUME UNCHANGED <<request, attempts, outcome>> PROVE [Service!Next]_Service!vars
  BY <1>1, <1>2 DEF jobStatus
<1>3. ASSUME NEW j \in Jobs, Request(j) PROVE [Service!Next]_Service!vars
  <2>1. UNCHANGED <<attempts, outcome>> /\ jobStatus' = jobStatus
    BY <1>0, <1>3 DEF Request, history, jobStatus, TypeOK
  <2> QED
    BY <1>1, <2>1
<1>4. ASSUME NEW j \in Jobs, Push(j) PROVE [Service!Next]_Service!vars
  <2>1. /\ request[j] = "pushing" /\ outcome[j] = "none" /\ UNCHANGED <<attempts, outcome>>
        /\ request' = [request EXCEPT ![j] = "accepted"]
    BY <1>0, <1>4 DEF Push, pool, history, NothingBefore
  <2>2. jobStatus[j] = "new"
    BY <2>1 DEF jobStatus
  <2>3. jobStatus' = [jobStatus EXCEPT ![j] = "accepted"]
    BY <1>0, <2>1, StatusChanges DEF TypeOK
  <2> QED
    BY <2>1, <2>2, <2>3 DEF Service!Next, Service!Accept
<1>5. ASSUME NEW j \in Jobs, PushTimeout(j) PROVE [Service!Next]_Service!vars
  <2>1. /\ request[j] = "pushing" /\ outcome[j] = "none" /\ UNCHANGED <<attempts, outcome>>
        /\ request' = [request EXCEPT ![j] = "refused"]
    BY <1>0, <1>5 DEF PushTimeout, pool, history, NothingBefore
  <2>2. jobStatus[j] = "new"
    BY <2>1 DEF jobStatus
  <2>3. jobStatus' = [jobStatus EXCEPT ![j] = "refused"]
    BY <1>0, <2>1, StatusChanges DEF TypeOK
  <2> QED
    BY <2>1, <2>2, <2>3 DEF Service!Next, Service!Refuse
<1>6. CASE Wait \/ TakeJobChannel \/ DispatcherSends
  BY <1>2, <1>6 DEF Wait, TakeJobChannel, DispatcherSends, api, history
<1>7. ASSUME NEW w \in Workers, Register(w) \/ LimitReturns(w) \/ Stop(w) \/ Quit(w)
      PROVE  [Service!Next]_Service!vars
  BY <1>2, <1>7 DEF Register, LimitReturns, Stop, Quit, api, history
<1>8. ASSUME NEW h \in handling, Handle(h) PROVE [Service!Next]_Service!vars
  <2> DEFINE j == h.job.id
  <2>1. /\ j \in Jobs /\ jobStatus[j] = "accepted"
        /\ request[j] = "accepted" /\ outcome[j] = "none"
        /\ h.job.retry = attempts[j] /\ h.job.retry \in 0 .. MaxRetry
    BY <1>0, HandledIsAccepted
  <2> HIDE DEF j
  <2>2. CASE HandleOnce(h)
    <3>1. PICK result \in {"done", "failed"} : outcome' = [outcome EXCEPT ![j] = result]
      BY <2>2 DEF HandleOnce, j
    <3>2. /\ attempts[j] < MaxRetry /\ attempts' = [attempts EXCEPT ![j] = @ + 1]
          /\ request' = request
      BY <2>1, <2>2 DEF HandleOnce, api, j
    <3>3. /\ \A i \in Jobs : i # j => request'[i] = request[i] /\ outcome'[i] = outcome[i]
          /\ outcome'[j] = result /\ result # "none"
      BY <1>0, <2>1, <3>1, <3>2 DEF TypeOK
    <3>4. jobStatus' = [jobStatus EXCEPT ![j] = result]
      BY <2>1, <3>3, StatusChanges
    <3>5. Service!Attempt(j)
      BY <2>1, <3>2, <3>4 DEF Service!Attempt
    <3> QED
      BY <2>1, <3>5 DEF Service!Next
  <2>3. CASE HandleRetries(h)
    <3>1. /\ attempts[j] < MaxRetry /\ attempts' = [attempts EXCEPT ![j] = @ + 1]
          /\ request' = request /\ outcome' = outcome
      BY <2>1, <2>3 DEF HandleRetries, api, j
    <3>2. jobStatus' = [jobStatus EXCEPT ![j] = "accepted"]
      BY <2>1, <3>1, StatusChanges
    <3>3. Service!Attempt(j)
      BY <2>1, <3>1, <3>2 DEF Service!Attempt
    <3> QED
      BY <2>1, <3>3 DEF Service!Next
  <2>4. CASE ReachMaxRetry(h)
    <3>1. /\ attempts[j] = MaxRetry /\ UNCHANGED <<attempts, request>>
          /\ outcome' = [outcome EXCEPT ![j] = "dropped"]
      BY <2>1, <2>4, DispatchAssumption DEF ReachMaxRetry, api, j, DispatchAssumption
    <3>2. /\ \A i \in Jobs : i # j => request'[i] = request[i] /\ outcome'[i] = outcome[i]
          /\ outcome'[j] = "dropped"
      BY <1>0, <2>1, <3>1 DEF TypeOK
    <3>3. jobStatus' = [jobStatus EXCEPT ![j] = "dropped"]
      BY <2>1, <3>2, StatusChanges
    <3>4. Service!GiveUp(j)
      BY <2>1, <3>1, <3>3 DEF Service!GiveUp
    <3> QED
      BY <2>1, <3>4 DEF Service!Next
  <2>5. CASE RetryTakes(h) \/ RetrySends(h)
    BY <1>2, <2>5 DEF RetryTakes, RetrySends, api, history
  <2> QED
    BY <1>8, <2>2, <2>3, <2>4, <2>5 DEF Handle
<1>9. CASE UNCHANGED vars
  BY <1>2, <1>9 DEF vars, api, history
<1> QED
  BY <1>3, <1>4, <1>5, <1>6, <1>7, <1>8, <1>9 DEF Next

\* Each job is accepted or refused, is handed to the handler at most MaxRetry
\* times, and ends once, whatever channels and goroutines it passes through.
THEOREM PipelineImplementsService == Spec => ImplementsService
  BY ServiceInit, ServiceNext, PlaceInvariance, PTL DEF Spec, ImplementsService, Service!Spec
=============================================================================

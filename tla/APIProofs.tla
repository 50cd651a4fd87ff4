----------------------------- MODULE APIProofs -----------------------------
(***************************************************************************)
(* Proofs about API, for any number of requests and structs: sharing the   *)
(* structs through the pool never mixes two jobs.                          *)
(***************************************************************************)
EXTENDS API, TLAPS

\* How much of its struct a handler has filled.
Filled ==
  \A r \in Requests :
    /\ handler[r] \in {"payload", "marshal"} => fields[retryJob[r]].ID = r
    /\ handler[r] = "marshal" => fields[retryJob[r]].Payload = r

\* What is in the queue was pushed by a handler that answered with its id.
Queued ==
  \A job \in jobQueue : \E r \in Requests : handler[r] = "accepted" /\ job = [ID |-> r, Payload |-> r]

Answered == \A r \in Requests : handler[r] = "accepted" => [ID |-> r, Payload |-> r] \in jobQueue

IInv == TypeOK /\ StructIsOwned /\ Filled /\ JobIsOwn /\ Queued /\ Answered

LEMMA InitIInv == Init => IInv
  BY DEF Init, IInv, TypeOK, HandlerPC, Job, NewJob, StructIsOwned, Holding, Filled, JobIsOwn, Queued, Answered

LEMMA NextIInv == IInv /\ [Next]_vars => IInv'
<1> SUFFICES ASSUME IInv, [Next]_vars PROVE IInv'
  OBVIOUS
<1> USE NoneAssumption DEF IInv, TypeOK, HandlerPC, Job, Goto
<1>1. ASSUME NEW r \in Requests, Get(r) PROVE IInv'
  <2>0. TypeOK'
    BY <1>1 DEF Get, Unused, NewJob
  <2>1. StructIsOwned'
    BY <1>1 DEF Get, Unused, NewJob, StructIsOwned, Holding
  <2>2. Filled' /\ JobIsOwn'
    BY <1>1 DEF Get, Unused, NewJob, StructIsOwned, Holding, Filled, JobIsOwn
  <2>3. Queued' /\ Answered'
    BY <1>1 DEF Get, Queued, Answered
  <2> QED
    BY <2>0, <2>1, <2>2, <2>3
<1>2. ASSUME NEW r \in Requests, SetID(r) PROVE IInv'
  BY <1>2 DEF SetID, StructIsOwned, Holding, Filled, JobIsOwn, Queued, Answered
<1>3. ASSUME NEW r \in Requests, SetPayload(r) PROVE IInv'
  BY <1>3 DEF SetPayload, StructIsOwned, Holding, Filled, JobIsOwn, Queued, Answered
<1>4. ASSUME NEW r \in Requests, Marshal(r) PROVE IInv'
  BY <1>4 DEF Marshal, StructIsOwned, Holding, Filled, JobIsOwn, Queued, Answered
<1>5. ASSUME NEW r \in Requests, Put(r) PROVE IInv'
  BY <1>5 DEF Put, StructIsOwned, Holding, Filled, JobIsOwn, Queued, Answered
<1>6. ASSUME NEW r \in Requests, Push(r) PROVE IInv'
  BY <1>6 DEF Push, StructIsOwned, Holding, Filled, JobIsOwn, Queued, Answered
<1>7. ASSUME NEW r \in Requests, PushFails(r) PROVE IInv'
  BY <1>7 DEF PushFails, StructIsOwned, Holding, Filled, JobIsOwn, Queued, Answered
<1>8. CASE Collect
  BY <1>8 DEF Collect, StructIsOwned, Holding, Filled, JobIsOwn, Queued, Answered
<1>9. CASE UNCHANGED vars
  BY <1>9 DEF vars, StructIsOwned, Holding, Filled, JobIsOwn, Queued, Answered
<1> QED
  BY <1>1, <1>2, <1>3, <1>4, <1>5, <1>6, <1>7, <1>8, <1>9 DEF Next

LEMMA Invariance == Spec => []IInv
  BY InitIInv, NextIInv, PTL DEF Spec

\* The pool never mixes two jobs: a job has the id its client is answered with
\* and the body that client sent.
THEOREM JobIsOwnAlways == Spec => []JobIsOwn
<1>1. IInv => JobIsOwn
  BY DEF IInv
<1> QED
  BY <1>1, Invariance, PTL

\* A client is told an id exactly when the job with that id is in the queue.
THEOREM AnswersAreTrue == Spec => []AnswerIsTrue
<1>1. IInv => AnswerIsTrue
  <2> SUFFICES ASSUME IInv, NEW r \in Requests, handler[r] = "failed", NEW job \in jobQueue
               PROVE  job.ID # r /\ job.Payload # r
    BY DEF IInv, Answered, AnswerIsTrue
  <2>1. PICK q \in Requests : handler[q] = "accepted" /\ job = [ID |-> q, Payload |-> q]
    BY DEF IInv, Queued
  <2> QED
    BY <2>1
<1> QED
  BY <1>1, Invariance, PTL
=============================================================================

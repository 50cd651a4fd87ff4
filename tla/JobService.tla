----------------------------- MODULE JobService -----------------------------
(***************************************************************************)
(* What the job pipeline promises a client of the HTTP API, without        *)
(* queues, channels or goroutines: a request is accepted or refused, an    *)
(* accepted job is handed to the handler at most MaxRetry times, and it    *)
(* ends handled, failed or dropped, once.                                  *)
(***************************************************************************)
EXTENDS Naturals

CONSTANTS
  Jobs,      \* the requests that are made
  MaxRetry   \* worker.go:15

VARIABLES
  status,    \* what became of each job
  attempts   \* how many times the handler was called for it

vars == <<status, attempts>>

Finished == {"done", "failed", "dropped"}
Status == {"new", "refused", "accepted"} \cup Finished

TypeOK ==
  /\ status \in [Jobs -> Status]
  /\ attempts \in [Jobs -> 0 .. MaxRetry]

Init ==
  /\ status = [j \in Jobs |-> "new"]
  /\ attempts = [j \in Jobs |-> 0]

Accept(j) ==
  /\ status[j] = "new"
  /\ status' = [status EXCEPT ![j] = "accepted"]
  /\ UNCHANGED attempts

Refuse(j) ==
  /\ status[j] = "new"
  /\ status' = [status EXCEPT ![j] = "refused"]
  /\ UNCHANGED attempts

\* The handler succeeds, fails for good, or asks for a retry.
Attempt(j) ==
  /\ status[j] = "accepted"
  /\ attempts[j] < MaxRetry
  /\ attempts' = [attempts EXCEPT ![j] = @ + 1]
  /\ \E s \in {"accepted", "done", "failed"} : status' = [status EXCEPT ![j] = s]

\* The job used up its attempts.
GiveUp(j) ==
  /\ status[j] = "accepted"
  /\ attempts[j] = MaxRetry
  /\ status' = [status EXCEPT ![j] = "dropped"]
  /\ UNCHANGED attempts

Next == \E j \in Jobs : Accept(j) \/ Refuse(j) \/ Attempt(j) \/ GiveUp(j)

Spec == Init /\ [][Next]_vars

\* Every accepted job comes to an end.
Liveness == \A j \in Jobs : status[j] = "accepted" ~> status[j] \in Finished

FairSpec == Spec /\ Liveness
=============================================================================

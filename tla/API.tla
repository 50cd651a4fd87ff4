--------------------------------- MODULE API ---------------------------------
(***************************************************************************)
(* The HTTP handler api.go registers for a route (lines 53-87).  Requests  *)
(* are served concurrently and fill RetryJob structs they share through a  *)
(* sync.Pool; each pushes the bytes of its own job and answers with its id *)
(* or with the error of Push.  Dispatch models what becomes of the bytes.  *)
(*                                                                         *)
(* A request's id and its body are named by the request: the ids are 32    *)
(* random letters each.  A job's Retry is set to 0 here and never counted  *)
(* up in a struct of the pool (handle has a copy), so it is left out.      *)
(***************************************************************************)
CONSTANTS
  Requests,   \* the requests made
  Structs     \* the RetryJob structs that can exist at a time

None == "none"

ASSUME NoneAssumption == None \notin Requests /\ None \notin Structs

VARIABLES
  handler,    \* per request: where its handler is
  retryJob,   \* per request: the struct its handler got from the pool
  fields,     \* per struct: the request its ID and its Payload come from
  jobPool,    \* the structs in the sync.Pool
  jobByte,    \* per request: the fields it marshalled
  jobQueue    \* the jobs pushed

vars == <<handler, retryJob, fields, jobPool, jobByte, jobQueue>>

\* "id", "payload" and "marshal" are before the lines that do so; "put" and
\* "push" likewise; "accepted" and "failed" are the two answers.
HandlerPC == {"get", "id", "payload", "marshal", "put", "push", "accepted", "failed"}

Job == [ID : Requests \cup {None}, Payload : Requests \cup {None}]
NewJob == [ID |-> None, Payload |-> None]

TypeOK ==
  /\ handler \in [Requests -> HandlerPC]
  /\ retryJob \in [Requests -> Structs \cup {None}]
  /\ fields \in [Structs -> Job]
  /\ jobPool \subseteq Structs
  /\ jobByte \in [Requests -> Job]
  /\ jobQueue \subseteq Job

Init ==
  /\ handler = [r \in Requests |-> "get"]
  /\ retryJob = [r \in Requests |-> None]
  /\ fields = [s \in Structs |-> NewJob]
  /\ jobPool = {}
  /\ jobByte = [r \in Requests |-> NewJob]
  /\ jobQueue = {}

\* The handler is between Get and Put and uses its struct.
Holding(r) == handler[r] \in {"id", "payload", "marshal", "put"}

\* Memory for a new struct.
Unused == Structs \ (jobPool \cup {retryJob[r] : r \in {q \in Requests : Holding(q)}})

Goto(r, pc) == handler' = [handler EXCEPT ![r] = pc]

\* Pool.Get hands out a struct of the pool, or a new one when it finds none; a
\* pool is per processor, so it may find none when there is one elsewhere.
Get(r) ==
  /\ handler[r] = "get"
  /\ \/ \E s \in jobPool :
          /\ retryJob' = [retryJob EXCEPT ![r] = s]
          /\ jobPool' = jobPool \ {s}
          /\ UNCHANGED fields
     \/ \E s \in Unused :
          /\ retryJob' = [retryJob EXCEPT ![r] = s]
          /\ fields' = [fields EXCEPT ![s] = NewJob]
          /\ UNCHANGED jobPool
  /\ Goto(r, "id")
  /\ UNCHANGED <<jobByte, jobQueue>>

SetID(r) ==
  /\ handler[r] = "id"
  /\ fields' = [fields EXCEPT ![retryJob[r]].ID = r]
  /\ Goto(r, "payload")
  /\ UNCHANGED <<retryJob, jobPool, jobByte, jobQueue>>

\* Mutant of SetPayload: the struct goes back to the pool before the Marshal.
SetPayloadAndPut(r) ==
  /\ handler[r] = "payload"
  /\ fields' = [fields EXCEPT ![retryJob[r]].Payload = r]
  /\ jobPool' = jobPool \cup {retryJob[r]}
  /\ Goto(r, "marshal")
  /\ UNCHANGED <<retryJob, jobByte, jobQueue>>

SetPayload(r) ==
  /\ handler[r] = "payload"
  /\ fields' = [fields EXCEPT ![retryJob[r]].Payload = r]
  /\ Goto(r, "marshal")
  /\ UNCHANGED <<retryJob, jobPool, jobByte, jobQueue>>

\* json.Marshal cannot fail on a RetryJob.
Marshal(r) ==
  /\ handler[r] = "marshal"
  /\ jobByte' = [jobByte EXCEPT ![r] = fields[retryJob[r]]]
  /\ Goto(r, "put")
  /\ UNCHANGED <<retryJob, fields, jobPool, jobQueue>>

Put(r) ==
  /\ handler[r] = "put"
  /\ jobPool' = jobPool \cup {retryJob[r]}
  /\ Goto(r, "push")
  /\ UNCHANGED <<retryJob, fields, jobByte, jobQueue>>

Push(r) ==
  /\ handler[r] = "push"
  /\ jobQueue' = jobQueue \cup {jobByte[r]}
  /\ Goto(r, "accepted")
  /\ UNCHANGED <<retryJob, fields, jobPool, jobByte>>

\* Mutant of PushFails: the return after the error is missing.
PushFailsAnyway(r) ==
  /\ handler[r] = "push"
  /\ Goto(r, "accepted")
  /\ UNCHANGED <<retryJob, fields, jobPool, jobByte, jobQueue>>

PushFails(r) ==
  /\ handler[r] = "push"
  /\ Goto(r, "failed")
  /\ UNCHANGED <<retryJob, fields, jobPool, jobByte, jobQueue>>

\* The garbage collector empties the pool.
Collect ==
  /\ jobPool # {}
  /\ jobPool' = {}
  /\ UNCHANGED <<handler, retryJob, fields, jobByte, jobQueue>>

Next ==
  \/ \E r \in Requests :
       \/ Get(r) \/ SetID(r) \/ SetPayload(r) \/ Marshal(r)
       \/ Put(r) \/ Push(r) \/ PushFails(r)
  \/ Collect

Spec == Init /\ [][Next]_vars

-----------------------------------------------------------------------------
(* Properties. *)

\* A job carries the id its client is told together with the body that client
\* sent: no other handler writes to a struct between the assignments of lines
\* 64-66 and the Marshal of line 69, though structs are reused from line 75 on.
JobIsOwn ==
  \A r \in Requests :
    handler[r] \in {"put", "push", "accepted", "failed"} => jobByte[r] = [ID |-> r, Payload |-> r]

\* An answered id is that of a job in the queue, and a client told of an error
\* has no job there (api.go:77-83).
AnswerIsTrue ==
  \A r \in Requests :
    /\ handler[r] = "accepted" => [ID |-> r, Payload |-> r] \in jobQueue
    /\ handler[r] = "failed" => \A job \in jobQueue : job.ID # r /\ job.Payload # r

\* A struct is written by one handler at a time, and not while the pool could
\* hand it to another (api.go:61-75).
StructIsOwned ==
  \A r \in Requests :
    Holding(r) =>
      /\ retryJob[r] \in Structs \ jobPool
      /\ \A q \in Requests : Holding(q) /\ retryJob[q] = retryJob[r] => q = r
=============================================================================

------------------------------- MODULE Rsync --------------------------------
(***************************************************************************)
(* worker/rsync: a job lists resources; for each its handler looks for the *)
(* key in the bucket and, when it is not there, downloads the url and      *)
(* uploads it; the statuses are posted to the job's callback.  The jobs    *)
(* run each in a goroutine of one process, which may die; other programs   *)
(* read and write the bucket meanwhile.                                    *)
(***************************************************************************)
EXTENDS HTTP, Sequences, FiniteSets

CONSTANTS
  Syncs,        \* the jobs
  Keys,         \* the keys resources have
  MaxResources  \* how many resources a job lists at most

VARIABLES
  bucket,  \* per object, its content
  rsync    \* per job: where its handler is, the keys of its resources, their
           \* statuses so far, the file just downloaded, and the resources whose
           \* temporary file exists, and is removed when the handler returns

Ended == {"answered", "failed", "lost"}
Steps == {"check", "get", "put"}
Indexes == 1 .. MaxResources
Lists(S) == UNION {[1 .. n -> S] : n \in 0 .. MaxResources}

TypeOK ==
  /\ rsync \in [Syncs -> [at : {"new"} \cup Steps \cup Ended, keys : Lists(Keys),
                           status : Lists({0, 1}), got : Content,
                           files : SUBSET Indexes, deferred : SUBSET Indexes]]
  /\ \A j \in Syncs : Len(rsync[j].status) <= Len(rsync[j].keys)

Init ==
  rsync \in [Syncs -> [at : {"new"}, keys : Lists(Keys), status : {<<>>}, got : {"none"},
                       files : {{}}, deferred : {{}}]]

Runs(j) == rsync[j].at \in Steps
At(j, step) == rsync[j].at = step

\* The resource that is in turn, and its object.
Current(j) == Len(rsync[j].status) + 1
InTurn(j) == Current(j) <= Len(rsync[j].keys)
Object(j) == <<rsync[j].keys[Current(j)], "file">>

\* The resource in turn gets its status, and the next one is in turn.
Answer(j, s, files, deferred) ==
  rsync' = [rsync EXCEPT ![j].at = "check", ![j].status = Append(@, s), ![j].got = "none",
                         ![j].files = files, ![j].deferred = deferred]
Settle(j, s) == Answer(j, s, rsync[j].files, rsync[j].deferred)

-----------------------------------------------------------------------------
Accept(j) ==
  /\ At(j, "new")
  /\ \E at \in {"check", "failed"} : rsync' = [rsync EXCEPT ![j].at = at]
  /\ UNCHANGED bucket

\* Mutant of checkObjS3: a resource that is there is downloaded all the same.
CheckAndGet(j) ==
  /\ At(j, "check") /\ InTurn(j)
  /\ rsync' = [rsync EXCEPT ![j].at = "get",
                            ![j].status = IF bucket[Object(j)] = "none" THEN @ ELSE Append(@, 1)]
  /\ UNCHANGED bucket

\* An error of any kind counts as an object that is not there.
checkObjS3(j) ==
  /\ At(j, "check") /\ InTurn(j)
  /\ \/ bucket[Object(j)] # "none" /\ Settle(j, 1)
     \/ rsync' = [rsync EXCEPT ![j].at = "get"]
  /\ UNCHANGED bucket

\* Mutant of SizeMatches: the length is not looked at.
AnySize(answer) == TRUE

SizeMatches(answer) == Size[answer.file] = answer.length

\* The file of the resource in turn is to be removed when the handler returns.
Held(j) == rsync[j].deferred \cup {Current(j)}

Get(j) ==
  LET files == rsync[j].files \cup {Current(j)}
  IN /\ At(j, "get")
     /\ \E answer \in HTTPGetFile :
          \/ /\ answer.err
             /\ Answer(j, 0, IF answer.file = "none" THEN rsync[j].files ELSE files,
                       rsync[j].deferred)
          \/ ~answer.err /\ ~SizeMatches(answer) /\ Answer(j, 0, files, Held(j))
          \/ /\ ~answer.err /\ SizeMatches(answer)
             /\ rsync' = [rsync EXCEPT ![j].at = "put", ![j].got = answer.file,
                                       ![j].files = files, ![j].deferred = Held(j)]
     /\ UNCHANGED bucket

\* Mutant of uploadToS3: an upload that fails counts as done.
UploadAlways(j) ==
  /\ At(j, "put")
  /\ Settle(j, 1)
  /\ UNCHANGED bucket

\* An upload that fails may have put the object in the bucket all the same.
uploadToS3(j) ==
  /\ At(j, "put")
  /\ \/ \E content \in Uploaded(rsync[j].got), s \in {0, 1} :
          bucket' = [bucket EXCEPT ![Object(j)] = content] /\ Settle(j, s)
     \/ UNCHANGED bucket /\ Settle(j, 0)

Post(j) ==
  /\ At(j, "check") /\ ~InTurn(j)
  /\ \E answer \in HTTPPost :
       rsync' = [rsync EXCEPT ![j].at = IF answer.received THEN "answered" ELSE "failed",
                              ![j].files = @ \ rsync[j].deferred, ![j].deferred = {}]
  /\ UNCHANGED bucket

\* The process dies: the files stay, and what the handlers had in memory is gone.
Crash ==
  /\ \E j \in Syncs : Runs(j)
  /\ rsync' = [j \in Syncs |->
       IF Runs(j)
         THEN [rsync[j] EXCEPT !.at = "lost", !.status = <<>>, !.got = "none", !.deferred = {}]
         ELSE rsync[j]]
  /\ UNCHANGED bucket

Handle(j) == Accept(j) \/ checkObjS3(j) \/ Get(j) \/ uploadToS3(j) \/ Post(j)

Next == Crash \/ \E j \in Syncs : Handle(j)
=============================================================================

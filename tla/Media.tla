------------------------------- MODULE Media --------------------------------
(***************************************************************************)
(* The rsync and the cover workers share a bucket: one brings files in     *)
(* from elsewhere, the other makes pictures of files that are there.       *)
(* Clients call them in any order, more than once for a key, and together. *)
(***************************************************************************)
EXTENDS Naturals, Sequences

CONSTANTS
  Covers, Syncs,  \* the jobs of the two workers
  Keys,           \* the keys of the files
  MaxResources    \* how many resources an rsync job lists at most

ASSUME MediaAssumption == MaxResources \in Nat

VARIABLES bucket, cover, rsync

vars == <<bucket, cover, rsync>>

C == INSTANCE Cover
R == INSTANCE Rsync

TypeOK == C!TypeOK /\ R!TypeOK

\* Some files are in the bucket already.
Init ==
  /\ C!Init /\ R!Init
  /\ bucket \in [C!Objects -> {"none", "whole"}]
  /\ \A o \in C!Objects : o[2] # "file" => bucket[o] = "none"

\* Another program brings in a file that is not there.
OtherPuts ==
  /\ \E k \in Keys :
       /\ bucket[<<k, "file">>] = "none"
       /\ bucket' = [bucket EXCEPT ![<<k, "file">>] = "whole"]
  /\ UNCHANGED <<cover, rsync>>

Next ==
  \/ C!Next /\ UNCHANGED rsync
  \/ R!Next /\ UNCHANGED cover
  \/ OtherPuts

Spec == Init /\ [][Next]_vars

-----------------------------------------------------------------------------
(* Properties. *)

\* What a type of cover job is for.
Wanted == [image |-> {"blur"}, video |-> {"webp", "cover", "blur"}, other |-> {}]

\* An answer is complete and true: a cover job's names every picture of its type,
\* an rsync job's has a status per resource in their order, and whatever it says
\* is in the bucket is there, whoever put it there and whatever failed meanwhile
\* (cover/main.go:102-159, rsync/main.go:95-133).
AnswersAreTrue ==
  /\ \A j \in Covers : cover[j].at = "answered" =>
       /\ cover[j].result = Wanted[cover[j].type]
       /\ \A f \in cover[j].result : bucket[<<cover[j].key, f>>] # "none"
  /\ \A j \in Syncs : rsync[j].at = "answered" =>
       /\ Len(rsync[j].status) = Len(rsync[j].keys)
       /\ \A i \in DOMAIN rsync[j].status :
            rsync[j].status[i] = 1 => bucket[<<rsync[j].keys[i], "file">>] # "none"

\* No part of a file that arrived cut off gets into the bucket, nor does a picture
\* of one. An object of no bytes may: a file that was cut off before its first byte
\* and came without a Content-Length passes for an empty one and is answered with
\* status 1. An upload that stops reading its file half way is not noticed either
\* and leaves a "cut" object (http.go:137-142, rsync/main.go:118-124,
\* rsync/s3.go:22).
NoShortObject ==
  \A o \in C!Objects : bucket[o] \in C!CutOff => C!Size[bucket[o]] = 0

\* A cover job that is answered leaves no temporary file, and an rsync job that
\* ends none of a resource whose status is 1 (cover/main.go:101, 427,
\* rsync/main.go:117).
NothingLeftBehind ==
  /\ \A j \in Covers : cover[j].at = "answered" =>
       \A f \in C!Files : cover[j].files[f] = "none"
  /\ \A j \in Syncs : rsync[j].at \in {"answered", "failed"} =>
       \A i \in rsync[j].files : rsync[j].status[i] = 0
=============================================================================

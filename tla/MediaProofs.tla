---------------------------- MODULE MediaProofs -----------------------------
(***************************************************************************)
(* The properties of Media, for any jobs and keys and lists of any length: *)
(* IInv is inductive.  A step of a job keeps what IInv says of that job,   *)
(* and only adds to the bucket; that is all the other jobs rely on.        *)
(***************************************************************************)
EXTENDS Media, SequenceTheorems, TLAPS

\* The keys of a cover job's result at each step.
ResultOf(at, type, result) ==
  /\ at \in {"new", "download", "webp", "upload webp"} => result = {}
  /\ at \in {"webp", "upload webp", "image", "upload cover"} => type = "video"
  /\ at \in {"blur", "upload blur"} => type \in {"image", "video"}
  /\ at \in {"image", "upload cover"} => result = {"webp"}
  /\ at = "blur" => result = IF type = "video" THEN {"webp"} ELSE {}
  /\ at = "upload blur" => result = IF type = "video" THEN {"webp", "cover"} ELSE {}
  /\ at \in {"post", "answered"} => result = Wanted[type]

\* The temporary files there may be at each step, and what they are.
FilesOf(at, type, files) ==
  /\ at \in {"new"} \cup C!Steps =>
       /\ \A f \in C!Files : files[f] \in C!Content \ {"short"}
       /\ files["webp"] # "none" => at = "upload webp"
       /\ files["cover"] # "none" => at \in {"blur", "upload cover"} /\ type = "video"
       /\ files["blur"] # "none" => at \in {"upload cover", "upload blur"}
  /\ at = "answered" => \A f \in C!Files : files[f] = "none"

CoverOK(j) ==
  /\ ResultOf(cover[j].at, cover[j].type, cover[j].result)
  /\ FilesOf(cover[j].at, cover[j].type, cover[j].files)
  /\ \A f \in cover[j].result : bucket[<<cover[j].key, f>>] # "none"

\* The statuses of an rsync job so far are true, and a file that will not be
\* removed has status 0.
RsyncOK(j) ==
  /\ Len(rsync[j].status) <= Len(rsync[j].keys)
  /\ rsync[j].at \in {"get", "put"} => Len(rsync[j].status) < Len(rsync[j].keys)
  /\ rsync[j].at = "put" => rsync[j].got \notin {"none", "short"}
  /\ rsync[j].at = "answered" => Len(rsync[j].status) = Len(rsync[j].keys)
  /\ \A i \in 1 .. Len(rsync[j].status) :
       rsync[j].status[i] = 1 => bucket[<<rsync[j].keys[i], "file">>] # "none"
  /\ rsync[j].at # "lost" => \A i \in rsync[j].files :
       i \in rsync[j].deferred \/ (i \in 1 .. Len(rsync[j].status) /\ rsync[j].status[i] = 0)
  /\ rsync[j].at \in {"new", "answered", "failed"} => rsync[j].deferred = {}

NotShort == \A o \in C!Objects : bucket[o] # "short"

IInv ==
  /\ TypeOK
  /\ NotShort
  /\ \A j \in Covers : CoverOK(j)
  /\ \A j \in Syncs : RsyncOK(j)

\* What either worker does to the bucket: no object goes, and none is short.
BucketGrows ==
  /\ bucket' \in [C!Objects -> C!Content]
  /\ \A o \in C!Objects : bucket'[o] # "short" /\ (bucket[o] # "none" => bucket'[o] # "none")

\* What a step of cover job j keeps.
CoverStep(j) ==
  /\ C!TypeOK' /\ BucketGrows /\ CoverOK(j)'
  /\ \A k \in Covers : k # j => cover'[k] = cover[k]

CoverRecord ==
  [at : {"new"} \cup C!Steps \cup C!Ended, type : C!Types, key : Keys,
   files : [C!Files -> C!Content \cup {"left"}], result : SUBSET C!Pictures]

-----------------------------------------------------------------------------
(* The bucket. *)

LEMMA NoBucketStep ==
  ASSUME TypeOK, NotShort, UNCHANGED bucket
  PROVE  BucketGrows
BY DEF TypeOK, C!TypeOK, NotShort, BucketGrows

\* What an upload puts into the bucket has content, and is not short if its file
\* was not.
LEMMA UploadedContent ==
  ASSUME NEW c \in C!Content, c \notin {"none", "short"}, NEW d \in C!Uploaded(c)
  PROVE  d \in C!Content /\ d \notin {"none", "short"}
BY DEF C!Content, C!Uploaded, C!NoBytes

LEMMA BucketPut ==
  ASSUME TypeOK, NotShort, NEW o \in C!Objects, NEW d \in C!Content \ {"none", "short"},
         bucket' = [bucket EXCEPT ![o] = d]
  PROVE  BucketGrows /\ bucket'[o] # "none"
BY DEF TypeOK, C!TypeOK, NotShort, BucketGrows

-----------------------------------------------------------------------------
(* The cover worker. *)

LEMMA CoverTyped ==
  ASSUME IInv
  PROVE  C!TypeOK /\ cover \in [Covers -> CoverRecord] /\ NotShort
BY DEF IInv, TypeOK, C!TypeOK, CoverRecord

LEMMA Running ==
  ASSUME IInv, NEW j \in Covers, C!Runs(j)
  PROVE  /\ cover[j].files \in [C!Files -> C!Content \cup {"left"}]
         /\ cover[j].type \in C!Types /\ cover[j].key \in Keys
         /\ \A f \in C!Files : cover[j].files[f] \in C!Content \ {"short"}
         /\ ResultOf(cover[j].at, cover[j].type, cover[j].result)
         /\ FilesOf(cover[j].at, cover[j].type, cover[j].files)
<1>1. cover[j] \in CoverRecord
  BY CoverTyped
<1>2. CoverOK(j)
  BY DEF IInv
<1> QED
  BY <1>1, <1>2 DEF CoverRecord, CoverOK, FilesOf, C!Runs

\* The fields of a job after a step that goes on.
LEMMA GoOnFields ==
  ASSUME cover \in [Covers -> CoverRecord], NEW j \in Covers, NEW f \in C!Files,
         NEW c \in C!Content, C!GoOn(j, f, c), C!Then(j) \in C!Steps
  PROVE  /\ cover' \in [Covers -> CoverRecord]
         /\ \A k \in Covers : k # j => cover'[k] = cover[k]
         /\ cover'[j].at = C!Then(j)
         /\ cover'[j].files = [cover[j].files EXCEPT ![f] = c]
         /\ cover'[j].type = cover[j].type
         /\ cover'[j].key = cover[j].key
         /\ cover'[j].result = cover[j].result
<1>1. cover' \in [Covers -> CoverRecord]
  <2> DEFINE files == [cover[j].files EXCEPT ![f] = c]
             r == [cover[j] EXCEPT !.at = C!Then(j), !.files = files]
  <2>1. files \in [C!Files -> C!Content \cup {"left"}]
    BY DEF CoverRecord
  <2>2. cover' = [cover EXCEPT ![j] = r]
    BY DEF C!GoOn, CoverRecord
  <2>3. r \in CoverRecord
    <3> HIDE DEF files
    <3> QED
      BY <2>1 DEF CoverRecord
  <2> HIDE DEF r
  <2> QED
    BY <2>2, <2>3
<1>2. \A k \in Covers : k # j => cover'[k] = cover[k]
  BY DEF C!GoOn, CoverRecord
<1> QED
  BY <1>1, <1>2 DEF C!GoOn, CoverRecord

\* A step that made c of file f and goes on, the bucket as it was.
LEMMA GoOnStep ==
  ASSUME IInv, NEW j \in Covers, NEW f \in C!Files, NEW c \in C!Content \ {"short"},
         UNCHANGED bucket, C!GoOn(j, f, c), C!Then(j) \in C!Steps,
         ResultOf(C!Then(j), cover[j].type, cover[j].result),
         FilesOf(C!Then(j), cover[j].type, [cover[j].files EXCEPT ![f] = c])
  PROVE  CoverStep(j)
<1>1. BucketGrows
  BY NoBucketStep DEF IInv
<1>2. /\ cover' \in [Covers -> CoverRecord]
      /\ \A k \in Covers : k # j => cover'[k] = cover[k]
      /\ cover'[j].at = C!Then(j)
      /\ cover'[j].files = [cover[j].files EXCEPT ![f] = c]
      /\ cover'[j].type = cover[j].type
      /\ cover'[j].key = cover[j].key
      /\ cover'[j].result = cover[j].result
  BY CoverTyped, GoOnFields
<1>3. C!TypeOK'
  BY <1>1, <1>2 DEF C!TypeOK, CoverRecord, BucketGrows
<1>4. CoverOK(j)'
  BY <1>2 DEF CoverOK, IInv
<1> QED
  BY <1>1, <1>2, <1>3, <1>4 DEF CoverStep

\* A step after which the job has failed.
LEMMA FailedStep ==
  ASSUME IInv, NEW j \in Covers, NEW files \in [C!Files -> C!Content \cup {"left"}],
         BucketGrows,
         cover' = [cover EXCEPT ![j].at = "failed", ![j].result = {}, ![j].files = files]
  PROVE  CoverStep(j)
<1>1. cover \in [Covers -> CoverRecord]
  BY CoverTyped
<1>2. cover' \in [Covers -> CoverRecord]
  <2> DEFINE r == [cover[j] EXCEPT !.at = "failed", !.result = {}, !.files = files]
  <2>1. "failed" \in {"new"} \cup C!Steps \cup C!Ended
    BY DEF C!Ended
  <2>2. r \in CoverRecord
    BY <1>1, <2>1 DEF CoverRecord
  <2>3. cover' = [cover EXCEPT ![j] = r]
    BY <1>1 DEF CoverRecord
  <2> HIDE DEF r
  <2> QED
    BY <1>1, <2>2, <2>3
<1>3. /\ \A k \in Covers : k # j => cover'[k] = cover[k]
      /\ cover'[j].at = "failed"
      /\ cover'[j].result = {}
  BY <1>1 DEF CoverRecord
<1>4. C!TypeOK'
  BY <1>2 DEF C!TypeOK, CoverRecord, BucketGrows
<1>5. CoverOK(j)'
  BY <1>3 DEF CoverOK, ResultOf, FilesOf, C!Steps
<1> QED
  BY <1>3, <1>4, <1>5 DEF CoverStep

LEMMA FailStep ==
  ASSUME IInv, NEW j \in Covers, NEW f \in C!Files, NEW c \in C!Content \cup {"left"},
         BucketGrows, C!Fail(j, f, c)
  PROVE  CoverStep(j)
<1> DEFINE files == C!Leave([cover[j].files EXCEPT ![f] = c, !["file"] = "none"])
<1>1. files \in [C!Files -> C!Content \cup {"left"}]
  BY DEF C!Leave, C!Content
<1>2. cover' = [cover EXCEPT ![j].at = "failed", ![j].result = {}, ![j].files = files]
  BY CoverTyped DEF C!Fail, CoverRecord
<1> QED
  BY <1>1, <1>2, FailedStep

LEMMA AcceptStep ==
  ASSUME IInv, NEW j \in Covers, C!Accept(j)
  PROVE  CoverStep(j)
<1>1. BucketGrows
  BY NoBucketStep DEF IInv, C!Accept
<1>2. cover \in [Covers -> CoverRecord] /\ CoverOK(j) /\ cover[j].at = "new"
  BY CoverTyped DEF IInv, C!Accept, C!At
<1>3. PICK at \in {"download", "failed"} : cover' = [cover EXCEPT ![j].at = at]
  BY DEF C!Accept
<1>4. cover' \in [Covers -> CoverRecord]
  <2> DEFINE r == [cover[j] EXCEPT !.at = at]
  <2>1. at \in {"new"} \cup C!Steps \cup C!Ended
    BY DEF C!Steps, C!Ended
  <2>2. r \in CoverRecord
    BY <1>2, <2>1 DEF CoverRecord
  <2>3. cover' = [cover EXCEPT ![j] = r]
    BY <1>2, <1>3 DEF CoverRecord
  <2> HIDE DEF r
  <2> QED
    BY <1>2, <2>2, <2>3
<1>5. /\ \A k \in Covers : k # j => cover'[k] = cover[k]
      /\ cover'[j].at = at /\ cover'[j].key = cover[j].key /\ cover'[j].type = cover[j].type
      /\ cover'[j].files = cover[j].files /\ cover'[j].result = cover[j].result
  BY <1>2, <1>3 DEF CoverRecord
<1>6. C!TypeOK'
  BY <1>1, <1>4 DEF C!TypeOK, CoverRecord, BucketGrows
<1>7. ResultOf(at, cover[j].type, cover[j].result) /\ FilesOf(at, cover[j].type, cover[j].files)
  BY <1>2 DEF CoverOK, ResultOf, FilesOf, C!Steps
<1>8. \A g \in cover[j].result : FALSE
  BY <1>2 DEF CoverOK, ResultOf
<1>9. CoverOK(j)'
  BY <1>5, <1>7, <1>8 DEF CoverOK
<1> QED
  BY <1>1, <1>5, <1>6, <1>9 DEF CoverStep

LEMMA downloadFileStep ==
  ASSUME IInv, NEW j \in Covers, C!downloadFile(j)
  PROVE  CoverStep(j)
<1> DEFINE c == bucket[<<cover[j].key, "file">>]
           files == [cover[j].files EXCEPT !["file"] = c]
<1>1. C!Runs(j) /\ cover[j].at = "download" /\ UNCHANGED bucket /\ "file" \in C!Files
  BY DEF C!downloadFile, C!At, C!Runs, C!Steps, C!Files
<1>2. /\ cover[j].files \in [C!Files -> C!Content \cup {"left"}]
      /\ cover[j].type \in C!Types /\ cover[j].key \in Keys
      /\ ResultOf(cover[j].at, cover[j].type, cover[j].result)
      /\ FilesOf(cover[j].at, cover[j].type, cover[j].files)
  BY <1>1, Running
<1>3. CASE C!GoOn(j, "file", c)
  <2>1. c \in C!Content \ {"short"}
    <3>1. <<cover[j].key, "file">> \in C!Objects
      BY <1>1, <1>2 DEF C!Objects
    <3> QED
      BY <3>1, CoverTyped DEF NotShort, C!TypeOK
  <2>2. C!Then(j) = [image |-> "blur", video |-> "webp", other |-> "post"][cover[j].type]
    BY <1>1 DEF C!Then, C!At
  <2>3. /\ cover[j].type = "image" => C!Then(j) = "blur"
        /\ cover[j].type = "video" => C!Then(j) = "webp"
        /\ cover[j].type = "other" => C!Then(j) = "post"
        /\ C!Then(j) \in {"blur", "webp", "post"}
    BY <1>2, <2>2 DEF C!Types
  <2>4. ResultOf(C!Then(j), cover[j].type, cover[j].result)
    <3>1. cover[j].result = {}
      BY <1>1, <1>2 DEF ResultOf
    <3>2. cover[j].type = "other" => Wanted[cover[j].type] = {}
      BY DEF Wanted
    <3> QED
      BY <1>2, <2>3, <3>1, <3>2 DEF ResultOf, C!Types
  <2>5. FilesOf(C!Then(j), cover[j].type, files)
    <3>1. \A g \in C!Files : files[g] \in C!Content \ {"short"}
      BY <1>1, <1>2, <2>1 DEF FilesOf, C!Steps
    <3>2. \A g \in {"webp", "cover", "blur"} : files[g] = "none"
      BY <1>1, <1>2 DEF FilesOf, C!Steps, C!Files, C!Pictures
    <3> QED
      BY <2>3, <3>1, <3>2 DEF FilesOf
  <2>6. C!Then(j) \in C!Steps
    BY <2>3 DEF C!Steps
  <2> HIDE DEF c
  <2> QED
    BY <1>1, <1>3, <2>1, <2>4, <2>5, <2>6, GoOnStep
<1>4. CASE cover' = [cover EXCEPT ![j].at = "failed", ![j].files["file"] = "left"]
  <2> DEFINE left == [cover[j].files EXCEPT !["file"] = "left"]
  <2>1. cover' = [cover EXCEPT ![j].at = "failed", ![j].result = {}, ![j].files = left]
    <3>1. cover[j].result = {}
      BY <1>1, CoverTyped DEF IInv, CoverOK, ResultOf
    <3> QED
      BY <1>4, <3>1, CoverTyped DEF CoverRecord
  <2>2. left \in [C!Files -> C!Content \cup {"left"}]
    BY <1>2
  <2>3. BucketGrows
    BY <1>1, CoverTyped, NoBucketStep DEF IInv
  <2> HIDE DEF left
  <2> QED
    BY <2>1, <2>2, <2>3, FailedStep
<1> QED
  BY <1>3, <1>4 DEF C!downloadFile

\* A tool's step: it makes out and the handler goes on, or it fails.
LEMMA ConvertStep ==
  ASSUME IInv, NEW j \in Covers, NEW in \in C!Files, NEW out \in C!Files, C!Runs(j),
         C!Convert(j, in, out), C!Then(j) \in C!Steps,
         ResultOf(C!Then(j), cover[j].type, cover[j].result),
         \A c \in C!Content \ {"short"} :
           FilesOf(C!Then(j), cover[j].type, [cover[j].files EXCEPT ![out] = c])
  PROVE  CoverStep(j)
<1>1. UNCHANGED bucket /\ BucketGrows
  BY NoBucketStep DEF IInv, C!Convert
<1>2. CASE C!GoOn(j, out, cover[j].files[in])
  <2>1. cover[j].files[in] \in C!Content \ {"short"}
    BY Running
  <2> QED
    BY <1>1, <1>2, <2>1, GoOnStep
<1>3. CASE C!GoOn(j, out, "empty")
  <2>1. "empty" \in C!Content \ {"short"}
    BY DEF C!Content
  <2> QED
    BY <1>1, <1>3, <2>1, GoOnStep
<1>4. CASE \E left \in {"none", "left"} : C!Fail(j, out, left)
  BY <1>1, <1>4, FailStep DEF C!Content
<1> QED
  BY <1>2, <1>3, <1>4 DEF C!Convert

\* A new picture that the next step looks for keeps the files as FilesOf has them.
LEMMA NewPicture ==
  ASSUME IInv, NEW j \in Covers, C!Runs(j), NEW f \in C!Pictures, NEW at \in C!Steps,
         NEW c \in C!Content \ {"short"},
         f = "webp" => at = "upload webp",
         f = "cover" => at \in {"blur", "upload cover"} /\ cover[j].type = "video",
         f = "blur" => at \in {"upload cover", "upload blur"},
         cover[j].files["webp"] # "none" => at = "upload webp",
         cover[j].files["cover"] # "none" =>
           at \in {"blur", "upload cover"} /\ cover[j].type = "video",
         cover[j].files["blur"] # "none" => at \in {"upload cover", "upload blur"}
  PROVE  FilesOf(at, cover[j].type, [cover[j].files EXCEPT ![f] = c])
<1> DEFINE files == [cover[j].files EXCEPT ![f] = c]
<1>1. \A g \in C!Files : cover[j].files[g] \in C!Content \ {"short"}
  BY Running
<1>2. f \in C!Files /\ cover[j].files \in [C!Files -> C!Content \cup {"left"}]
  BY Running DEF C!Files
<1>3. files[f] = c /\ \A g \in C!Files : g # f => files[g] = cover[j].files[g]
  BY <1>2
<1>4. \A g \in C!Files : files[g] \in C!Content \ {"short"}
  BY <1>1, <1>3
<1>5. {"webp", "cover", "blur"} \subseteq C!Files /\ at # "answered"
  BY DEF C!Files, C!Pictures, C!Steps
<1> HIDE DEF files
<1>6. FilesOf(at, cover[j].type, files)
  BY <1>3, <1>4, <1>5 DEF FilesOf
<1> QED
  BY <1>6 DEF files

LEMMA videoToImageStep ==
  ASSUME IInv, NEW j \in Covers, C!videoToImage(j)
  PROVE  CoverStep(j)
<1>1. /\ C!Runs(j) /\ cover[j].at = "image" /\ C!Convert(j, "file", "cover")
      /\ C!Then(j) = "blur" /\ C!Then(j) \in C!Steps
  BY DEF C!videoToImage, C!At, C!Runs, C!Then, C!Steps
<1>2. /\ ResultOf(cover[j].at, cover[j].type, cover[j].result)
      /\ FilesOf(cover[j].at, cover[j].type, cover[j].files)
  BY <1>1, Running
<1>3. ResultOf(C!Then(j), cover[j].type, cover[j].result)
  BY <1>1, <1>2 DEF ResultOf
<1>4. \A c \in C!Content \ {"short"} :
        FilesOf(C!Then(j), cover[j].type, [cover[j].files EXCEPT !["cover"] = c])
  BY <1>1, <1>2, NewPicture DEF FilesOf, ResultOf, C!Pictures, C!Steps
<1> QED
  BY <1>1, <1>3, <1>4, ConvertStep DEF C!Files, C!Pictures

LEMMA imageBlurStep ==
  ASSUME IInv, NEW j \in Covers, C!imageBlur(j)
  PROVE  CoverStep(j)
<1> DEFINE in == IF cover[j].type = "video" THEN "cover" ELSE "file"
<1>1. /\ C!Runs(j) /\ cover[j].at = "blur" /\ C!Convert(j, in, "blur") /\ in \in C!Files
      /\ C!Then(j) = IF cover[j].type = "video" THEN "upload cover" ELSE "upload blur"
      /\ C!Then(j) \in C!Steps
  BY DEF C!imageBlur, C!At, C!Runs, C!Then, C!Steps, C!Files, C!Pictures
<1>2. /\ ResultOf(cover[j].at, cover[j].type, cover[j].result)
      /\ FilesOf(cover[j].at, cover[j].type, cover[j].files)
  BY <1>1, Running
<1>3. ResultOf(C!Then(j), cover[j].type, cover[j].result)
  BY <1>1, <1>2 DEF ResultOf
<1>4. /\ cover[j].files["webp"] = "none" /\ cover[j].files["blur"] = "none"
      /\ cover[j].files["cover"] # "none" => cover[j].type = "video"
  BY <1>1, <1>2 DEF FilesOf, C!Steps
<1>5. \A c \in C!Content \ {"short"} :
        FilesOf(C!Then(j), cover[j].type, [cover[j].files EXCEPT !["blur"] = c])
  <2>1. "blur" \in C!Pictures
    BY DEF C!Pictures
  <2> QED
    BY <1>1, <1>4, <2>1, NewPicture
<1> HIDE DEF in
<1> QED
  BY <1>1, <1>3, <1>5, ConvertStep DEF C!Files, C!Pictures

LEMMA videoToWebpStep ==
  ASSUME IInv, NEW j \in Covers, C!videoToWebp(j)
  PROVE  CoverStep(j)
<1>1. /\ C!Runs(j) /\ cover[j].at = "webp" /\ UNCHANGED bucket
      /\ C!Then(j) = "upload webp" /\ C!Then(j) \in C!Steps
  BY DEF C!videoToWebp, C!At, C!Runs, C!Then, C!Steps
<1>2. "file" \in C!Files /\ "webp" \in C!Files /\ "webp" \in C!Pictures
  BY DEF C!Files, C!Pictures
<1>3. /\ ResultOf(cover[j].at, cover[j].type, cover[j].result)
      /\ FilesOf(cover[j].at, cover[j].type, cover[j].files)
      /\ \A f \in C!Files : cover[j].files[f] \in C!Content \ {"short"}
  BY <1>1, Running
<1>4. ResultOf(C!Then(j), cover[j].type, cover[j].result)
  BY <1>1, <1>3 DEF ResultOf
<1>5. ASSUME NEW c \in C!Content \ {"short"}, C!GoOn(j, "webp", c)
      PROVE  CoverStep(j)
  <2>1. cover[j].files["cover"] = "none" /\ cover[j].files["blur"] = "none"
    BY <1>1, <1>3 DEF FilesOf, C!Steps
  <2>2. FilesOf(C!Then(j), cover[j].type, [cover[j].files EXCEPT !["webp"] = c])
    BY <1>1, <1>2, <2>1, NewPicture
  <2> QED
    BY <1>1, <1>2, <1>4, <1>5, <2>2, GoOnStep
<1>6. CASE C!GoOn(j, "webp", cover[j].files["file"])
  BY <1>2, <1>3, <1>5, <1>6
<1>7. CASE C!GoOn(j, "webp", "none")
  BY <1>5, <1>7 DEF C!Content
<1>8. CASE \E left \in {"none", "left"} : C!Fail(j, "webp", left)
  <2>1. BucketGrows
    BY <1>1, CoverTyped, NoBucketStep DEF IInv
  <2> QED
    BY <1>2, <1>8, <2>1, FailStep DEF C!Content
<1> QED
  BY <1>6, <1>7, <1>8 DEF C!videoToWebp

\* What an upload does to the bucket.
LEMMA PutStep ==
  ASSUME IInv, NEW j \in Covers, C!Runs(j), NEW f \in C!Files, cover[j].files[f] # "none",
         C!Put(j, f)
  PROVE  BucketGrows /\ bucket'[<<cover[j].key, f>>] # "none"
<1>1. PICK d \in C!Uploaded(cover[j].files[f]) :
        bucket' = [bucket EXCEPT ![<<cover[j].key, f>>] = d]
  BY DEF C!Put
<1>2. cover[j].files[f] \in C!Content \ {"short"} /\ cover[j].key \in Keys
  BY Running
<1>3. d \in C!Content \ {"none", "short"}
  BY <1>2, UploadedContent
<1>4. <<cover[j].key, f>> \in C!Objects
  BY <1>2 DEF C!Objects
<1> QED
  BY <1>1, <1>3, <1>4, BucketPut DEF IInv

\* Job j is at the upload of picture f.
UploadOf(j, f) ==
  \/ cover[j].at = "upload webp" /\ f = "webp"
  \/ cover[j].at = "upload cover" /\ f = "cover"
  \/ cover[j].at = "upload blur" /\ f = "blur"

LEMMA UploadDoneStep ==
  ASSUME IInv, NEW j \in Covers, NEW f \in C!Pictures, cover[j].files[f] # "none",
         UploadOf(j, f), C!UploadDone(j, f)
  PROVE  CoverStep(j)
<1> DEFINE files == [cover[j].files EXCEPT ![f] = "none"]
           result == cover[j].result \cup {f}
<1>1. /\ f = "webp" => cover[j].at = "upload webp" /\ C!Then(j) = "image"
      /\ f = "cover" => cover[j].at = "upload cover" /\ C!Then(j) = "upload blur"
      /\ f = "blur" => cover[j].at = "upload blur" /\ C!Then(j) = "post"
      /\ f \in {"webp", "cover", "blur"}
  BY DEF UploadOf, C!Pictures, C!Then, C!At
<1>2. C!Runs(j) /\ C!Then(j) \in C!Steps /\ f \in C!Files
  BY <1>1 DEF C!Runs, C!Steps, C!Files
<1>3. BucketGrows /\ bucket'[<<cover[j].key, f>>] # "none"
  BY <1>2, PutStep DEF C!UploadDone
<1>4. /\ cover[j].files \in [C!Files -> C!Content \cup {"left"}]
      /\ cover[j].type \in C!Types
      /\ \A g \in C!Files : cover[j].files[g] \in C!Content \ {"short"}
      /\ ResultOf(cover[j].at, cover[j].type, cover[j].result)
      /\ FilesOf(cover[j].at, cover[j].type, cover[j].files)
  BY <1>2, Running
<1>5. cover \in [Covers -> CoverRecord]
  BY CoverTyped
<1>6. cover' = [cover EXCEPT ![j].at = C!Then(j), ![j].files = files, ![j].result = result]
  <2>1. cover' = [cover EXCEPT ![j].at = C!Then(j), ![j].files[f] = "none",
                               ![j].result = @ \cup {f}]
    BY DEF C!UploadDone
  <2> QED
    BY <1>5, <2>1 DEF CoverRecord
<1>7. files \in [C!Files -> C!Content \cup {"left"}] /\ result \subseteq C!Pictures
  BY <1>4, <1>5 DEF C!Content, CoverRecord
<1>8. ResultOf(C!Then(j), cover[j].type, result)
  <2>1. Wanted["video"] = {"webp", "cover", "blur"} /\ Wanted["image"] = {"blur"}
    BY DEF Wanted
  <2>2. CASE f = "webp"
    BY <1>1, <1>4, <2>2 DEF ResultOf
  <2>3. CASE f = "cover"
    BY <1>1, <1>4, <2>3 DEF ResultOf
  <2>4. CASE f = "blur"
    BY <1>1, <1>4, <2>1, <2>4 DEF ResultOf
  <2> QED
    BY <1>1, <2>2, <2>3, <2>4
<1>9. FilesOf(C!Then(j), cover[j].type, files)
  <2>1. "none" \in C!Content \ {"short"}
    BY DEF C!Content
  <2>2. \A g \in C!Files : files[g] \in C!Content \ {"short"}
    BY <1>4, <2>1
  <2>3. {"webp", "cover", "blur"} \subseteq C!Files
    BY DEF C!Files, C!Pictures
  <2>4. files[f] = "none" /\ \A g \in C!Files : g # f => files[g] = cover[j].files[g]
    BY <1>2, <1>4
  <2> HIDE DEF files
  <2> QED
    BY <1>1, <1>4, <2>2, <2>3, <2>4 DEF FilesOf, C!Steps
<1> HIDE DEF files, result
<1>10. cover' \in [Covers -> CoverRecord]
  <2>1. C!Then(j) \in {"new"} \cup C!Steps \cup C!Ended /\ result \in SUBSET C!Pictures
    BY <1>2, <1>7
  <2> DEFINE r == [cover[j] EXCEPT !.at = C!Then(j), !.files = files, !.result = result]
  <2>2. r \in CoverRecord
    BY <1>5, <1>7, <2>1 DEF CoverRecord
  <2>3. cover' = [cover EXCEPT ![j] = r]
    BY <1>5, <1>6 DEF CoverRecord
  <2> HIDE DEF r
  <2> QED
    BY <1>5, <2>2, <2>3
<1>11. /\ \A k \in Covers : k # j => cover'[k] = cover[k]
       /\ cover'[j].at = C!Then(j) /\ cover'[j].files = files
       /\ cover'[j].result = result
       /\ cover'[j].type = cover[j].type /\ cover'[j].key = cover[j].key
  BY <1>5, <1>6 DEF CoverRecord
<1>12. \A g \in result : bucket'[<<cover[j].key, g>>] # "none"
  <2>1. \A g \in cover[j].result : <<cover[j].key, g>> \in C!Objects
    BY <1>5 DEF CoverRecord, C!Objects, C!Files
  <2>2. \A g \in cover[j].result : bucket[<<cover[j].key, g>>] # "none"
    BY DEF IInv, CoverOK
  <2> QED
    BY <1>3, <2>1, <2>2 DEF BucketGrows, result
<1>13. C!TypeOK'
  BY <1>3, <1>10 DEF C!TypeOK, CoverRecord, BucketGrows
<1>14. CoverOK(j)'
  BY <1>8, <1>9, <1>11, <1>12 DEF CoverOK
<1> QED
  BY <1>3, <1>11, <1>13, <1>14 DEF CoverStep

LEMMA UploadStep ==
  ASSUME IInv, NEW j \in Covers, C!Upload(j)
  PROVE  CoverStep(j)
<1>1. PICK f \in C!Pictures :
        UploadOf(j, f) /\ C!uploadFile(j, f)
  BY DEF UploadOf, C!Upload, C!At, C!Pictures
<1>2. C!Runs(j) /\ f \in C!Files
  BY <1>1 DEF UploadOf, C!Files, C!Runs, C!Steps
<1>3. cover[j].files[f] \in C!Content \cup {"left"}
  BY <1>2, Running
<1>4. CASE cover[j].files[f] # "none" /\ C!UploadDone(j, f)
  BY <1>1, <1>4, UploadDoneStep
<1>5. CASE cover[j].files[f] # "none" /\ C!Put(j, f) /\ C!Fail(j, f, cover[j].files[f])
  BY <1>2, <1>3, <1>5, PutStep, FailStep
<1>6. CASE C!Fail(j, f, cover[j].files[f]) /\ UNCHANGED bucket
  BY <1>2, <1>3, <1>6, CoverTyped, NoBucketStep, FailStep DEF IInv
<1> QED
  BY <1>1, <1>4, <1>5, <1>6 DEF C!uploadFile

LEMMA PostStep ==
  ASSUME IInv, NEW j \in Covers, C!Post(j)
  PROVE  CoverStep(j)
<1> DEFINE files == [cover[j].files EXCEPT !["file"] = "none"]
<1>1. C!Runs(j) /\ cover[j].at = "post" /\ UNCHANGED bucket
  BY DEF C!Post, C!At, C!Runs, C!Steps
<1>2. BucketGrows /\ cover \in [Covers -> CoverRecord] /\ CoverOK(j)
  BY <1>1, CoverTyped, NoBucketStep DEF IInv
<1>3. /\ cover[j].files \in [C!Files -> C!Content \cup {"left"}]
      /\ ResultOf(cover[j].at, cover[j].type, cover[j].result)
      /\ FilesOf(cover[j].at, cover[j].type, cover[j].files)
  BY <1>1, Running
<1>4. PICK at \in {"answered", "failed"} :
        cover' = [cover EXCEPT ![j].at = at, ![j].files["file"] = "none"]
  BY DEF C!Post
<1>5. cover' = [cover EXCEPT ![j].at = at, ![j].files = files]
  BY <1>2, <1>4 DEF CoverRecord
<1>6. files \in [C!Files -> C!Content \cup {"left"}]
  BY <1>3 DEF C!Content
<1>7. at = "answered" => \A f \in C!Files : files[f] = "none"
  <2>1. \A f \in {"webp", "cover", "blur"} : cover[j].files[f] = "none"
    BY <1>1, <1>3 DEF FilesOf, C!Steps
  <2> QED
    BY <1>3, <2>1 DEF C!Files, C!Pictures
<1> HIDE DEF files
<1>8. cover' \in [Covers -> CoverRecord]
  <2>1. at \in {"new"} \cup C!Steps \cup C!Ended
    BY DEF C!Ended
  <2> DEFINE r == [cover[j] EXCEPT !.at = at, !.files = files]
  <2>2. r \in CoverRecord
    BY <1>2, <1>6, <2>1 DEF CoverRecord
  <2>3. cover' = [cover EXCEPT ![j] = r]
    BY <1>2, <1>5 DEF CoverRecord
  <2> HIDE DEF r
  <2> QED
    BY <1>2, <2>2, <2>3
<1>9. /\ \A k \in Covers : k # j => cover'[k] = cover[k]
      /\ cover'[j].at = at /\ cover'[j].files = files
      /\ cover'[j].type = cover[j].type /\ cover'[j].key = cover[j].key
      /\ cover'[j].result = cover[j].result
  BY <1>2, <1>5 DEF CoverRecord
<1>10. ResultOf(at, cover[j].type, cover[j].result) /\ FilesOf(at, cover[j].type, files)
  BY <1>1, <1>3, <1>7 DEF ResultOf, FilesOf, C!Steps
<1>11. CoverOK(j)'
  BY <1>1, <1>2, <1>9, <1>10 DEF CoverOK
<1>12. C!TypeOK'
  BY <1>2, <1>8 DEF C!TypeOK, CoverRecord, BucketGrows
<1> QED
  BY <1>2, <1>9, <1>11, <1>12 DEF CoverStep

\* Every step of a cover job.
LEMMA HandleStep ==
  ASSUME IInv, NEW j \in Covers, C!Handle(j)
  PROVE  CoverStep(j)
BY AcceptStep, downloadFileStep, videoToWebpStep, videoToImageStep, imageBlurStep,
   UploadStep, PostStep
   DEF C!Handle

\* When the process dies its jobs are lost.
LEMMA CoverCrash ==
  ASSUME IInv, C!Crash
  PROVE  C!TypeOK' /\ BucketGrows /\ \A j \in Covers : CoverOK(j)'
<1> DEFINE Lost(j) ==
      [cover[j] EXCEPT !.at = "lost", !.files = [f \in C!Files |-> "left"], !.result = {}]
<1>1. /\ BucketGrows /\ UNCHANGED bucket /\ cover \in [Covers -> CoverRecord]
      /\ \A j \in Covers : CoverOK(j)
  BY CoverTyped, NoBucketStep DEF IInv, C!Crash
<1>2. cover' = [j \in Covers |-> IF C!Runs(j) THEN Lost(j) ELSE cover[j]]
  BY DEF C!Crash
<1>3. ASSUME NEW j \in Covers
      PROVE  cover'[j] \in CoverRecord /\ CoverOK(j)'
  <2>1. CASE C!Runs(j)
    <3>1. cover'[j] = Lost(j)
      BY <1>2, <2>1
    <3>2. [f \in C!Files |-> "left"] \in [C!Files -> C!Content \cup {"left"}]
      OBVIOUS
    <3>3. cover'[j].at = "lost" /\ cover'[j].result = {}
      BY <1>1, <3>1 DEF CoverRecord
    <3>4. cover'[j] \in CoverRecord
      BY <1>1, <3>1, <3>2 DEF CoverRecord, C!Ended
    <3>5. CoverOK(j)'
      <4>1. ResultOf(cover[j].at, cover[j].type, cover[j].result)'
        BY <3>3 DEF ResultOf
      <4>2. FilesOf(cover[j].at, cover[j].type, cover[j].files)'
        BY <3>3 DEF FilesOf, C!Steps
      <4> QED
        BY <3>3, <4>1, <4>2 DEF CoverOK
    <3> QED
      BY <3>4, <3>5
  <2>2. CASE ~C!Runs(j)
    <3>1. cover'[j] = cover[j]
      BY <1>2, <2>2
    <3> QED
      BY <1>1, <3>1 DEF CoverOK
  <2> QED
    BY <2>1, <2>2
<1>4. cover' \in [Covers -> CoverRecord]
  BY <1>2, <1>3
<1>5. C!TypeOK'
  BY <1>1, <1>4 DEF C!TypeOK, CoverRecord, BucketGrows
<1> QED
  BY <1>1, <1>3, <1>5

\* A job that a step does not touch keeps its promises while the bucket grows.
LEMMA CoverFrame ==
  ASSUME IInv, BucketGrows, NEW k \in Covers, cover'[k] = cover[k]
  PROVE  CoverOK(k)'
<1>1. CoverOK(k) /\ cover[k] \in CoverRecord
  BY CoverTyped DEF IInv
<1>2. \A g \in cover[k].result : <<cover[k].key, g>> \in C!Objects
  BY <1>1 DEF CoverRecord, C!Objects, C!Files
<1> QED
  BY <1>1, <1>2 DEF CoverOK, BucketGrows

\* Every step of the cover worker.
LEMMA CoverNext ==
  ASSUME IInv, C!Next
  PROVE  C!TypeOK' /\ BucketGrows /\ \A j \in Covers : CoverOK(j)'
<1>1. CASE C!Crash
  BY <1>1, CoverCrash
<1>2. ASSUME NEW j \in Covers, C!Handle(j)
      PROVE  C!TypeOK' /\ BucketGrows /\ \A k \in Covers : CoverOK(k)'
  <2>1. CoverStep(j)
    BY <1>2, HandleStep
  <2> QED
    BY <2>1, CoverFrame DEF CoverStep
<1> QED
  BY <1>1, <1>2 DEF C!Next

-----------------------------------------------------------------------------
(* The rsync worker. *)

RsyncRecord ==
  [at : {"new"} \cup R!Steps \cup R!Ended, keys : R!Lists(Keys), status : R!Lists({0, 1}),
   got : R!Content, files : SUBSET R!Indexes, deferred : SUBSET R!Indexes]

\* A list is a sequence that is not too long.
LEMMA ListIsSeq ==
  ASSUME NEW S, NEW s
  PROVE  s \in R!Lists(S) <=> s \in Seq(S) /\ Len(s) <= MaxResources
<1> USE MediaAssumption
<1>1. ASSUME s \in Seq(S), Len(s) <= MaxResources
      PROVE  s \in R!Lists(S)
  <2>1. s \in [1 .. Len(s) -> S] /\ Len(s) \in 0 .. MaxResources
    BY <1>1, LenProperties
  <2> QED
    BY <2>1 DEF R!Lists
<1>2. ASSUME s \in R!Lists(S)
      PROVE  s \in Seq(S) /\ Len(s) <= MaxResources
  <2>1. PICK n \in 0 .. MaxResources : s \in [1 .. n -> S]
    BY <1>2 DEF R!Lists
  <2>2. s \in Seq(S) /\ Len(s) = n
    BY <2>1, SeqDef, LenProperties
  <2> QED
    BY <2>2
<1> QED
  BY <1>1, <1>2

LEMMA EmptyList ==
  <<>> \in R!Lists({0, 1}) /\ Len(<<>>) = 0
<1>1. <<>> \in Seq({0, 1}) /\ Len(<<>>) = 0
  BY EmptySeq
<1>2. Len(<<>>) <= MaxResources
  BY <1>1, MediaAssumption DEF MediaAssumption
<1> QED
  BY <1>1, <1>2, ListIsSeq

\* What a step of rsync job j keeps.
RsyncStep(j) ==
  /\ rsync' \in [Syncs -> RsyncRecord] /\ BucketGrows /\ RsyncOK(j)'
  /\ \A k \in Syncs : k # j => rsync'[k] = rsync[k]

\* A job of IInv, field by field.
LEMMA RsyncFields ==
  ASSUME IInv, NEW j \in Syncs
  PROVE  /\ rsync \in [Syncs -> RsyncRecord] /\ RsyncOK(j)
         /\ rsync[j].keys \in Seq(Keys) /\ Len(rsync[j].keys) \in Nat
         /\ Len(rsync[j].keys) <= MaxResources
         /\ rsync[j].status \in Seq({0, 1}) /\ Len(rsync[j].status) \in Nat
         /\ rsync[j].got \in R!Content
         /\ rsync[j].files \in SUBSET R!Indexes /\ rsync[j].deferred \in SUBSET R!Indexes
<1>1. rsync \in [Syncs -> RsyncRecord] /\ RsyncOK(j)
  BY DEF IInv, TypeOK, R!TypeOK, RsyncRecord
<1>2. /\ rsync[j].keys \in R!Lists(Keys) /\ rsync[j].status \in R!Lists({0, 1})
      /\ rsync[j].got \in R!Content
      /\ rsync[j].files \in SUBSET R!Indexes /\ rsync[j].deferred \in SUBSET R!Indexes
  BY <1>1 DEF RsyncRecord
<1> QED
  BY <1>1, <1>2, ListIsSeq, LenProperties

\* The objects an rsync job names, and one that is there stays.
LEMMA NamedObject ==
  ASSUME IInv, NEW j \in Syncs, NEW i \in 1 .. Len(rsync[j].keys)
  PROVE  <<rsync[j].keys[i], "file">> \in C!Objects
BY RsyncFields, ElementOfSeq DEF C!Objects, C!Files

\* A resource gets its status: 1 only if its object is there, and 0 if its file
\* will not be removed.
LEMMA AnswerStep ==
  ASSUME IInv, NEW j \in Syncs, NEW s \in {0, 1}, NEW files \in SUBSET R!Indexes,
         NEW deferred \in SUBSET R!Indexes, BucketGrows, R!InTurn(j),
         R!Answer(j, s, files, deferred),
         s = 1 => bucket'[R!Object(j)] # "none",
         \A i \in files :
           \/ i \in deferred
           \/ i \in 1 .. Len(rsync[j].status) /\ rsync[j].status[i] = 0
           \/ i = R!Current(j) /\ s = 0
  PROVE  RsyncStep(j)
<1> DEFINE status == Append(rsync[j].status, s)
           n == Len(rsync[j].status)
<1>1. /\ rsync \in [Syncs -> RsyncRecord] /\ RsyncOK(j)
      /\ rsync[j].keys \in Seq(Keys) /\ Len(rsync[j].keys) \in Nat
      /\ Len(rsync[j].keys) <= MaxResources
      /\ rsync[j].status \in Seq({0, 1}) /\ n \in Nat
  BY RsyncFields
<1>2. /\ status \in Seq({0, 1}) /\ Len(status) = n + 1
      /\ \A i \in 1 .. n : status[i] = rsync[j].status[i]
      /\ status[n + 1] = s
  BY <1>1, AppendProperties
<1>3. n + 1 <= Len(rsync[j].keys)
  BY DEF R!InTurn, R!Current
<1>4. status \in R!Lists({0, 1})
  <2>1. Len(status) <= MaxResources
    BY <1>1, <1>2, <1>3, MediaAssumption DEF MediaAssumption
  <2> HIDE DEF status
  <2> QED
    BY <1>2, <2>1, ListIsSeq
<1>5. rsync' = [rsync EXCEPT ![j].at = "check", ![j].status = status, ![j].got = "none",
                             ![j].files = files, ![j].deferred = deferred]
  BY <1>1 DEF R!Answer, RsyncRecord
<1> HIDE DEF status
<1>6. /\ rsync'[j].at = "check" /\ rsync'[j].keys = rsync[j].keys
      /\ rsync'[j].status = status
      /\ rsync'[j].files = files /\ rsync'[j].deferred = deferred
      /\ \A k \in Syncs : k # j => rsync'[k] = rsync[k]
  BY <1>1, <1>5 DEF RsyncRecord
<1>7. rsync' \in [Syncs -> RsyncRecord]
  <2> DEFINE r == [rsync[j] EXCEPT !.at = "check", !.status = status, !.got = "none",
                                   !.files = files, !.deferred = deferred]
  <2>1. "check" \in {"new"} \cup R!Steps \cup R!Ended /\ "none" \in R!Content
    BY DEF R!Steps, R!Content
  <2>2. r \in RsyncRecord
    BY <1>1, <1>4, <2>1 DEF RsyncRecord
  <2>3. rsync' = [rsync EXCEPT ![j] = r]
    BY <1>1, <1>5 DEF RsyncRecord
  <2> HIDE DEF r
  <2> QED
    BY <1>1, <2>2, <2>3
<1>8. \A i \in 1 .. n + 1 : status[i] = 1 => bucket'[<<rsync[j].keys[i], "file">>] # "none"
  <2>1. \A i \in 1 .. n : status[i] = 1 => bucket'[<<rsync[j].keys[i], "file">>] # "none"
    <3> SUFFICES ASSUME NEW i \in 1 .. n, status[i] = 1
                 PROVE  bucket'[<<rsync[j].keys[i], "file">>] # "none"
      OBVIOUS
    <3>1. i \in 1 .. Len(rsync[j].keys)
      BY <1>1, <1>3
    <3>2. <<rsync[j].keys[i], "file">> \in C!Objects
      BY <3>1, NamedObject
    <3>3. bucket[<<rsync[j].keys[i], "file">>] # "none"
      BY <1>1, <1>2 DEF RsyncOK
    <3> QED
      BY <3>2, <3>3 DEF BucketGrows
  <2>2. s = 1 => bucket'[<<rsync[j].keys[n + 1], "file">>] # "none"
    BY DEF R!Object, R!Current
  <2> QED
    <3>1. \A i \in 1 .. n + 1 : i \in 1 .. n \/ i = n + 1
      BY <1>1
    <3> HIDE DEF n
    <3> QED
      BY <1>2, <2>1, <2>2, <3>1
<1>9. \A i \in files : i \in deferred \/ (i \in 1 .. n + 1 /\ status[i] = 0)
  BY <1>1, <1>2 DEF R!Current
<1>10. RsyncOK(j)'
  BY <1>1, <1>2, <1>3, <1>6, <1>8, <1>9 DEF RsyncOK
<1> QED
  BY <1>6, <1>7, <1>10 DEF RsyncStep

\* A step that moves on within a resource: the statuses stay.
Moves(j, at, got, files, deferred) ==
  /\ UNCHANGED bucket
  /\ rsync' = [rsync EXCEPT ![j].at = at, ![j].got = got, ![j].files = files,
                            ![j].deferred = deferred]
  /\ at \in {"new"} \cup R!Steps \cup R!Ended /\ got \in R!Content
  /\ files \in SUBSET R!Indexes /\ deferred \in SUBSET R!Indexes
  /\ at \in {"get", "put"} => R!InTurn(j)
  /\ at = "put" => got \notin {"none", "short"}
  /\ at = "answered" => ~R!InTurn(j)
  /\ at \in {"new", "answered", "failed"} => deferred = {}
  /\ \A i \in files :
       i \in deferred \/ (i \in 1 .. Len(rsync[j].status) /\ rsync[j].status[i] = 0)

LEMMA MoveStep ==
  ASSUME IInv, NEW j \in Syncs, NEW at, NEW got, NEW files, NEW deferred,
         Moves(j, at, got, files, deferred)
  PROVE  RsyncStep(j)
<1> USE DEF Moves
<1> DEFINE r == [rsync[j] EXCEPT !.at = at, !.got = got, !.files = files, !.deferred = deferred]
<1>1. BucketGrows
  BY CoverTyped, NoBucketStep DEF IInv
<1>2. /\ rsync \in [Syncs -> RsyncRecord] /\ RsyncOK(j)
      /\ Len(rsync[j].keys) \in Nat /\ Len(rsync[j].status) \in Nat
  BY RsyncFields
<1>3. r \in RsyncRecord
  BY <1>2 DEF RsyncRecord
<1>4. rsync' = [rsync EXCEPT ![j] = r]
  BY <1>2 DEF RsyncRecord
<1>5. /\ r.at = at /\ r.keys = rsync[j].keys /\ r.status = rsync[j].status /\ r.got = got
      /\ r.files = files /\ r.deferred = deferred
  BY <1>2 DEF RsyncRecord
<1> HIDE DEF r, Moves
<1>6. rsync' \in [Syncs -> RsyncRecord]
  BY <1>2, <1>3, <1>4
<1>7. rsync'[j] = r /\ \A k \in Syncs : k # j => rsync'[k] = rsync[k]
  BY <1>2, <1>4
<1> USE DEF Moves
<1>8. RsyncOK(j)'
  <2>1. at \in {"get", "put"} => Len(r.status) < Len(r.keys)
    BY <1>2, <1>5 DEF R!InTurn, R!Current
  <2>2. at = "answered" => Len(r.status) = Len(r.keys)
    BY <1>2, <1>5 DEF R!InTurn, R!Current, RsyncOK
  <2> QED
    BY <1>2, <1>5, <1>7, <2>1, <2>2 DEF RsyncOK
<1> QED
  BY <1>1, <1>6, <1>8 DEF RsyncStep

LEMMA RsyncAccept ==
  ASSUME IInv, NEW j \in Syncs, R!Accept(j)
  PROVE  RsyncStep(j)
<1>1. PICK at \in {"check", "failed"} : rsync' = [rsync EXCEPT ![j].at = at]
  BY DEF R!Accept
<1>2. rsync[j].at = "new" /\ UNCHANGED bucket
  BY DEF R!Accept, R!At
<1>3. /\ rsync \in [Syncs -> RsyncRecord] /\ RsyncOK(j)
      /\ rsync[j].got \in R!Content
      /\ rsync[j].files \in SUBSET R!Indexes /\ rsync[j].deferred \in SUBSET R!Indexes
  BY RsyncFields
<1>4. rsync' = [rsync EXCEPT ![j].at = at, ![j].got = rsync[j].got,
                             ![j].files = rsync[j].files, ![j].deferred = rsync[j].deferred]
  BY <1>1, <1>3 DEF RsyncRecord
<1>5. at \in {"new"} \cup R!Steps \cup R!Ended
  BY DEF R!Steps, R!Ended
<1>6. /\ rsync[j].deferred = {}
      /\ \A i \in rsync[j].files :
           \/ i \in rsync[j].deferred
           \/ i \in 1 .. Len(rsync[j].status) /\ rsync[j].status[i] = 0
  BY <1>2, <1>3 DEF RsyncOK
<1>7. Moves(j, at, rsync[j].got, rsync[j].files, rsync[j].deferred)
  BY <1>2, <1>3, <1>4, <1>5, <1>6 DEF Moves
<1> QED
  BY <1>7, MoveStep

LEMMA checkObjS3Step ==
  ASSUME IInv, NEW j \in Syncs, R!checkObjS3(j)
  PROVE  RsyncStep(j)
<1>1. rsync[j].at = "check" /\ R!InTurn(j) /\ UNCHANGED bucket
  BY DEF R!checkObjS3, R!At
<1>2. /\ rsync \in [Syncs -> RsyncRecord] /\ RsyncOK(j)
      /\ rsync[j].got \in R!Content
      /\ rsync[j].files \in SUBSET R!Indexes /\ rsync[j].deferred \in SUBSET R!Indexes
  BY RsyncFields
<1>3. \A i \in rsync[j].files :
        \/ i \in rsync[j].deferred
        \/ i \in 1 .. Len(rsync[j].status) /\ rsync[j].status[i] = 0
  BY <1>1, <1>2 DEF RsyncOK
<1>4. CASE bucket[R!Object(j)] # "none" /\ R!Settle(j, 1)
  <2>1. BucketGrows
    BY <1>1, CoverTyped, NoBucketStep DEF IInv
  <2> QED
    BY <1>1, <1>2, <1>3, <1>4, <2>1, AnswerStep DEF R!Settle
<1>5. CASE rsync' = [rsync EXCEPT ![j].at = "get"]
  <2>1. rsync' = [rsync EXCEPT ![j].at = "get", ![j].got = rsync[j].got,
                               ![j].files = rsync[j].files, ![j].deferred = rsync[j].deferred]
    BY <1>2, <1>5 DEF RsyncRecord
  <2>2. "get" \in {"new"} \cup R!Steps \cup R!Ended
    BY DEF R!Steps
  <2>3. Moves(j, "get", rsync[j].got, rsync[j].files, rsync[j].deferred)
    BY <1>1, <1>2, <1>3, <2>1, <2>2 DEF Moves
  <2> QED
    BY <2>3, MoveStep
<1> QED
  BY <1>4, <1>5 DEF R!checkObjS3

LEMMA GetStep ==
  ASSUME IInv, NEW j \in Syncs, R!Get(j)
  PROVE  RsyncStep(j)
<1> DEFINE n == R!Current(j)
           files == rsync[j].files \cup {n}
           held == R!Held(j)
<1>1. rsync[j].at = "get" /\ UNCHANGED bucket /\ BucketGrows
  BY CoverTyped, NoBucketStep DEF IInv, R!Get, R!At
<1>2. /\ rsync \in [Syncs -> RsyncRecord] /\ RsyncOK(j)
      /\ Len(rsync[j].keys) \in Nat /\ Len(rsync[j].status) \in Nat
      /\ Len(rsync[j].keys) <= MaxResources
      /\ rsync[j].files \in SUBSET R!Indexes /\ rsync[j].deferred \in SUBSET R!Indexes
  BY RsyncFields
<1>3. R!InTurn(j)
  BY <1>1, <1>2 DEF RsyncOK, R!InTurn, R!Current
<1>4. n \in R!Indexes
  BY <1>2, <1>3, MediaAssumption DEF MediaAssumption, R!Indexes, R!InTurn, R!Current
<1>5. files \in SUBSET R!Indexes /\ held \in SUBSET R!Indexes
  BY <1>2, <1>4 DEF R!Held
<1>6. \A i \in rsync[j].files :
        \/ i \in rsync[j].deferred
        \/ i \in 1 .. Len(rsync[j].status) /\ rsync[j].status[i] = 0
  BY <1>1, <1>2 DEF RsyncOK
<1>7. n \in held /\ rsync[j].deferred \subseteq held
  BY DEF R!Held
<1>8. PICK answer \in R!HTTPGetFile :
        \/ /\ answer.err
           /\ R!Answer(j, 0, IF answer.file = "none" THEN rsync[j].files ELSE files,
                       rsync[j].deferred)
        \/ ~answer.err /\ ~R!SizeMatches(answer) /\ R!Answer(j, 0, files, held)
        \/ /\ ~answer.err /\ R!SizeMatches(answer)
           /\ rsync' = [rsync EXCEPT ![j].at = "put", ![j].got = answer.file,
                                     ![j].files = files, ![j].deferred = held]
  BY DEF R!Get
<1> HIDE DEF held
<1>9. CASE R!Answer(j, 0, rsync[j].files, rsync[j].deferred)
  BY <1>1, <1>2, <1>3, <1>6, <1>9, AnswerStep
<1>10. CASE R!Answer(j, 0, files, rsync[j].deferred)
  BY <1>1, <1>2, <1>3, <1>5, <1>6, <1>10, AnswerStep
<1>11. CASE R!Answer(j, 0, files, held)
  BY <1>1, <1>2, <1>3, <1>5, <1>6, <1>7, <1>11, AnswerStep
<1>12. CASE /\ ~answer.err /\ R!SizeMatches(answer)
            /\ rsync' = [rsync EXCEPT ![j].at = "put", ![j].got = answer.file,
                                      ![j].files = files, ![j].deferred = held]
  <2>1. answer.file \in {"empty", "missed", "whole"}
    <3>1. /\ answer.file \in {"empty", "missed", "short", "whole"}
          /\ answer.length = 0 \/ answer.file = "whole"
      BY <1>12 DEF R!HTTPGetFile, R!NoBytes
    <3>2. R!Size["short"] = 1
      BY DEF R!Size
    <3> QED
      BY <1>12, <3>1, <3>2 DEF R!SizeMatches
  <2>2. answer.file \in R!Content /\ "put" \in {"new"} \cup R!Steps \cup R!Ended
    BY <2>1 DEF R!Content, R!Steps
  <2>3. \A i \in files :
          i \in held \/ (i \in 1 .. Len(rsync[j].status) /\ rsync[j].status[i] = 0)
    BY <1>6, <1>7
  <2> HIDE DEF files
  <2>4. Moves(j, "put", answer.file, files, held)
    BY <1>1, <1>3, <1>5, <1>12, <2>1, <2>2, <2>3 DEF Moves
  <2> QED
    BY <2>4, MoveStep
<1> QED
  BY <1>8, <1>9, <1>10, <1>11, <1>12

LEMMA uploadToS3Step ==
  ASSUME IInv, NEW j \in Syncs, R!uploadToS3(j)
  PROVE  RsyncStep(j)
<1>1. rsync[j].at = "put"
  BY DEF R!uploadToS3, R!At
<1>2. /\ rsync \in [Syncs -> RsyncRecord] /\ RsyncOK(j)
      /\ Len(rsync[j].keys) \in Nat /\ Len(rsync[j].status) \in Nat
      /\ rsync[j].got \in R!Content
      /\ rsync[j].files \in SUBSET R!Indexes /\ rsync[j].deferred \in SUBSET R!Indexes
  BY RsyncFields
<1>3. R!InTurn(j) /\ rsync[j].got \notin {"none", "short"}
  BY <1>1, <1>2 DEF RsyncOK, R!InTurn, R!Current
<1>4. R!Object(j) \in C!Objects
  BY <1>2, <1>3, NamedObject DEF R!Object, R!InTurn, R!Current
<1>5. \A i \in rsync[j].files :
        \/ i \in rsync[j].deferred
        \/ i \in 1 .. Len(rsync[j].status) /\ rsync[j].status[i] = 0
  BY <1>1, <1>2 DEF RsyncOK
<1>6. ASSUME NEW s \in {0, 1}, R!Settle(j, s), BucketGrows,
             s = 1 => bucket'[R!Object(j)] # "none"
      PROVE  RsyncStep(j)
  BY <1>2, <1>3, <1>5, <1>6, AnswerStep DEF R!Settle
<1>7. ASSUME NEW content \in R!Uploaded(rsync[j].got), NEW s \in {0, 1},
             bucket' = [bucket EXCEPT ![R!Object(j)] = content], R!Settle(j, s)
      PROVE  RsyncStep(j)
  <2>1. content \in C!Content \ {"none", "short"}
    BY <1>2, <1>3, <1>7 DEF R!Uploaded, R!Content, R!NoBytes, C!Content
  <2>2. BucketGrows /\ bucket'[R!Object(j)] # "none"
    BY <1>4, <1>7, <2>1, BucketPut DEF IInv
  <2> QED
    BY <1>6, <1>7, <2>2
<1>8. CASE UNCHANGED bucket /\ R!Settle(j, 0)
  <2>1. BucketGrows
    BY <1>8, CoverTyped, NoBucketStep DEF IInv
  <2> QED
    BY <1>6, <1>8, <2>1
<1> QED
  BY <1>7, <1>8 DEF R!uploadToS3

LEMMA RsyncPost ==
  ASSUME IInv, NEW j \in Syncs, R!Post(j)
  PROVE  RsyncStep(j)
<1> DEFINE files == rsync[j].files \ rsync[j].deferred
<1>1. rsync[j].at = "check" /\ ~R!InTurn(j) /\ UNCHANGED bucket
  BY DEF R!Post, R!At
<1>2. /\ rsync \in [Syncs -> RsyncRecord] /\ RsyncOK(j)
      /\ rsync[j].got \in R!Content
      /\ rsync[j].files \in SUBSET R!Indexes
  BY RsyncFields
<1>3. PICK at \in {"answered", "failed"} :
        rsync' = [rsync EXCEPT ![j].at = at, ![j].files = @ \ rsync[j].deferred,
                               ![j].deferred = {}]
  BY DEF R!Post
<1>4. rsync' = [rsync EXCEPT ![j].at = at, ![j].got = rsync[j].got, ![j].files = files,
                             ![j].deferred = {}]
  BY <1>2, <1>3 DEF RsyncRecord
<1>5. at \in {"new"} \cup R!Steps \cup R!Ended /\ at \notin {"get", "put"}
  BY DEF R!Ended
<1>6. \A i \in files : i \in 1 .. Len(rsync[j].status) /\ rsync[j].status[i] = 0
  BY <1>1, <1>2 DEF RsyncOK
<1>7. files \in SUBSET R!Indexes
  BY <1>2
<1>8. Moves(j, at, rsync[j].got, files, {})
  BY <1>1, <1>2, <1>4, <1>5, <1>6, <1>7 DEF Moves
<1> QED
  BY <1>8, MoveStep

LEMMA RsyncHandle ==
  ASSUME IInv, NEW j \in Syncs, R!Handle(j)
  PROVE  RsyncStep(j)
BY RsyncAccept, checkObjS3Step, GetStep, uploadToS3Step, RsyncPost DEF R!Handle

\* A job that a step does not touch keeps its promises while the bucket grows.
LEMMA RsyncFrame ==
  ASSUME IInv, BucketGrows, NEW k \in Syncs, rsync'[k] = rsync[k]
  PROVE  RsyncOK(k)'
<1>1. RsyncOK(k) /\ Len(rsync[k].status) \in Nat /\ Len(rsync[k].keys) \in Nat
  BY RsyncFields
<1>2. \A i \in 1 .. Len(rsync[k].status) :
        rsync[k].status[i] = 1 => bucket'[<<rsync[k].keys[i], "file">>] # "none"
  BY <1>1, NamedObject DEF RsyncOK, BucketGrows
<1> QED
  BY <1>1, <1>2 DEF RsyncOK

LEMMA RsyncCrash ==
  ASSUME IInv, R!Crash
  PROVE  /\ BucketGrows /\ rsync' \in [Syncs -> RsyncRecord]
         /\ \A j \in Syncs : RsyncOK(j)'
<1>1. BucketGrows /\ UNCHANGED bucket
  BY CoverTyped, NoBucketStep DEF IInv, R!Crash
<1>2. rsync' = [j \in Syncs |->
                  IF R!Runs(j)
                    THEN [rsync[j] EXCEPT !.at = "lost", !.status = <<>>, !.got = "none",
                                          !.deferred = {}]
                    ELSE rsync[j]]
  BY DEF R!Crash
<1>3. ASSUME NEW j \in Syncs
      PROVE  rsync'[j] \in RsyncRecord /\ RsyncOK(j)'
  <2>1. rsync[j] \in RsyncRecord /\ RsyncOK(j)
    BY RsyncFields
  <2>2. CASE R!Runs(j)
    <3>1. rsync'[j] = [rsync[j] EXCEPT !.at = "lost", !.status = <<>>, !.got = "none",
                                       !.deferred = {}]
      BY <1>2, <2>2
    <3>2. /\ rsync'[j].at = "lost" /\ rsync'[j].keys = rsync[j].keys
          /\ rsync'[j].status = <<>> /\ rsync'[j].deferred = {}
      BY <2>1, <3>1 DEF RsyncRecord
    <3>3. <<>> \in R!Lists({0, 1}) /\ Len(<<>>) = 0
      BY EmptyList
    <3>4. rsync'[j] \in RsyncRecord
      BY <2>1, <3>1, <3>3 DEF RsyncRecord, R!Ended, R!Content
    <3>5. RsyncOK(j)'
      BY <2>1, <3>2, <3>3, RsyncFields DEF RsyncOK
    <3> QED
      BY <3>4, <3>5
  <2>3. CASE ~R!Runs(j)
    <3>1. rsync'[j] = rsync[j]
      BY <1>2, <2>3
    <3> QED
      BY <1>1, <2>1, <3>1 DEF RsyncOK
  <2> QED
    BY <2>2, <2>3
<1>4. rsync' \in [Syncs -> RsyncRecord]
  BY <1>2, <1>3
<1> QED
  BY <1>1, <1>3, <1>4

\* Every step of the rsync worker.
LEMMA RsyncNext ==
  ASSUME IInv, R!Next
  PROVE  /\ BucketGrows /\ rsync' \in [Syncs -> RsyncRecord]
         /\ \A j \in Syncs : RsyncOK(j)'
<1>1. CASE R!Crash
  BY <1>1, RsyncCrash
<1>2. ASSUME NEW j \in Syncs, R!Handle(j)
      PROVE  /\ BucketGrows /\ rsync' \in [Syncs -> RsyncRecord]
             /\ \A k \in Syncs : RsyncOK(k)'
  <2>1. RsyncStep(j)
    BY <1>2, RsyncHandle
  <2> QED
    BY <2>1, RsyncFrame DEF RsyncStep
<1> QED
  BY <1>1, <1>2 DEF R!Next

-----------------------------------------------------------------------------
(* Both workers. *)

LEMMA InitIInv == Init => IInv
<1> SUFFICES ASSUME Init PROVE IInv
  OBVIOUS
<1>1. /\ bucket \in [C!Objects -> {"none", "whole"}]
      /\ cover \in [Covers -> [at : {"new"}, type : C!Types, key : Keys,
                               files : {[f \in C!Files |-> "none"]}, result : {{}}]]
      /\ rsync \in [Syncs -> [at : {"new"}, keys : R!Lists(Keys), status : {<<>>},
                              got : {"none"}, files : {{}}, deferred : {{}}]]
  BY DEF Init, C!Init, R!Init
<1>2. NotShort /\ bucket \in [C!Objects -> C!Content]
  BY <1>1 DEF NotShort, C!Content
<1>3. ASSUME NEW j \in Covers
      PROVE  cover[j] \in CoverRecord /\ CoverOK(j)
  <2>1. cover[j] \in [at : {"new"}, type : C!Types, key : Keys,
                      files : {[f \in C!Files |-> "none"]}, result : {{}}]
    BY <1>1
  <2>2. /\ cover[j].at = "new" /\ cover[j].type \in C!Types /\ cover[j].key \in Keys
        /\ cover[j].files = [f \in C!Files |-> "none"] /\ cover[j].result = {}
    BY <2>1
  <2>3. /\ [f \in C!Files |-> "none"] \in [C!Files -> C!Content \cup {"left"}]
        /\ {} \in SUBSET C!Pictures
    BY DEF C!Content
  <2>4. cover[j] \in CoverRecord
    BY <2>1, <2>3 DEF CoverRecord
  <2>5. ResultOf(cover[j].at, cover[j].type, cover[j].result)
    BY <2>2 DEF ResultOf
  <2>6. \A f \in C!Files : cover[j].files[f] = "none"
    BY <2>2
  <2>7. FilesOf(cover[j].at, cover[j].type, cover[j].files)
    BY <2>2, <2>6 DEF FilesOf, C!Files, C!Pictures, C!Content
  <2> QED
    BY <2>2, <2>4, <2>5, <2>7 DEF CoverOK
<1>4. ASSUME NEW j \in Syncs
      PROVE  rsync[j] \in RsyncRecord /\ RsyncOK(j)
  <2>1. rsync[j] \in [at : {"new"}, keys : R!Lists(Keys), status : {<<>>},
                      got : {"none"}, files : {{}}, deferred : {{}}]
    BY <1>1
  <2>2. /\ rsync[j].at = "new" /\ rsync[j].keys \in R!Lists(Keys) /\ rsync[j].status = <<>>
        /\ rsync[j].files = {} /\ rsync[j].deferred = {}
    BY <2>1
  <2>3. Len(<<>>) = 0
    BY EmptyList
  <2>4. <<>> \in R!Lists({0, 1})
    BY EmptyList
  <2>5. "none" \in R!Content /\ {} \in SUBSET R!Indexes
    BY DEF R!Content
  <2>6. rsync[j] \in RsyncRecord
    BY <2>1, <2>4, <2>5 DEF RsyncRecord
  <2>7. Len(rsync[j].keys) \in Nat
    BY <2>2, ListIsSeq, LenProperties
  <2> QED
    BY <2>2, <2>3, <2>6, <2>7 DEF RsyncOK
<1>5. cover \in [Covers -> CoverRecord] /\ rsync \in [Syncs -> RsyncRecord]
  BY <1>1, <1>3, <1>4
<1>6. TypeOK
  <2>1. C!TypeOK
    BY <1>2, <1>5 DEF C!TypeOK, CoverRecord
  <2>2. R!TypeOK
    BY <1>4, <1>5 DEF R!TypeOK, RsyncRecord, RsyncOK
  <2> QED
    BY <2>1, <2>2 DEF TypeOK
<1> QED
  BY <1>2, <1>3, <1>4, <1>6 DEF IInv

LEMMA NextIInv == IInv /\ [Next]_vars => IInv'
<1> SUFFICES ASSUME IInv, [Next]_vars PROVE IInv'
  OBVIOUS
<1>1. CASE C!Next /\ UNCHANGED rsync
  <2>1. C!TypeOK' /\ BucketGrows /\ \A j \in Covers : CoverOK(j)'
    BY <1>1, CoverNext
  <2>2. R!TypeOK'
    BY <1>1 DEF IInv, TypeOK, R!TypeOK
  <2>3. \A j \in Syncs : RsyncOK(j)'
    BY <1>1, <2>1, RsyncFrame
  <2> QED
    BY <2>1, <2>2, <2>3 DEF IInv, TypeOK, NotShort, BucketGrows
<1>2. CASE R!Next /\ UNCHANGED cover
  <2>1. /\ BucketGrows /\ rsync' \in [Syncs -> RsyncRecord]
        /\ \A j \in Syncs : RsyncOK(j)'
    BY <1>2, RsyncNext
  <2>2. C!TypeOK'
    BY <1>2, <2>1, CoverTyped DEF C!TypeOK, BucketGrows
  <2>3. R!TypeOK'
    BY <2>1 DEF R!TypeOK, RsyncRecord, RsyncOK
  <2>4. \A j \in Covers : CoverOK(j)'
    BY <1>2, <2>1, CoverFrame
  <2> QED
    BY <2>1, <2>2, <2>3, <2>4 DEF IInv, TypeOK, NotShort, BucketGrows
<1>3. CASE OtherPuts
  <2>1. UNCHANGED <<cover, rsync>>
    BY <1>3 DEF OtherPuts
  <2>2. BucketGrows
    <3>1. PICK k \in Keys : bucket' = [bucket EXCEPT ![<<k, "file">>] = "whole"]
      BY <1>3 DEF OtherPuts
    <3>2. <<k, "file">> \in C!Objects /\ "whole" \in C!Content \ {"none", "short"}
      BY DEF C!Objects, C!Files, C!Content
    <3> QED
      BY <3>1, <3>2, BucketPut DEF IInv
  <2>3. C!TypeOK' /\ R!TypeOK'
    BY <2>1, <2>2 DEF IInv, TypeOK, C!TypeOK, R!TypeOK, BucketGrows
  <2>4. (\A j \in Covers : CoverOK(j)') /\ (\A j \in Syncs : RsyncOK(j)')
    BY <2>1, <2>2, CoverFrame, RsyncFrame
  <2> QED
    BY <2>2, <2>3, <2>4 DEF IInv, TypeOK, NotShort, BucketGrows
<1>4. CASE UNCHANGED vars
  BY <1>4 DEF vars, IInv, TypeOK, C!TypeOK, R!TypeOK, NotShort, CoverOK, RsyncOK
<1> QED
  BY <1>1, <1>2, <1>3, <1>4 DEF Next

LEMMA Inductive == Spec => []IInv
BY InitIInv, NextIInv, PTL DEF Spec

\* The types of Media.
THEOREM TypeCorrect == Spec => []TypeOK
<1>1. IInv => TypeOK
  BY DEF IInv
<1> QED
  BY <1>1, Inductive, PTL

\* Whatever fails, whoever runs together and whoever puts an object there: what an
\* answer says is complete and in the bucket (cover/main.go:102-159,
\* rsync/main.go:95-133).
THEOREM AnswersAreAlwaysTrue == Spec => []AnswersAreTrue
<1>1. IInv => AnswersAreTrue
  <2> SUFFICES ASSUME IInv PROVE AnswersAreTrue
    OBVIOUS
  <2>1. ASSUME NEW j \in Covers, cover[j].at = "answered"
        PROVE  /\ cover[j].result = Wanted[cover[j].type]
               /\ \A f \in cover[j].result : bucket[<<cover[j].key, f>>] # "none"
    BY <2>1 DEF IInv, CoverOK, ResultOf
  <2>2. ASSUME NEW j \in Syncs, rsync[j].at = "answered"
        PROVE  /\ Len(rsync[j].status) = Len(rsync[j].keys)
               /\ \A i \in DOMAIN rsync[j].status :
                    rsync[j].status[i] = 1 => bucket[<<rsync[j].keys[i], "file">>] # "none"
    <3>1. DOMAIN rsync[j].status = 1 .. Len(rsync[j].status)
      BY RsyncFields, LenProperties
    <3> QED
      BY <2>2, <3>1 DEF IInv, RsyncOK
  <2> QED
    BY <2>1, <2>2 DEF AnswersAreTrue
<1> QED
  BY <1>1, Inductive, PTL

\* No part of a file that arrived cut off, and no picture of one, gets into the
\* bucket, whoever puts files there: what gets in of such a file has no bytes
\* (http.go:137-142, rsync/main.go:118-124).
THEOREM ObjectsAreNeverShort == Spec => []NoShortObject
<1>1. IInv => NoShortObject
  BY DEF IInv, NotShort, NoShortObject, C!CutOff, C!Size
<1> QED
  BY <1>1, Inductive, PTL

\* A cover job that is answered leaves no temporary file, and an rsync job that
\* ends only files of resources whose status is 0 (cover/main.go:101, 427,
\* rsync/main.go:117).
THEOREM NothingIsLeftBehind == Spec => []NothingLeftBehind
<1>1. IInv => NothingLeftBehind
  <2> SUFFICES ASSUME IInv PROVE NothingLeftBehind
    OBVIOUS
  <2>1. ASSUME NEW j \in Covers, cover[j].at = "answered"
        PROVE  \A f \in C!Files : cover[j].files[f] = "none"
    BY <2>1 DEF IInv, CoverOK, FilesOf
  <2>2. ASSUME NEW j \in Syncs, rsync[j].at \in {"answered", "failed"}
        PROVE  \A i \in rsync[j].files : rsync[j].status[i] = 0
    BY <2>2 DEF IInv, RsyncOK
  <2> QED
    BY <2>1, <2>2 DEF NothingLeftBehind
<1> QED
  BY <1>1, Inductive, PTL
=============================================================================

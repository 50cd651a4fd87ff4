------------------------------- MODULE Cover --------------------------------
(***************************************************************************)
(* worker/cover: a job names an image or a video in a bucket; its handler  *)
(* downloads it, makes a blurred image, and for a video a webp and a cover *)
(* image too, uploads them, and posts their keys to the job's callback.    *)
(* The jobs run each in a goroutine of one process, which may die.         *)
(*                                                                         *)
(* An object or a temporary file is its Content; what ffmpeg, convert and  *)
(* gif2webp make of a file is as whole as the file, or empty.  A handler   *)
(* that fails is not called again: its errors are not RetryError.          *)
(***************************************************************************)
EXTENDS HTTP

CONSTANTS
  Covers,  \* the jobs
  Keys     \* the keys of the files they name

VARIABLES
  bucket,  \* per object, its content
  cover    \* per job: where its handler is, its temporary files, and the keys
           \* in its result

Pictures == {"webp", "cover", "blur"}
Files == {"file"} \cup Pictures
Objects == Keys \X Files
Types == {"image", "video", "other"}

\* The steps of the handler, and how it ended: "answered" when the callback
\* got the result, "lost" when the process died.
Ended == {"answered", "failed", "lost"}
Steps == {"download", "webp", "upload webp", "image", "blur", "upload cover",
          "upload blur", "post"}

TypeOK ==
  /\ bucket \in [Objects -> Content]
  /\ cover \in [Covers -> [at : {"new"} \cup Steps \cup Ended, type : Types, key : Keys,
                           files : [Files -> Content \cup {"left"}],
                           result : SUBSET Pictures]]

Init ==
  cover \in [Covers -> [at : {"new"}, type : Types, key : Keys,
                        files : {[f \in Files |-> "none"]}, result : {{}}]]

Runs(j) == cover[j].at \in Steps
At(j, step) == cover[j].at = step

\* The step that follows, for the type of the job.
Then(j) ==
  CASE At(j, "download") -> [image |-> "blur", video |-> "webp", other |-> "post"][cover[j].type]
    [] At(j, "webp") -> "upload webp"
    [] At(j, "upload webp") -> "image"
    [] At(j, "image") -> "blur"
    [] At(j, "blur") -> IF cover[j].type = "video" THEN "upload cover" ELSE "upload blur"
    [] At(j, "upload cover") -> "upload blur"
    [] At(j, "upload blur") -> "post"

\* The step made this content of temporary file f, and the handler goes on.
GoOn(j, f, content) ==
  cover' = [cover EXCEPT ![j].at = Then(j), ![j].files[f] = content]

\* Nobody looks any more into the files a handler leaves when it ends before its
\* time.
Leave(files) == [f \in Files |-> IF files[f] = "none" THEN "none" ELSE "left"]

\* The handler returns an error after a step that left this content in f; the
\* downloaded file is removed on the way out.
Fail(j, f, content) ==
  cover' = [cover EXCEPT ![j].at = "failed", ![j].result = {},
                         ![j].files = Leave([@ EXCEPT ![f] = content, !["file"] = "none"])]

-----------------------------------------------------------------------------
\* A payload that cannot be parsed is an error.
Accept(j) ==
  /\ At(j, "new")
  /\ \E at \in {"download", "failed"} : cover' = [cover EXCEPT ![j].at = at]
  /\ UNCHANGED bucket

\* A download that fails leaves its file behind, which is not removed yet.
downloadFile(j) ==
  LET object == bucket[<<cover[j].key, "file">>]
  IN /\ At(j, "download")
     /\ \/ object # "none" /\ GoOn(j, "file", object)
        \/ cover' = [cover EXCEPT ![j].at = "failed", ![j].files["file"] = "left"]
     /\ UNCHANGED bucket

\* A tool makes file out of file in. That out is empty is noticed, but no error is
\* returned: the test declares an err of its own, which is nil.
Convert(j, in, out) ==
  /\ \/ cover[j].files[in] \notin NoBytes /\ GoOn(j, out, cover[j].files[in])
     \/ GoOn(j, out, "empty")
     \/ \E left \in {"none", "left"} : Fail(j, out, left)
  /\ UNCHANGED bucket

videoToImage(j) == At(j, "image") /\ Convert(j, "file", "cover")

imageBlur(j) ==
  At(j, "blur") /\ Convert(j, IF cover[j].type = "video" THEN "cover" ELSE "file", "blur")

\* When the palette, the gif or the webp is empty there is no webp, and no error.
\* Palette and gif are removed in any case.
videoToWebp(j) ==
  /\ At(j, "webp")
  /\ \/ cover[j].files["file"] \notin NoBytes /\ GoOn(j, "webp", cover[j].files["file"])
     \/ GoOn(j, "webp", "none")
     \/ \E left \in {"none", "left"} : Fail(j, "webp", left)
  /\ UNCHANGED bucket

\* A failed upload may have put the object in the bucket all the same.
Put(j, f) ==
  \E content \in Uploaded(cover[j].files[f]) :
    bucket' = [bucket EXCEPT ![<<cover[j].key, f>>] = content]

UploadDone(j, f) ==
  /\ Put(j, f)
  /\ cover' = [cover EXCEPT ![j].at = Then(j), ![j].files[f] = "none",
                            ![j].result = @ \cup {f}]

\* Mutant of uploadFile: the file is left behind.
UploadKeepsFile(j, f) ==
  /\ cover[j].files[f] # "none"
  /\ Put(j, f)
  /\ cover' = [cover EXCEPT ![j].at = Then(j), ![j].result = @ \cup {f}]

uploadFile(j, f) ==
  \/ cover[j].files[f] # "none" /\ UploadDone(j, f)
  \/ cover[j].files[f] # "none" /\ Put(j, f) /\ Fail(j, f, cover[j].files[f])
  \/ Fail(j, f, cover[j].files[f]) /\ UNCHANGED bucket

Upload(j) ==
  \/ At(j, "upload webp") /\ uploadFile(j, "webp")
  \/ At(j, "upload cover") /\ uploadFile(j, "cover")
  \/ At(j, "upload blur") /\ uploadFile(j, "blur")

Post(j) ==
  /\ At(j, "post")
  /\ \E answer \in HTTPPost :
       cover' = [cover EXCEPT ![j].at = IF answer.received THEN "answered" ELSE "failed",
                              ![j].files["file"] = "none"]
  /\ UNCHANGED bucket

\* The process dies, nobody handles its jobs again, and what files they leave nobody
\* knows. One way is a temporary file that cannot be made in downloadFile, which
\* then uses it.
Crash ==
  /\ \E j \in Covers : Runs(j)
  /\ cover' = [j \in Covers |->
       IF Runs(j)
         THEN [cover[j] EXCEPT !.at = "lost", !.files = [f \in Files |-> "left"], !.result = {}]
         ELSE cover[j]]
  /\ UNCHANGED bucket

Handle(j) ==
  \/ Accept(j) \/ downloadFile(j) \/ videoToWebp(j) \/ videoToImage(j) \/ imageBlur(j)
  \/ Upload(j) \/ Post(j)

Next == Crash \/ \E j \in Covers : Handle(j)
=============================================================================

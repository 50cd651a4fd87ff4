-------------------------------- MODULE HTTP --------------------------------
(***************************************************************************)
(* lib/http.go: what a call of HTTPGetFile or HTTPPost can end with, and   *)
(* what an upload to a bucket makes of a file.                             *)
(***************************************************************************)
EXTENDS Naturals

\* A file is whole, "empty" when it has no bytes, "short" when it arrived cut off,
\* "missed" when it was cut off before its first byte, or "cut" when an upload
\* stopped reading it half way; "none" is no file.
Content == {"none", "empty", "missed", "short", "cut", "whole"}
CutOff == {"missed", "short"}
Size == [empty |-> 0, missed |-> 0, short |-> 1, whole |-> 2]
NoBytes == {"empty", "missed"}

\* A body that ends before its Content-Length is an error of the client, a
\* Content-Length that is not there counts as 0, and a body without one ends
\* wherever the connection does, before its first byte too. The temporary file is
\* made first, and an error leaves it behind.
HTTPGetFile ==
  [err : {TRUE}, file : {"none", "missed", "short", "whole"}, length : {0}]
    \cup [err : {FALSE}, file : NoBytes \cup {"short", "whole"}, length : {0}]
    \cup [err : {FALSE}, file : {"whole"}, length : {Size["whole"]}]

\* The status of the answer is not looked at: without an error the body was
\* received, whatever the receiver made of it; with one it may have been.
HTTPPost == [err : {FALSE}, received : {TRUE}] \cup [err : {TRUE}, received : BOOLEAN]

\* The goroutine that feeds an upload ignores that it cannot read on, and closes
\* the pipe: the upload ends well with the bytes it got.
Uploaded(content) == IF content \in NoBytes THEN {content} ELSE {content, "cut"}
=============================================================================

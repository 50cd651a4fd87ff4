--------------------------- MODULE ServiceListing ---------------------------
(***************************************************************************)
(* What publishing a service in a registry promises those who look it up:  *)
(* a service that is in is listed all the time, one that left is not       *)
(* listed until it comes back, and only one that is out, because it is     *)
(* starting or died, may be listed or not.                                 *)
(***************************************************************************)
VARIABLES
  standing,  \* "out", "in", or "left"
  listed     \* whether a lookup finds the service

Init == standing = "out" /\ listed = FALSE

Appear == standing = "out" /\ listed' = TRUE /\ UNCHANGED standing
Vanish == standing = "out" /\ listed' = FALSE /\ UNCHANGED standing
Join == standing = "out" /\ listed /\ standing' = "in" /\ UNCHANGED listed
Leave == standing = "in" /\ standing' = "left" /\ listed' = FALSE
Die == standing = "in" /\ standing' = "out" /\ UNCHANGED listed
Return == standing = "left" /\ standing' = "out" /\ UNCHANGED listed

Next == Appear \/ Vanish \/ Join \/ Leave \/ Die \/ Return

Spec == Init /\ [][Next]_<<standing, listed>>

\* What a lookup may rely on.
ListedWhileIn ==
  /\ standing = "in" => listed
  /\ standing = "left" => ~listed
=============================================================================

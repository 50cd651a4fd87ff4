----------------------------- MODULE MCRelation -----------------------------
(***************************************************************************)
(* Requests for TLC.  Strangers: two users bind at the same time.          *)
(* Acquainted, handled concurrently: two users that have each other's      *)
(* account among their contacts bind, and one of them unbinds.  Returning, *)
(* handled one at a time in any order: a third user, an account that two   *)
(* users have, and a user that comes back.                                 *)
(***************************************************************************)
EXTENDS RelationWorker, TLC

CONSTANTS u1, u2, u3, r1, r2, r3, r4, r5, r6, a1, a2, a3

Bind(u, a, contacts) == [op |-> "bind", uid |-> u, tpID |-> a, contacts |-> contacts]
Unbind(u) == [op |-> "unbind", uid |-> u]

Strangers == r1 :> Bind(u1, a1, <<>>) @@ r2 :> Bind(u2, a2, <<>>)

Acquainted ==
  r1 :> Bind(u1, a1, <<a2>>) @@ r2 :> Bind(u2, a2, <<a1, NoTpID>>) @@ r3 :> Unbind(u1)

Returning ==
  r1 :> Bind(u1, a1, <<a2, a3>>) @@ r2 :> Bind(u2, a2, <<a1>>) @@ r3 :> Unbind(u1)
    @@ r4 :> Bind(u1, NoTpID, <<a3>>) @@ r5 :> Bind(u3, a3, <<a1, a2, NoTpID>>)
    @@ r6 :> Bind(u3, a2, <<a1>>)
=============================================================================

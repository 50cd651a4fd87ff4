----------------------------- MODULE MCResource -----------------------------
(***************************************************************************)
(* Jobs for TLC: a batch of an item from an unknown bucket and of a        *)
(* picture, with a cover and a blurred cover, beside a batch that copies   *)
(* the same picture and has an item of an unknown type.                    *)
(***************************************************************************)
EXTENDS Resource, TLC

CONSTANTS j1, j2, k1, k2, b1, b2, b3

Req(key, type, from, to) == [Key |-> key, Type |-> type, FromBucket |-> from, ToBucket |-> to]

Shared ==
  j1 :> <<Req(k2, "msg_url_only", b3, b1), Req(k1, "msg_image", b1, b2)>>
    @@ j2 :> <<Req(k1, "msg_url_only", b1, b2), Req(k2, "other", b1, b2)>>
=============================================================================

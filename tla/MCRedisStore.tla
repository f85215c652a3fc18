---------------------------- MODULE MCRedisStore ----------------------------
(* A small instance of RedisStore: agent a is only updated conditionally, to
   agent b its four callers do everything the store offers. *)
EXTENDS RedisStore, TLC

CONSTANTS a, b, c1, c2, c3, c4, c5, c6

To(op, agent) == [op |-> op, agent |-> agent]

Mixed ==
    c1 :> To("put_if_version", a) @@ c2 :> To("put_if_version", a)
    @@ c3 :> To("put_if_version", b) @@ c4 :> To("put", b)
    @@ c5 :> To("delete", b) @@ c6 :> To("delete_if_version", b)

Reused == c3 :> To("put_if_version", b) @@ c4 :> To("put", b) @@ c5 :> To("delete", b)
=============================================================================

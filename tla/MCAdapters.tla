----------------------------- MODULE MCAdapters -----------------------------
(* A small instance of Adapters: a handler and a graph share two agents. *)
EXTENDS Adapters

MCUses ==
    {"decorated", "hook", "callback", "context", "select", "filter", "get_tool",
     "is_trusted_tool", "submit_tool", "register_tool", "rank_tool"}

MCAmounts == {Counts(1, 1)}

(* The default threshold, which an agent without evidence meets. *)
MCFloor == <<1, 2>>
=============================================================================

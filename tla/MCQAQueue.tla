----------------------------- MODULE MCQAQueue -----------------------------
(* Three questions when nothing special happens, two when something does. *)
EXTENDS QAQueue
World(redis, events, asks) == [redis |-> redis, events |-> events, asks |-> asks]

Worlds == {World(TRUE, {}, 3),
           World(FALSE, {"cancel", "stop"}, 2), World(FALSE, {"close"}, 2),
           World(TRUE, {"stop"}, 2), World(TRUE, {"cancel"}, 2), World(TRUE, {"close"}, 2),
           World(TRUE, {"crash"}, 2), World(TRUE, {"redis", "slow"}, 2)}
Stopping == {World(TRUE, {"stop"}, 2)}
=============================================================================

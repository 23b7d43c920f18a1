--------------------------- MODULE MCApprovalGate ---------------------------
EXTENDS ApprovalGate
World(redis, events) == [redis |-> redis, named |-> TRUE, events |-> events]
Anonymous(world) == [world EXCEPT !.named = FALSE]
Worlds == {World(FALSE, {"emit", "cancel"}), World(TRUE, {"cancel"}), World(TRUE, {"emit", "crash"}),
           World(TRUE, {"late", "loss", "redis"}), Anonymous(World(TRUE, {"cancel"}))}
=============================================================================

-------------------------- MODULE MCContractReview --------------------------
EXTENDS ContractReview, TLC
CONSTANTS t1, t2
Symmetry == Permutations(Docs) \union Permutations(Requests)

Scene(clients, faults, ops, tasks, uploads) ==
  [clients |-> clients, faults |-> faults, ops |-> ops, tasks |-> tasks,
   uploads |-> uploads]
Core == {"upload", "start", "retry", "delete"}

\* Clients that race each other; two tasks that overlap after failures and
\* abandoned requests; workers that die before their last write, and after it.
Races == {Scene("concurrent", {"model"}, Core \union {"archive"}, {t1}, 2),
          Scene("single_tab", {"model", "db", "hangup"}, Core, {t1, t2}, 1),
          Scene("single_tab", {"expiry", "enqueue"}, Core, {t1, t2}, 1),
          Scene("single_tab", {"unacked"}, Core, {t1, t2}, 2)}
\* A client that waits while the database fails, with and without deletes.
Failing == {Scene("patient", WorkFails \union {"db"}, ops, {t1}, 2) :
              ops \in {Core, Core \ {"delete"}}}
RacesAndFailing == Races \union Failing
\* A client that waits, with everything else failing and with parser and model only.
Patience == {Scene("patient", WorkFails, AllOps, {t1}, 2),
             Scene("patient", {"parser", "model"}, Core, {t1}, 2)}
=============================================================================

---------------------------- MODULE MCSmartArchive ----------------------------
(* What meets what: users who take turns with a bin that is never emptied and
   with one that is, with failing calls and with crashes, with one runner and
   with two; users who overlap, on the reminder and on the document. *)
EXTENDS SmartArchive

Meetings == {{"one", "solo", "trash", "restore", "status", "dismiss", "db"},
             {"one", "solo", "trash", "restore", "status", "crash"},
             {"one", "solo", "expiry", "trash", "purge", "status"},
             {"one", "solo", "expiry", "archive", "trash", "crash"},
             {"one", "solo", "expiry", "trash", "patch", "db"},
             {"one", "trash", "status", "dismiss"},
             {"one", "lone", "expiry", "trash", "purge"},
             {"snooze", "delrem", "crash"},
             {"patch", "loan", "db"},
             {"solo", "expiry", "restore", "trash"},
             {"solo", "expiry", "purge", "status", "db"}}

\* Two behaviours of which docs/smart-archive.md says that they do not happen.
Comebacks == {{"one", "snooze", "delrem"}, {"one", "crowded", "trash"}}
=============================================================================

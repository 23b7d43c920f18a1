------------------------ MODULE MCKnowledgeProcessing ------------------------
(* Faults and requests that meet: failures and lost tasks with images, each
   request of a user against the pipeline, with and without a queue that can
   be inspected, and a worker that dies at any of its steps. *)
EXTENDS KnowledgeProcessing

Situations == {{"images", "redis", "enqueue"}, {"images", "fail"}, {"fail", "delete"},
               {"images", "delete"}, {"cancel", "lite", "window", "images"},
               {"cancel", "signal", "fail"}, {"reparse", "fail"},
               {"reparse", "impatient", "lite"}, {"crash"}, {"crash", "images", "empty"},
               {"reparse", "delete", "overwrite"}, {"cancel", "delete", "lite"},
               {"images", "probe", "fail"}, {"probe", "reparse", "delete"}}
=============================================================================

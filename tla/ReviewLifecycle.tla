--------------------------- MODULE ReviewLifecycle ---------------------------
(***************************************************************************)
(* What a user of one contract review is promised: the documented life     *)
(* cycle, in single steps.  A report is about the text of the current      *)
(* document and exists exactly while the review is completed.              *)
(***************************************************************************)
CONSTANTS Docs, None

VARIABLES stage, document, text, report
vars == <<stage, document, text, report>>

InProgress == {"uploading", "analyzing", "reviewing_clauses"}

Init == stage = "draft" /\ document = None /\ text = None /\ report = None

Submit(d) ==
  /\ stage \in {"draft", "ready", "failed"}
  /\ stage' = "uploading" /\ document' = d /\ text' = None /\ UNCHANGED report

Parse ==
  /\ stage = "uploading"
  /\ stage' = "ready" /\ text' = document /\ UNCHANGED <<document, report>>

Begin ==
  /\ stage = "ready"
  /\ stage' = "analyzing" /\ UNCHANGED <<document, text, report>>

Review ==
  /\ stage = "analyzing"
  /\ stage' = "reviewing_clauses" /\ UNCHANGED <<document, text, report>>

Finish ==
  /\ stage = "reviewing_clauses"
  /\ stage' = "completed" /\ report' = text /\ UNCHANGED <<document, text>>

GiveUp ==
  /\ stage \in InProgress
  /\ stage' = "failed" /\ UNCHANGED <<document, text, report>>

\* A retry of what failed, by the user or the queue, or a rerun of what is done.
Again ==
  /\ \/ stage = "failed" /\ text = None /\ stage' = "uploading"
     \/ stage \in {"failed", "completed"} /\ text # None /\ stage' = "analyzing"
  /\ report' = None /\ UNCHANGED <<document, text>>

Remove ==
  /\ stage # "deleted"
  /\ stage' = "deleted" /\ report' = None /\ UNCHANGED <<document, text>>

Next ==
  \/ \E d \in Docs : Submit(d)
  \/ Parse \/ Begin \/ Review \/ Finish \/ GiveUp \/ Again \/ Remove

Spec == Init /\ [][Next]_vars
=============================================================================

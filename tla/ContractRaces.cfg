INIT Init
NEXT Next
CONSTANTS
  Docs = {d1, d2}
  Requests = {q1, q2}
  t1 = t1
  t2 = t2
  Tasks = {t1, t2}
  Parties = {neutral}
  Findings = {f1}
  NClauses = 1
  MaxFound = 1
  Scenes <- RacesAndFailing
  None = None
SYMMETRY Symmetry
INVARIANTS
  RowIsConsistent
  OneRunAtATime
  FilesMatchReview
PROPERTIES
  DeletedIsFinal
CHECK_DEADLOCK FALSE

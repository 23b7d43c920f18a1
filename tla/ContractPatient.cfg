SPECIFICATION Spec
CONSTANTS
  Docs = {d1, d2}
  Requests = {q1}
  t1 = t1
  t2 = t2
  Tasks = {t1}
  Parties = {neutral, customer}
  Findings = {f1, f2}
  NClauses = 2
  MaxFound = 2
  Scenes <- Patience
  None = None
INVARIANTS
  ReportMatchesResults
PROPERTIES
  ImplementsLifecycle
  Settles
CHECK_DEADLOCK FALSE

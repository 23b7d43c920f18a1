SPECIFICATION Spec
CONSTANTS
  Calls = {c1, c2, c3}
  Backends = {b1, b2}
  None = None
  Layouts <- Hosts
  MaxSandboxes = 3
  Environments = {{"stall", "net", "slow"}, {"net", "crash", "cancel"}, {"restart", "cancel"}, {"kill"}, {"refuse"}}
SYMMETRY Symmetry
INVARIANTS
  LiveHandlesAreBound
  AtMostOnePerBackend
  NothingLeftBehind
  PinNamesTheBackend
PROPERTIES
  UsedSandboxesSurvive
CHECK_DEADLOCK FALSE

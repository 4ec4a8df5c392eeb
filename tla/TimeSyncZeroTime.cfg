SPECIFICATION Spec
CONSTANTS
  Clients = {c1}
  Requests <- ZeroBodies
  Labels <- LabelSet
  DefaultLabel <- NtpEast
  Epoch = 100
  Steps <- NoSteps
  MaxSteps = 1
  Horizon = 2
INVARIANTS SyncedClockReported

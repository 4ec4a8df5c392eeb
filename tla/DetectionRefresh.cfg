SPECIFICATION Spec
CONSTANTS
  NCameras = 1
  SubEnabled <- NoSub
  ProbeTimeout = 1
  SchedDelay = 1
  DetectionInterval = 5
  ProbeResults <- AnyAnswer
  MaxKicks = 4
  Horizon = 21
INVARIANTS TypeOK IInv AtMostTwoDetections InfoSane
PROPERTIES NoOldOverwrite DeadlinesFirm ImplementsRefreshing

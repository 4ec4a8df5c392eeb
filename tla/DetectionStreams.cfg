SPECIFICATION FairSpec
CONSTANTS
  NCameras = 1
  SubEnabled <- SubOfFirst
  ProbeTimeout = 1
  SchedDelay = 0
  DetectionInterval = 2
  ProbeResults <- OneAnswer
  MaxKicks = 2
  Horizon = 5
PROPERTIES OnlyOwnAnswersMerged DetectionsFinish CancelQuiesces

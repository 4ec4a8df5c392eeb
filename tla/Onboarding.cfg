SPECIFICATION FairSpec
CONSTANTS
  Nvrs = {n1}
  Cameras = {1, 2, 3}
  Port <- ThreePorts
  Config <- Switches
  Hosts <- Machine
  Cut <- ColonCut
  ConfiguredHost = ""
  OutboundHost = "10.0.0.5"
  RtspPort = 554
  NvrKinds <- AllKinds
INVARIANTS TypeOK ReferencesLeadBack AnsweredAsAsked StreamsOfCamera
PROPERTY NvrRecords
CHECK_DEADLOCK FALSE

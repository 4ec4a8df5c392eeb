SPECIFICATION Spec
CONSTANTS
  Nvrs = {n1}
  Cameras = {1, 2, 3}
  Port <- ThreePorts
  Config <- Switches
  Hosts <- Machine
  Cut <- ColonCut
  ConfiguredHost = "10.0.0.9"
  OutboundHost = "10.0.0.5"
  RtspPort = 554
  NvrKinds <- ByName
INVARIANT PlaysFromRtspHost
CHECK_DEADLOCK FALSE

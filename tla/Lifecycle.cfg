SPECIFICATION FairSpec
CONSTANTS
  NCameras = 5
  Port <- Clash
  EphemeralPorts = {8080, 40000}
  DeniedPorts = {70000}
  Files <- AllFiles
INVARIANTS TypeOK IInv EndsOnlyOnRequest PortsExclusive SignalNeverLost
PROPERTIES ImplementsListeners CamerasComeUp SignalEnds OwnPortListens

CONSTANTS
  c1 = c1
  c2 = c2
  Clients <- MCClients
  Cameras <- MCCameras
  OtherTokens <- MCOtherTokens
  Bitrates <- MCBitrates
  UriBodies <- MCUriBodies
  MaxSets = 2
SPECIFICATION Spec
SYMMETRY Symmetry
INVARIANTS TypeOK IInv SetsDecideGets DescribedIsPlayed

SPECIFICATION Spec
CONSTANTS
  Clients = {c1, c2}
  Requests <- PlainBodies
  Labels <- LabelSet
  DefaultLabel <- NtpEast
  Epoch = 100
  Steps <- Backwards
  MaxSteps = 1
  Horizon = 2
SYMMETRY Symmetry
INVARIANTS TypeOK IInv ReplyInWindow RoundTrip

SPECIFICATION FairSpec
CONSTANTS
  Handlers = {h1}
  Detectors = {d1, d2}
  IntFields = {width}
  StringFields = {codec}
  MaxMerges = 2
  NoOne = NoOne
INVARIANTS IInv WholeRecord ReplyInWindow WaitsEnd
PROPERTIES ImplementsAtomicRecord RequestsAnswered MergesComplete

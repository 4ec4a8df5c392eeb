SPECIFICATION Spec
CONSTANTS
  Handlers = {h1}
  Detectors = {d1}
  IntFields = {width}
  StringFields = {codec}
  MaxMerges = 1
  NoOne = NoOne
INVARIANTS ReplyIsOneRecord

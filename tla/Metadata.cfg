\* Words of 6 bits: 64 block sizes and 64 item sizes, so that sums wrap.
SPECIFICATION Spec
CONSTANTS
  W = 64
  HeaderSize = 12
  ItemSize = 8
  ImuHeaderSize = 4
  SampleSize = 3
  Types <- MCTypes
  UnknownType = "unknown"
  Counts <- MCCounts
  ImuWords <- MCImuWords
INVARIANTS
  ReadsInBounds
  ExtractsValidatedItems
  WalkEndsAtBlockEnd
  SamplesBehindHeader

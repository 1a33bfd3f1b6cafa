SPECIFICATION StreamsSpec
CONSTANTS
  d1 = d1  d2 = d2
  Data = {d1, d2}
  Size <- MCSize
  Queries <- MCQueries
\* Nobody closes the stream of an upload: both ends wait for the other.
CHECK_DEADLOCK FALSE
INVARIANTS StreamsTypeOK ConsumedIsIntact
PROPERTY UploadIsTransfer

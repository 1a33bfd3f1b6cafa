SPECIFICATION BrowserFairSpec
CONSTANTS
  Data = {d1, d2}
  Pushers = {p1, p2}
  ProgressBuffer = 1
  NoData = NoData
  \* wasm32-unknown-unknown
  Unwinds = FALSE
\* Uploads end, and so does the producer.
CHECK_DEADLOCK FALSE
INVARIANTS BrowserTypeOK CountsAgree ConfirmedIsStored PendingHasReason CompletedUploadsAreStored
PROPERTY PollsAreAnswered

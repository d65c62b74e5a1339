SPECIFICATION Spec
CONSTANTS
  c1 = c1
  c2 = c2
  list = list
  repay = repay
  approve = approve
  scan = scan
  Calls = {c1, c2}
  Reads = {}
  Commands = {repay}
  Uploads = {}
  Repeatable = {}
  Url <- UrlOf
  Retries = 1
  MaxEpoch = 2
  Replays = FALSE
  HonoursKeys = TRUE
  None = None
CHECK_DEADLOCK FALSE
INVARIANT CollapsedWithinSession

SPECIFICATION FairSpec
CONSTANTS
  c1 = c1
  c2 = c2
  list = list
  repay = repay
  approve = approve
  scan = scan
  Calls = {c1, c2}
  Reads = {list}
  Commands = {repay, approve}
  Uploads = {scan}
  Repeatable = {repay}
  Url <- UrlOf
  Retries = 1
  MaxEpoch = 2
  Replays = TRUE
  HonoursKeys = TRUE
  None = None
CHECK_DEADLOCK FALSE
INVARIANTS TypeOK OneFlightPerCommand AppliedOnce BusyMeansWaiting
PROPERTIES ImplementsChannel EveryoneIsTold

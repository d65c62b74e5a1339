SPECIFICATION QueuesSafe
CONSTANTS
  Queues = {"loanApproval", "clientActivation"}
  Ids = {1, 2}
  MaxRuns = 1
  MaxQueueLoads = 2
  Patient = FALSE
CHECK_DEADLOCK FALSE
INVARIANT BatchAddressesItsRows

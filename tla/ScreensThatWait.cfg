SPECIFICATION ScreensSpec
CONSTANTS
 Tasks = {t1, t2}
 MaxPosts = 2
 MaxOpenings = 2
 Texts = {"", "ann"}
 Statuses = {"", "active"}
 Sizes = {1, 2}
 FirstSize = 1
 MaxRecords = 3
 Fields = {"cronExpression", "active"}
 MaxSaves = 2
 MaxVisits = 1
 MaxEdits = 1
 MaxLoads = 1
 Queries = {"", "a", "b"}
 Clients = {"ann", "bob"}
 PicksWait = TRUE
 MaxNames = 1
 Last = 2
 Shell = {2}
 Screens = {"here", "there", "login"}
 Outside = {"login"}
 Patience = 3
 MaxLeft = 1
 Queues = {"loanApproval", "rescheduleApproval"}
 Ids = {1, 2}
 MaxRuns = 2
 MaxQueueLoads = 2
 Patient = TRUE
 Wanted = {"", "a", "ann", "bob"}
 TooShort = {"", "a"}
CHECK_DEADLOCK FALSE
INVARIANTS ScreensTypeOK LatestIsShown OwnChangesAreShown RecordsAreInReach NameIsOfTheClient TourKeepsToItsStep BatchAddressesItsRows FailuresAreNamed
PROPERTIES WaitsEnd ImplementsLatest SaveOverwritesNothingNewer

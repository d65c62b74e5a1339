SPECIFICATION FormsSpec
CONSTANTS
 Products = {"cumulative", "progressive"}
 Progressive = {"progressive"}
 RowNamed = {"cumulative"}
 Terms = {"principal"}
 PicksAtRest = TRUE
 MaxAsks = 1
 DayRules <- TypedDays
 MonthRanges <- TypedMonths
 Clock <- ClockMoments
 TimesOfDay = {1, 2}
 YearsAhead = 1
 PreviewCount = 3
 Upstream <- UpstreamMenu
 Extra = {"crm", "tools"}
 ExtraGroups = {"tools"}
 Dividers = {"|"}
 DeveloperTools = {"rates"}
 Gated = {"offices", "tools"}
 MaxItems = 1
 MaxPatches = 2
 MaxOrder = 1
CHECK_DEADLOCK FALSE
INVARIANTS FormsTypeOK ProgressiveIsAdvanced NoFlagOrDateLeftOver NextRunsAreNext MenuIsOneTree WishesAreMetOrReported
PROPERTIES DeliberateIsKept

\* Two tasks at once or one after the other, one edit of any file at any time.
CONSTANTS
    Names = {1, 2}
    Contents = {"a", "b", "c"}
    SizeOf <- MCSizeOf
    Torn = "torn"
    Tolerance = 1
    Excluded = {2}
    Tasks = {1, 2}
    Requests <- MCRequests
    Beginnings <- MCBeginnings
    Leftovers <- MCLeftovers
    Ahead <- MCAhead
    MaxPlans = 1
    Dropped = 1
    MaxClock = 6
    MaxEdits = 1
    MaxOthers = 1
SPECIFICATION Spec
INVARIANTS TypeOK LooksSameIsSame PromisedIsThere SyncConverges CancelledJobsStop PlanDropsOldest
PROPERTIES ReplacesOnlyConfirmed
CHECK_DEADLOCK FALSE

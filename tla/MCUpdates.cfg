CONSTANTS
    Jobs <- MCJobs
    Names = {"a", "b"}
    Patches = {"P", "Q", "R"}
    Bare = {"R"}
    Members <- MCMembers
    Special = {"b", "Q"}
    MaxAttempts = 2
    MaxTries = 3
    MaxReleases = 1
SPECIFICATION Spec
INVARIANTS
    OnlySelected
    SuccessMeansUpdated
    FailureIsContained
PROPERTY StopObeyed
CHECK_DEADLOCK FALSE

SPECIFICATION FairSpec
CONSTANTS
    NJobs = 2
    Contents <- MCContents
    RequestChoices <- MCRequestChoices
    MaxConcurrent = 1
    MaxJobs = 1
    Cancellable = {1}
    MaxRestarts = 1
    MaxFetches = 1
CHECK_DEADLOCK FALSE
INVARIANTS
    TypeOK
    PermitsAccounted
    ArtifactsMatchRequest
PROPERTIES
    NothingLost
    JobsLive

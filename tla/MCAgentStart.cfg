CONSTANTS
    Metadata <- MCMetadata
    MaxVersions = 2
    MaxUnmarshalErrors = 1
    MaxWebErrors = 1
    DebugFlag = FALSE
    EndpointFlag = "prod"
    MaxInt64 = 32767
    Minute = 3000
    Unset = Unset
    NotInt = NotInt
SPECIFICATION FairSpec
INVARIANTS
    ConfigMatchesEtag
    NoClientWhileDisabled
    PanicsOnlyForPollInterval
PROPERTIES
    IdentityKept
    ServiceStarts
    ConfigCatchesUp
    SigtermEnds
CHECK_DEADLOCK FALSE

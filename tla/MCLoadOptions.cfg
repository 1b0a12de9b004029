SPECIFICATION Spec
CONSTANTS
    Values <- Sampled
    Models <- LoadedModels
    MaxFailing = 1
    AskedTogether <- Together
INVARIANTS
    LimitsAgree
    LaunchedAsAsked
    AdvertisedIsAccepted
    AdmittedReachesServer
CHECK_DEADLOCK FALSE

SPECIFICATION FairSpec
CONSTANTS
    NumTools = 2
    RoundTimeouts = 1
    MaxFailures = 3
INVARIANTS TypeOK FatalNeedsEvidence FastRetryIffOneFailure UnregisteredStaysUnregistered
PROPERTIES ImplementsVerdict LostLinkIsFatal FatalStopsTheDaemon HeartbeatRestores

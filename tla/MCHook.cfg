SPECIFICATION FairSpec
CONSTANTS
    h1 = h1  h2 = h2
    t1 = t1  t2 = t2  t3 = t3  t4 = t4  t5 = t5
    Nothing = Nothing
    Hooks <- MCHooks
    Direct <- MCDirect
    Large <- MCLarge
    Tokens <- MCTokens
    MaxFaults = 3
    MaxRotations = 1
CHECK_DEADLOCK FALSE
INVARIANTS
    TypeOK
    NoLiveDaemonAsksToo
    RejectedOnlyAfterRotation
PROPERTIES
    ImplementsPlanReview
    HookReturns
    AbandonedReviewsEnd

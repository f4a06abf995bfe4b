SPECIFICATION FairSpec
CONSTANTS
    Sessions = {s1}
    Pollers = {p1, p2}
    Outputs = {"json", "prose"}
    WaitInputs = {0}
    SessionTTL = 1
    MaxTime = 2
    NoSession = NoSession
INVARIANTS TypeOK WakeupsAreExact VerdictIsTheProcesss ForgottenOnlyAfterTTL
PROPERTIES
    ImplementsPromise CleanJoinLeavesNothing AnswersMoveForward
    EndIsReported PollsReturn CallsReturn StopReturns

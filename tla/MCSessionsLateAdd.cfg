SPECIFICATION Spec
CONSTANTS
    Sessions = {s1}
    Pollers = {}
    Outputs = {"json"}
    WaitInputs = {0}
    SessionTTL = 0
    MaxTime = 0
    NoSession = NoSession
INVARIANTS JoinedBeforeStopReturns

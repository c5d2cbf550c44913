\* Two threads call Serve(), one Shutdown(), again and again.
CONSTANTS
    s1 = s1
    s2 = s2
    Servers <- TwoServers
SPECIFICATION FairSpec
INVARIANTS TypeOK OneServes
PROPERTIES AnswerIsTrue ErrorEndsServe ShutdownReturns ShutdownStopsPeers

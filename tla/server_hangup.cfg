\* A client has hung up when Shutdown() is called.
CONSTANTS
    s1 = s1
    s2 = s2
    Servers <- TwoServers
SPECIFICATION FairSpec
PROPERTY ShutdownStops

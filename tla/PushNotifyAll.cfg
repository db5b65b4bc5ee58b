SPECIFICATION FairSpec
CONSTANTS
    a = a
    b = b
    c = c
    t = t
    u = u
    r1 = r1
    Calls <- ThreeCalls
    Tasks <- TwoTasks
    TaskOf <- TwoOnOne
    Requests <- OnePost
    MaxServers = 2
CHECK_DEADLOCK FALSE
INVARIANTS QuietAfterShutdown
PROPERTIES RegistrationSettles

SPECIFICATION FairSpec
CONSTANTS
    c1 = c1
    c2 = c2
    u1 = u1
    MaxSessions = 2
    ChatOps <- TwoChats
    SubOps <- OneSubscribe
    MaxContent = 1
CHECK_DEADLOCK FALSE
INVARIANTS NeverDeaf InflightExact
PROPERTIES FeedDelivers

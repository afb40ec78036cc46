SPECIFICATION SubscribedSpec
CONSTANTS
    Users = {u1, u2, u3}
    Passwords = {p1}
    Topics = {"7"}
    NumericTopics = {"7"}
    TopicNumber <- MCTopicNumber
    SubIds = {1, 2, 3}
    MaxConns = 3
    Receipts = {FALSE}
    NoUser = NoUser
    NoPassword = NoPassword
    NoTopic = NoTopic
    IntegerCacheMax = 2
    MaxRequests = 8
INVARIANTS
    FanOutReach
CHECK_DEADLOCK FALSE

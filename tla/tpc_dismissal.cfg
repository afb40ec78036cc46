SPECIFICATION Spec
CONSTANTS
    Users = {u1, u2}
    Passwords = {p1, p2}
    Topics = {"7", "football"}
    NumericTopics = {"7"}
    TopicNumber <- MCTopicNumber
    SubIds = {1, 7}
    MaxConns = 2
    Receipts = {FALSE, TRUE}
    NoUser = NoUser
    NoPassword = NoPassword
    NoTopic = NoTopic
    IntegerCacheMax = 2
    MaxRequests = 3
INVARIANTS
    OnlyDismissedAreDropped
CHECK_DEADLOCK FALSE

SPECIFICATION Spec
CONSTANTS
    Users = {u1, u2}
    Passwords = {p1}
    Topics = {"7"}
    NumericTopics = {"7"}
    TopicNumber <- MCTopicNumber
    SubIds = {1, 7}
    MaxConns = 2
    Receipts = {TRUE}
    NoUser = NoUser
    NoPassword = NoPassword
    NoTopic = NoTopic
    IntegerCacheMax = 1
    MaxRequests = 4
INVARIANTS
    OrderlyReplies
    NoGhostSubscribers
PROPERTIES
    AccountsAreLocks
CHECK_DEADLOCK FALSE

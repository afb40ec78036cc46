SPECIFICATION Spec
CONSTANTS
  alice = alice
  bob = bob
  Users = {alice, bob}
  Account <- TwoAccounts
  Passwords = {pw}
  Topics <- All
  NumericTopics <- Numbers
  TopicNumber <- NumberOf
  SubIds <- Ids
  MaxConns = 2
  Receipts <- WithReceipt
  NoUser = NoUser
  NoPassword = NoPassword
  NoTopic = NoTopic
  MaxSecond = 3
  MaxCommands = 3
INVARIANTS OwnReceipts ApartMembersSubscribed ExitsAreKnown
CHECK_DEADLOCK FALSE

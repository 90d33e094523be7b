CONSTANTS
  Names = {n1, n2}
  Resolvers = {google1, google2}
  Timeout = 2
  TTLs <- MCTTLs
  MaxSockets = 2
  MaxReplies = 2
  MaxTime = 6
  NoHostent = NoHostent
SPECIFICATION Spec
INVARIANTS ResultFresh OneReply NothingLost WaitBounded
PROPERTY EveryResolverAsked
CHECK_DEADLOCK FALSE

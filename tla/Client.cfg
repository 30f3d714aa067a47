SPECIFICATION Spec
CONSTANTS
  t1 = t1
  t2 = t2
  TransportId <- MCTransportId
  NoTransport = NoTransport
  MaxInbox = 1
  TokensUsable = TRUE
SYMMETRY Permutation
CHECK_DEADLOCK FALSE
INVARIANTS
  TypeOK
  NoStuckState
  NoDanglingTransport
  AuthorizedWithToken
PROPERTIES
  LoginAnswerIsCurrent
  NoMessageLost

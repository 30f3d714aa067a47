SPECIFICATION Spec
CONSTANTS
  MaxOpened = 3
  MaxCon = 2
  MaxRequests = 2
  MaxLogins = 3
CHECK_DEADLOCK FALSE
INVARIANTS
  SocketsOwned
  AnswerHasOneSource
PROPERTY RequestsAnswered

SPECIFICATION Spec
CONSTANTS
  client = client
  host = host
  Peer <- MCPeer
  SeqMod = 16
  Window = 2
  RelMod = 4
  AckBits = 2
  SentSize = 4
  ReceivedSize = 4
  ResendDelay = 1
  ClientReliable = 5
  ClientUnreliable = 0
  ClientTime = 2
  HostReliable = 0
  HostUnreliable = 2
  HostTime = 0
  MaxReliable <- MCMaxReliable
  MaxUnreliable <- MCMaxUnreliable
  MaxTime <- MCMaxTime
CHECK_DEADLOCK FALSE
INVARIANTS
  TypeOK
  StreamIntact
  NothingDropped

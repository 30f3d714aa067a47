SPECIFICATION Spec
CONSTANTS
  Transport = {old, new}
  Urls = 2
  MaxDatagrams = 2
  MaxSends = 1
CHECK_DEADLOCK FALSE
INVARIANTS
  NoUseAfterFree
  StateHonest
  RecvInOrder
  BufferUnshared
PROPERTY WindsDown

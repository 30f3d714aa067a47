SPECIFICATION Spec
CONSTANTS
  Task = {login, join}
  Page = 12
  Header = 3
  MaxAlign = 2
  EnvAsked = 1
  EnvWords = 4
  EnvKept = 2
  ArgSize = {0, 2}
  Size = {2, 9, 10}
  MaxChunks = 3
  MaxLive = 3
SYMMETRY Tasks
INVARIANTS
  LiveDisjoint
  ChunkOwnedOnce
  EnvIntact

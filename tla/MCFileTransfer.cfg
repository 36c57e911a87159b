CONSTANTS
  a = a  b = b  n = n  Idle = Idle
  Files = {a, b}
  Names = {n}
  NameOf <- MCNameOf
  FullLen <- MCFullLen
  Suffixes <- MCSuffixes
  max_bytes = 2
  CHUNK_BYTES = 2
  RecvBuf = 1
  Window = 2
  MaxIds = 2
  MaxLost = 1
  MaxDups = 1
SPECIFICATION Spec
INVARIANTS TypeOK SentArrives
PROPERTY DeliversSnapshots

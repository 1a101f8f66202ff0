SPECIFICATION PairSpec
CONSTANTS
  p1 = p1
  p2 = p2
  Chunk = {p1, p2}
  ChunkLen <- MCChunkLen
  BufferSize = 3
  BlockLen = 2
  Request = {0, 1, 3}
  MaxTaken = 6
  MaxInput = 3
INVARIANT TypeOK
INVARIANT StreamInv
INVARIANT SameStream
PROPERTY ImplementsXof
PROPERTY SolImplementsXof

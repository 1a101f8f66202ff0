SPECIFICATION MuSpec
CONSTANTS
  ByteSpace = 2
  SizeSpace = 3
  CtxLimit = 1
  MaxText = 3
  Tr <- MCTr
  Context <- MCContext
  Message <- MCMessage
  Chunk <- MCChunk
  ChunkLen <- MCChunkLen
  BufferSize = 5
  BlockLen = 1
  MuLen = 2
  Request = {2}
  MaxTaken = 2
  NoMu = NoMu
  Refused = Refused
CHECK_DEADLOCK FALSE
INVARIANT MuBinds
INVARIANT OthersBind

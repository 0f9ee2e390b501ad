INIT Init
NEXT Next
CONSTANTS
  LenWire = 2
  Radix = 16
  Word = 512
  MaxVarint = 3
  WordBytes = 2
  WordBits = 4
  MaxPayload = 24
  MaxInstrs = 3
  DigestLen = 2
  MinCompress = 8
  MinKeys = 2
  BitsPerKey = 3
  Hashes = 2
  MaxBits = 8
  Zstd <- RunLength
  Unzstd <- Expand
  Streams = {0, 300}
  MaxSent = 2
  Messages <- AllMessages
  MaxDepth = 3
  Documents <- AllDocuments
  Alphabet <- Characters
INVARIANTS Faithful EndsForCause FilterCovers StrictIsJson SpansTile
CHECK_DEADLOCK FALSE

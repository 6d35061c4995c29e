CONSTANTS
  NUM_AES_BLOCKS_IN_BATCH = 2
  MaxOffset = 40
  MaxLen = 70
  TOAST_MAX_CHUNK_SIZE = 5
  TDE_TOAST_COMPRESS_HEADER_SIZE = 2
  MaxSize = 17
  SliceOffsets = {0, 1, 4, 5, 6, 10}
  Attr = {1, 2}
  Text <- MCText
  Compressible <- MCCompressible
  MaxDataLen = 3
  MaxStmt = 3
  Tables <- MCTables
  Ranges <- MCRanges
  MaxOffsetNumber = 2
  MaxBlocks = 3
  MaxChange = 1
  Worker = {1, 2}
SPECIFICATION MCSpec
INVARIANTS
  SameKeystream AllCrypted SliceDecrypted CopyFits LayoutKept UniformTuplesReadable
  RowsExact ParallelExact
PROPERTIES ScanIsCursor
CHECK_DEADLOCK FALSE

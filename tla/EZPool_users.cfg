\* Three threads over two chunks, the size of which is changed at any time.
CONSTANTS
  NULL = NULL
  Threads = {t1, t2, t3}
  MaxChunks = 2
  MaxSize = 2
  ChunkSizes = {1, 2}
SPECIFICATION Spec
INVARIANTS HandedOutOnce NothingLeaks
PROPERTIES ImplementsElementStore

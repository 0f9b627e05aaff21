\* read_size 2, limit 7: the array starts at 2 cells, is compacted, doubled
\* (2 -> 6 for 3 bytes) and clipped to the limit (-> 7).
CONSTANTS
  Byte <- MCByte
  Chunks <- MCChunks
  Junk = Junk
  max_buffer_size = 7
  read_size = 2
  INT_MAX = 9
  DefaultReadSize = 3
  MaxReceived = 8
  MaxWanted = 3
SPECIFICATION Spec
INVARIANTS TypeOK Bounds Integrity
PROPERTIES FullOnlyWhenFull FileBytesKept StreamSpec

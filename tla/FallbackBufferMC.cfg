\* read_size 2, limit 4: reservations of up to 4 bytes, in pieces of up to 3.
CONSTANTS
  Byte <- MCByte
  Chunks <- MCChunks
  max_buffer_size = 4
  read_size = 2
  INT_MAX = 9
  DefaultReadSize = 3
  MaxReceived = 7
  MaxWanted = 4
SPECIFICATION Spec
INVARIANTS TypeOK Indices Aligned FileBound
PROPERTIES RollsBack FullOnlyWhenFull

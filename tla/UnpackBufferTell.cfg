\* read_bytes() on a file whose read() raises; no hook does.
CONSTANTS
  Byte <- MCByte
  Chunks <- MCChunks
  Junk = Junk
  max_buffer_size = 7
  read_size = 2
  INT_MAX = 9
  DefaultReadSize = 3
  MaxReceived = 8
  MaxWanted = 3
SPECIFICATION QuietSpec
INVARIANT TellCountsBytesRead

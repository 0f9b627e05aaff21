\* Pieces of up to 2 bytes, a read_size of 2, a limit of 4, and three nested
\* calls.
CONSTANTS
  Cases <- MCCases
  DecodedBy <- MCDecodedBy
  MaxPiece = 2
  max_buffer_size = 0
  read_size = 0
  INT_MAX = 4
  DefaultReadSize = 2
  MaxWanted = 2
  RecursionLimit = 3
SPECIFICATION Spec
INVARIANT TellStartsNextObject
PROPERTIES MessageSpec CallReturns ObjectThatFitsIsRead

\* skip() over an ext 32 of the largest length.
CONSTANTS
  Cases <- MCLongExt
  MaxPiece = 2
  Junk = Junk
  max_buffer_size = 4
  read_size = 2
  INT_MAX = 7
  DefaultReadSize = 3
  MaxReceived = 64
  MaxWanted = 1
  EmbedStackSize = 4
  HooksRaise = FALSE
  RecursionLimit = 20
SPECIFICATION Spec
PROPERTY SkipWholeObject

\* Pieces of up to 2 bytes into a buffer of 2 cells that may grow to 4: the
\* sizes __init__ settles on by default.  Hooks may raise; three frames.
CONSTANTS
  Cases <- MCCases
  MaxPiece = 2
  Junk = Junk
  max_buffer_size = 0
  read_size = 0
  INT_MAX = 4
  DefaultReadSize = 2
  MaxReceived = 64
  MaxWanted = 1
  EmbedStackSize = 3
  HooksRaise = TRUE
  RecursionLimit = 4
SPECIFICATION Spec
INVARIANTS Frames HeadFollowsParser TellBetweenObjects
PROPERTIES MessageSpec WaitingSpec CallAdvances CallReturns
